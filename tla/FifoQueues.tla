------------------------------ MODULE FifoQueues ------------------------------
(***************************************************************************)
(* What the queues promise their clients (my_pthread.c:174-179, 226-233):  *)
(* lines of threads, in which a thread stands once at most, joins at the   *)
(* end and leaves from anywhere without disturbing the order of the rest.  *)
(***************************************************************************)
CONSTANTS
    Queue,  \* the queues
    Thread  \* the threads

VARIABLES
    behind,  \* the threads behind each thread, and those in line at each queue
    marked,  \* threads to be removed by the next sweep of their queue
    gone     \* threads that were removed

vars == <<behind, marked, gone>>

Waiting(t) == \E q \in Queue : t \in behind[q]

(* The lines without the threads of S. *)
Without(S) ==
    [n \in Queue \cup Thread |-> IF n \in S THEN {} ELSE behind[n] \ S]

(* The lines b when t, which is in none, takes the last place at q. *)
WithLast(b, q, t) ==
    [n \in Queue \cup Thread |->
        IF n = q \/ n \in b[q] THEN b[n] \cup {t} ELSE b[n]]

Init ==
    /\ behind = [n \in Queue \cup Thread |-> {}]
    /\ marked = {}
    /\ gone = {}

Join(t, q) ==
    /\ t \notin gone /\ ~Waiting(t)
    /\ behind' = WithLast(behind, q, t)
    /\ UNCHANGED <<marked, gone>>

Move(t, from, to) ==
    /\ t \in behind[from]
    /\ behind' = WithLast(Without({t}), to, t)
    /\ UNCHANGED <<marked, gone>>

Mark(t) ==
    /\ Waiting(t)
    /\ marked' = marked \cup {t}
    /\ UNCHANGED <<behind, gone>>

Sweep(q) ==
    /\ behind' = Without(marked \cap behind[q])
    /\ gone' = gone \cup (marked \cap behind[q])
    /\ UNCHANGED marked

Next ==
    \/ \E t \in Thread, q \in Queue : Join(t, q)
    \/ \E t \in Thread, from, to \in Queue : Move(t, from, to)
    \/ \E t \in Thread : Mark(t)
    \/ \E q \in Queue : Sweep(q)

Spec == Init /\ [][Next]_vars

-----------------------------------------------------------------------------
(* Every queue is a line: its threads are in no other, none is behind      *)
(* itself, of two threads one is behind the other, and what is behind a    *)
(* thread is behind all that are ahead of it.                              *)
Ordered ==
    \A q \in Queue :
        /\ \A p \in Queue \ {q} : behind[p] \cap behind[q] = {}
        /\ \A a \in behind[q] : a \notin behind[a] /\ behind[a] \subseteq behind[q]
        /\ \A a, b \in behind[q] :
              /\ a = b \/ a \in behind[b] \/ b \in behind[a]
              /\ b \in behind[a] => behind[b] \subseteq behind[a]

(* No thread is overtaken: one that was ahead of another and is now behind *)
(* it has gone to the end of a line.                                       *)
NoOvertaking ==
    [][\A a, b \in Thread :
         b \in behind[a] /\ a \in behind'[b] => behind'[a] = {}]_vars

=============================================================================
