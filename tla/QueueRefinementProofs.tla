----------------------- MODULE QueueRefinementProofs -----------------------
(***************************************************************************)
(* QueueLibrary implements FifoQueues, for every set of queues and of      *)
(* threads: each action of the library is one of the lines' steps.         *)
(***************************************************************************)
EXTENDS QueueRefinement, QueueLibraryProofs

Behind == [n \in Queue \cup Thread |-> After(next, n)]
Marked == {t \in Thread : t_priority[t] = removal}

(* Every cell is a queue or a thread. *)
LEMMA QueuesAndThreads == Queue \cup Thread = Node /\ Queue \cap Thread = {}
BY LibraryAssumption

(* What is in line at a queue is what a walk from its head visits next.    *)
LEMMA InLine ==
    ASSUME NEW nx, WellLinked(nx), NEW q \in Queue, NEW n \in Node
    PROVE  n \in Chain(nx, q) <=> n = q \/ n \in After(nx, q)
BY Cells, ChainStep DEF WellLinked

(* enqueue makes a thread the last of a line. *)
LEMMA LinkIsLast ==
    ASSUME NEW nx, WellLinked(nx), NEW q \in Queue, NEW t \in Thread, Loose(nx, t)
    PROVE  [n \in Queue \cup Thread |-> After(Link(nx, q, t), n)] =
             Fifo!WithLast([n \in Queue \cup Thread |-> After(nx, n)], q, t)
<1> DEFINE b == [n \in Queue \cup Thread |-> After(nx, n)]
<1>1. /\ nx \in Links /\ Acyclic(nx) /\ Unshared(nx) /\ q \in Node /\ t \in Node
      /\ t # q /\ nx[t] = NULL
      /\ \A m \in Node : nx[m] # q /\ nx[m] # t
  BY Cells DEF WellLinked, Loose
<1>2. \A n \in Node :
        After(Link(nx, q, t), n) =
          IF n \in Chain(nx, q) THEN After(nx, n) \cup {t} ELSE After(nx, n)
  BY <1>1, LinkBehind
<1>3. \A n \in Node : n \in Chain(nx, q) <=> n = q \/ n \in b[q]
  BY InLine, Cells
<1>4. \A n \in Node : b[n] = After(nx, n)
  BY QueuesAndThreads
<1>5. Fifo!WithLast(b, q, t) =
        [n \in Queue \cup Thread |->
            IF n = q \/ n \in b[q] THEN b[n] \cup {t} ELSE b[n]]
  BY DEF Fifo!WithLast
<1> HIDE DEF b
<1>6. \A n \in Queue \cup Thread :
        After(Link(nx, q, t), n) = IF n = q \/ n \in b[q] THEN b[n] \cup {t} ELSE b[n]
  BY <1>2, <1>3, <1>4, QueuesAndThreads
<1>7. QED
  BY <1>5, <1>6 DEF b

(* dequeueSpecific and dequeue take threads out of the lines. *)
LEMMA UnlinkIsWithout ==
    ASSUME WellLinked(next), NEW q \in Queue,
           NEW hits \in SUBSET Thread, hits \subseteq After(next, q)
    PROVE  [n \in Queue \cup Thread |-> After(Unlink(next, q, hits), n)] =
             Fifo!Without(hits)
<1>1. /\ next \in Links /\ Acyclic(next) /\ Unshared(next) /\ q \in Node
      /\ q \notin hits /\ \A m \in Node : next[m] # q
  BY Cells DEF WellLinked
<1>2. hits \subseteq Chain(next, q)
  BY <1>1, ChainStep
<1>3. \A n \in Node :
        After(Unlink(next, q, hits), n) =
          IF n \in hits THEN {} ELSE After(next, n) \ hits
  BY <1>1, <1>2, UnlinkBehind
<1>4. QED
  BY <1>3, QueuesAndThreads DEF Fifo!Without

-----------------------------------------------------------------------------
(* A thread is marked only once it was created: a marked thread that was   *)
(* created after that would lose its mark in line.                         *)
Unmarked == \A t \in Thread : parent[t] = NULL => t_priority[t] # removal

LEMMA UnmarkedInv ==
    /\ Init => Unmarked
    /\ IInv /\ Unmarked /\ [Next]_vars => Unmarked'
<1>1. Init => Unmarked
  BY Cells DEF Init, Unmarked
<1>2. ASSUME IInv, Unmarked, [Next]_vars
      PROVE  Unmarked'
  <2>1. /\ parent \in [Node -> Queue \cup {NULL}]
        /\ t_priority \in [Node -> {0, removal, INT_MAX}]
    BY <1>2 DEF IInv, TypeOK
  <2>2. CASE \E t \in Thread, q \in Queue : enqueueNew(t, q)
    BY <1>2, <2>1, <2>2, Cells DEF enqueueNew, createThread, Unmarked
  <2>3. ASSUME NEW t \in Thread, NEW q \in Queue, moveThread(t, q)
        PROVE  Unmarked'
    <3>1. /\ t_priority' = t_priority
          /\ \/ parent' = parent
             \/ \E s : parent' = [parent EXCEPT ![s] = q]
      BY <2>3 DEF moveThread
    <3>2. QED
      BY <1>2, <2>1, <3>1, Cells DEF Unmarked
  <2>4. CASE \E t \in Thread : setRemoval(t)
    BY <1>2, <2>1, <2>4, Cells DEF setRemoval, Unmarked
  <2>5. CASE \E q \in Queue : dequeue(q)
    BY <1>2, <2>5 DEF dequeue, Unmarked
  <2>6. CASE UNCHANGED vars
    BY <1>2, <2>6 DEF vars, Unmarked
  <2>7. QED
    BY <1>2, <2>2, <2>3, <2>4, <2>5, <2>6 DEF Next
<1>3. QED
  BY <1>1, <1>2

-----------------------------------------------------------------------------
(* The actions. *)

LEMMA InitIsInit == Init => Fifo!Init
<1> SUFFICES ASSUME Init PROVE Fifo!Init
  OBVIOUS
<1>1. \A n \in Queue \cup Thread : After(next, n) = {}
  BY QueuesAndThreads DEF Init, After
<1>2. Marked = {}
  BY QueuesAndThreads, Cells DEF Init, Marked
<1>3. QED
  BY <1>1, <1>2 DEF Init, Fifo!Init, Marked

(* A created thread joins a line. *)
LEMMA EnqueueIsJoin ==
    ASSUME IInv, Unmarked, NEW t \in Thread, NEW q \in Queue, enqueueNew(t, q)
    PROVE  Fifo!Join(t, q)
<1>1. /\ TypeOK /\ WellLinked(next) /\ ParentHoldsThread
      /\ Loose(next, t) /\ t \notin freed /\ parent[t] = NULL
  BY DEF IInv, enqueueNew
<1>2. [next EXCEPT ![t] = NULL] = next
  BY <1>1 DEF Loose, WellLinked, Links
<1>3. /\ next' = Link(next, q, t) /\ freed' = freed
      /\ t_priority' = [t_priority EXCEPT ![t] = INT_MAX]
  BY <1>2 DEF enqueueNew, createThread, move2Q
<1>4. \A p \in Queue : t \notin After(next, p)
  BY <1>1, Cells DEF ParentHoldsThread
<1>5. ~Fifo!Waiting(t)
  BY <1>4 DEF Fifo!Waiting
<1>6. t_priority \in [Node -> {0, removal, INT_MAX}] /\ t_priority[t] # removal
  BY <1>1 DEF TypeOK, Unmarked
<1>7. Marked' = Marked
  BY <1>3, <1>6, Cells DEF Marked
<1>8. Behind' = Fifo!WithLast(Behind, q, t)
  BY <1>1, <1>3, LinkIsLast DEF Behind
<1>9. QED
  BY <1>1, <1>3, <1>5, <1>7, <1>8 DEF Fifo!Join, Behind, Marked

(* A moved thread leaves its line and joins another, or the same, at the   *)
(* end.                                                                    *)
LEMMA MoveIsMove ==
    ASSUME IInv, NEW t \in Thread, NEW to \in Queue, moveThread(t, to)
    PROVE  Fifo!Move(t, parent[t], to) /\ parent[t] \in Queue
<1> DEFINE from == parent[t]
<1> DEFINE nx == Unlink(next, from, {t})
<1>1. TypeOK /\ WellLinked(next) /\ ParentHoldsThread /\ t \notin freed
  BY DEF IInv, moveThread
<1>2. from \in Queue /\ t \in After(next, from)
  BY <1>1, Cells DEF moveThread, TypeOK, ParentHoldsThread
<1>3. SameTid(t) = {t} /\ seek(next, from, SameTid(t)) = t
  BY <1>1, <1>2, SeekFinds
<1>4. /\ next' = Link(nx, to, t)
      /\ t_priority' = t_priority /\ freed' = freed
  BY <1>2, <1>3, Cells DEF moveThread, move2Q
<1>5. WellLinked(nx) /\ Loose(nx, t)
  BY <1>1, <1>2, UnlinkSome
<1>6. [n \in Queue \cup Thread |-> After(nx, n)] = Fifo!Without({t})
  BY <1>1, <1>2, UnlinkIsWithout
<1> HIDE DEF nx
<1>7. Behind' = Fifo!WithLast(Fifo!Without({t}), to, t)
  BY <1>4, <1>5, <1>6, LinkIsLast DEF Behind
<1>8. Marked' = Marked
  BY <1>4 DEF Marked
<1>9. t \in Behind[from]
  BY <1>2 DEF Behind
<1>10. QED
  BY <1>2, <1>4, <1>7, <1>8, <1>9 DEF Fifo!Move, Behind, Marked

(* A thread that is marked is in a line. *)
LEMMA RemovalIsMark ==
    ASSUME IInv, NEW t \in Thread, setRemoval(t)
    PROVE  Fifo!Mark(t)
<1>1. /\ TypeOK /\ ParentHoldsThread /\ t \notin freed /\ parent[t] # NULL
      /\ t_priority' = [t_priority EXCEPT ![t] = removal]
      /\ next' = next /\ freed' = freed
  BY DEF IInv, setRemoval
<1>2. parent[t] \in Queue /\ t \in Behind[parent[t]]
  BY <1>1, Cells DEF TypeOK, ParentHoldsThread, Behind
<1>3. Marked' = Marked \cup {t}
  BY <1>1, Cells DEF Marked, TypeOK
<1>4. Fifo!Waiting(t)
  BY <1>2 DEF Fifo!Waiting, Behind
<1>5. QED
  BY <1>1, <1>3, <1>4 DEF Fifo!Mark, Marked

(* dequeue takes the marked threads out of one line. *)
LEMMA DequeueIsSweep ==
    ASSUME IInv, NEW q \in Queue, dequeue(q)
    PROVE  Fifo!Sweep(q)
<1> DEFINE H == Swept(q)
<1>1. /\ next' = Unlink(next, q, H) /\ freed' = freed \cup H
      /\ t_priority' = t_priority
      /\ TypeOK /\ WellLinked(next)
  BY DEF dequeue, IInv
<1>2. q \in Node /\ next \in Links /\ Chain(next, q) = {q} \cup After(next, q)
      /\ Chain(next, q) \subseteq Node
  BY <1>1, Cells, ChainStep, ChainBasics DEF WellLinked
<1>3. q \notin H /\ H \in SUBSET Thread
  BY <1>2, Cells, QueuesAndThreads DEF IInv, Swept
<1>4. H = Marked \cap Behind[q]
  BY <1>2, <1>3 DEF Swept, Marked, Behind
<1>5. Behind' = Fifo!Without(H)
  BY <1>1, <1>3, <1>4, UnlinkIsWithout DEF Behind
<1> HIDE DEF H
<1>6. QED
  BY <1>1, <1>4, <1>5 DEF Fifo!Sweep, Behind, Marked

-----------------------------------------------------------------------------
(* The queue library behaves as lines of threads: its links and parent     *)
(* fields lose no thread, move no thread that was not asked for and change *)
(* no order (my_pthread_t_2.h:34-125, 199-221).                            *)
THEOREM LinksAreLines == Spec => QueuesAreFifo
<1>1. Init => Fifo!Init
  BY InitIsInit
<1>2. IInv /\ Unmarked /\ [Next]_vars => [Fifo!Next]_(Fifo!vars)
  <2> SUFFICES ASSUME IInv, Unmarked, [Next]_vars
               PROVE  Fifo!Next \/ UNCHANGED Fifo!vars
    OBVIOUS
  <2>1. CASE \E t \in Thread, q \in Queue : enqueueNew(t, q)
    BY <2>1, EnqueueIsJoin DEF Fifo!Next
  <2>2. CASE \E t \in Thread, q \in Queue : moveThread(t, q)
    BY <2>2, MoveIsMove DEF Fifo!Next
  <2>3. CASE \E t \in Thread : setRemoval(t)
    BY <2>3, RemovalIsMark DEF Fifo!Next
  <2>4. CASE \E q \in Queue : dequeue(q)
    BY <2>4, DequeueIsSweep DEF Fifo!Next
  <2>5. CASE UNCHANGED vars
    BY <2>5 DEF vars, Fifo!vars
  <2>6. QED
    BY <2>1, <2>2, <2>3, <2>4, <2>5 DEF Next
<1>3. Spec => []Unmarked
  BY Invariance, UnmarkedInv, PTL DEF Spec
<1>4. QED
  BY <1>1, <1>2, <1>3, Invariance, PTL DEF Spec, QueuesAreFifo, Fifo!Spec

(* What is proved of lines. *)
Lines == INSTANCE FifoQueuesProofs WITH
    behind <- [n \in Queue \cup Thread |-> After(next, n)],
    marked <- {t \in Thread : t_priority[t] = removal},
    gone <- freed

(* So the links of every queue are ordered, and no operation lets a thread *)
(* overtake one that stays (my_pthread_t_2.h:34-125, 199-221).             *)
THEOREM LinksStayOrdered == Spec => []Fifo!Ordered /\ Fifo!NoOvertaking
<1>1. Queue \cap Thread = {}
  BY QueuesAndThreads
<1>2. Fifo!Spec => Lines!Spec
  <2>1. Fifo!Init => Lines!Init
    BY DEF Fifo!Init, Lines!Init
  <2>2. [Fifo!Next]_(Fifo!vars) => [Lines!Next]_(Lines!vars)
    <3>1. \A t \in Thread, q \in Queue : Fifo!Join(t, q) => Lines!Join(t, q)
      BY DEF Fifo!Join, Lines!Join, Fifo!Waiting, Lines!Waiting,
             Fifo!WithLast, Lines!WithLast
    <3>2. \A t \in Thread, from, to \in Queue :
             Fifo!Move(t, from, to) => Lines!Move(t, from, to)
      BY DEF Fifo!Move, Lines!Move, Fifo!Without, Lines!Without,
             Fifo!WithLast, Lines!WithLast
    <3>3. \A t \in Thread : Fifo!Mark(t) => Lines!Mark(t)
      BY DEF Fifo!Mark, Lines!Mark, Fifo!Waiting, Lines!Waiting
    <3>4. \A q \in Queue : Fifo!Sweep(q) => Lines!Sweep(q)
      BY DEF Fifo!Sweep, Lines!Sweep, Fifo!Without, Lines!Without
    <3>5. Fifo!vars = Lines!vars /\ (UNCHANGED Fifo!vars => UNCHANGED Lines!vars)
      BY DEF Fifo!vars, Lines!vars
    <3>6. QED
      BY <3>1, <3>2, <3>3, <3>4, <3>5 DEF Fifo!Next, Lines!Next
  <2>3. QED
    BY <2>1, <2>2, PTL DEF Fifo!Spec, Lines!Spec
<1>3. Lines!Spec => []Fifo!Ordered
  <2>1. Lines!Spec => []Lines!Ordered
    BY <1>1, Lines!LinesAreOrdered
  <2>2. Lines!Ordered => Fifo!Ordered
    BY DEF Lines!Ordered, Fifo!Ordered
  <2>3. QED
    BY <2>1, <2>2, PTL
<1>4. Lines!Spec => Fifo!NoOvertaking
  <2>1. Lines!Spec => Lines!NoOvertaking
    BY <1>1, Lines!NobodyIsOvertaken
  <2>2. [\A a, b \in Thread :
            b \in Behind[a] /\ a \in Behind'[b] => Behind'[a] = {}]_(Lines!vars)
        => [\A a, b \in Thread :
               b \in Behind[a] /\ a \in Behind'[b] => Behind'[a] = {}]_(Fifo!vars)
    BY DEF Lines!vars, Fifo!vars
  <2>3. QED
    BY <2>1, <2>2, PTL DEF Lines!NoOvertaking, Fifo!NoOvertaking, Behind
<1>5. QED
  BY <1>2, <1>3, <1>4, LinksAreLines, PTL DEF QueuesAreFifo

=============================================================================
