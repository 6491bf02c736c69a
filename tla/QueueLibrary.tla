---------------------------- MODULE QueueLibrary ----------------------------
(***************************************************************************)
(* The first version of the queue library, my_pthread_t_2.h, and a client  *)
(* of it.  As its test program my_pthread_2.c does, the client creates     *)
(* threads into a queue and moves them from the queue their parent field   *)
(* names to another.  It also gives threads the priority 26, the one that  *)
(* dequeue looks for, and sweeps queues; no client in the repository does. *)
(***************************************************************************)
EXTENDS LinkedQueues, FiniteSets

CONSTANTS
    Queue,    \* the heads of the queues
    Thread,   \* the thread blocks of the program
    tid,      \* the tid of each head, and the one rand() will give each thread
    INT_MAX   \* the priority of a new thread

removal == 26

ASSUME LibraryAssumption ==
    /\ Node = Queue \cup Thread
    /\ Queue \cap Thread = {}
    /\ INT_MAX \in Nat /\ INT_MAX > removal
    /\ tid \in [Node -> Nat]

(* rand() is not seeded: the ids it gives the first threads are known, all *)
(* different and larger than those of the heads.                           *)
ASSUME DistinctTids == \A a, b \in Node : tid[a] = tid[b] => a = b

VARIABLES
    next,        \* the links
    parent,      \* the queue a thread was put in last, or NULL
    t_priority,  \* the priority of each block
    freed        \* the blocks that were freed

vars == <<next, parent, t_priority, freed>>

SameTid(t) == {n \in Node : tid[n] = tid[t]}

-----------------------------------------------------------------------------
(* The fields createThread sets, apart from next and tid. *)
createThread(t) == t_priority' = [t_priority EXCEPT ![t] = INT_MAX]

(* A faulty enqueue: the new thread is put first. *)
enqueueNew_First(t, q) ==
    /\ parent[t] = NULL
    /\ next' = [next EXCEPT ![t] = next[q], ![q] = t]
    /\ parent' = [parent EXCEPT ![t] = q]
    /\ createThread(t)
    /\ UNCHANGED freed

(* A faulty move2Q: the test of moveFrom is inverted, so that the walk     *)
(* that takes the thread out starts at NULL or not at all.                 *)
move2Q_Inverted(nx, to, from, t) == Link(nx, to, t)

(* move2Q for a thread that is in queue from, or in none: then from is     *)
(* NULL and nothing is dequeued.                                           *)
move2Q(nx, to, from, t) ==
    Link(IF from = NULL THEN nx ELSE Unlink(nx, from, SameTid(t)), to, t)

(* enqueue(q, createThread(t)), or move2Q(q, NULL, createThread(t)). *)
enqueueNew(t, q) ==
    /\ parent[t] = NULL
    /\ next' = move2Q([next EXCEPT ![t] = NULL], q, NULL, t)
    /\ parent' = [parent EXCEPT ![t] = q]
    /\ createThread(t)
    /\ UNCHANGED freed

(* move2Q(to, t->parent, seek(t->parent, t)); it does nothing if seek      *)
(* finds no thread.                                                        *)
moveThread(t, to) ==
    /\ t \notin freed /\ parent[t] # NULL
    /\ LET s == seek(next, parent[t], SameTid(t))
       IN  IF s = NULL THEN UNCHANGED <<next, parent>>
           ELSE /\ next' = move2Q(next, to, parent[t], s)
                /\ parent' = [parent EXCEPT ![s] = to]
    /\ UNCHANGED <<t_priority, freed>>

(* The client marks a thread for the next dequeue of its queue. *)
setRemoval(t) ==
    /\ t \notin freed /\ parent[t] # NULL
    /\ t_priority' = [t_priority EXCEPT ![t] = removal]
    /\ UNCHANGED <<next, parent, freed>>

(* Faulty Swepts: marked threads of every queue are taken; lower           *)
(* priorities are taken too, such as that of the head.                     *)
Swept_Everywhere(q) == {n \in Node : t_priority[n] = removal}
Swept_Lower(q) == {n \in Chain(next, q) : t_priority[n] <= removal}

(* The blocks that dequeue takes out of a queue. *)
Swept(q) == {n \in Chain(next, q) : t_priority[n] = removal}

dequeue(q) ==
    /\ next' = Unlink(next, q, Swept(q))
    /\ freed' = freed \cup Swept(q)
    /\ UNCHANGED <<parent, t_priority>>

-----------------------------------------------------------------------------
(* rePrioritize, which nothing calls: the first block of the highest       *)
(* priority changes places with the first block of the queue.  If the      *)
(* queue is empty it writes through pointers it never set: it crashes or   *)
(* spoils memory, and has no result.                                       *)

Highest(nx, q) ==
    CHOOSE m \in After(nx, q) :
        \A k \in After(nx, q) :
            /\ t_priority[k] <= t_priority[m]
            /\ t_priority[k] = t_priority[m] => k \in Chain(nx, m)

(* A faulty rePrioritize: the last assignment is forgotten. *)
rePrioritize_Dropped(nx, q) ==
    LET start == nx[q]
        m == Highest(nx, q)
    IN  [[nx EXCEPT ![m] = nx[start]] EXCEPT ![start] = nx[m], ![q] = m]

rePrioritize(nx, q) ==
    LET start == nx[q]
        m == Highest(nx, q)
        prev == CHOOSE p \in Chain(nx, q) : nx[p] = m
    IN  IF start = NULL THEN NULL
        ELSE [[[nx EXCEPT ![m] = nx[start]] EXCEPT ![start] = nx[m]]
                 EXCEPT ![q] = m, ![prev] = start]

-----------------------------------------------------------------------------
Init ==
    /\ next = [n \in Node |-> NULL]
    /\ parent = [n \in Node |-> NULL]
    /\ t_priority = [n \in Node |-> 0]
    /\ freed = {}

Next ==
    \/ \E t \in Thread, q \in Queue : enqueueNew(t, q)
    \/ \E t \in Thread, q \in Queue : moveThread(t, q)
    \/ \E t \in Thread : setRemoval(t)
    \/ \E q \in Queue : dequeue(q)

Spec == Init /\ [][Next]_vars

-----------------------------------------------------------------------------
(* Properties. *)

(* The types of the variables; a freed block keeps the priority that had   *)
(* it removed.                                                             *)
TypeOK ==
    /\ next \in Links
    /\ parent \in [Node -> Queue \cup {NULL}]
    /\ t_priority \in [Node -> {0, removal, INT_MAX}]
    /\ freed \subseteq {t \in Thread : t_priority[t] = removal}

(* The queues stay acyclic and disjoint, so runT and the removing loops    *)
(* end (my_pthread_t_2.h:34-125).                                          *)
QueuesWellFormed == Acyclic(next) /\ Unshared(next)

(* No queue leads to a block that was freed, and a block that was not is   *)
(* in the queue its parent field names, the one a later move takes it from *)
(* (my_pthread_t_2.h:52-62, 82-103, my_pthread_2.c:16-21).                 *)
ParentHoldsThread ==
    \A t \in Thread : \A q \in Queue :
        t \in After(next, q) <=> t \notin freed /\ parent[t] = q

(* rePrioritize puts the first block of the highest priority in front of   *)
(* a queue that is not empty and keeps the rest, unless it is the second   *)
(* block: neighbours are exchanged into two blocks that point at           *)
(* themselves, and every later walk of the queue hangs                     *)
(* (my_pthread_t_2.h:128-161).                                             *)
AgingSparesSecond ==
    \A q \in {p \in Queue : next[p] # NULL} :
        LET m == Highest(next, q)
            aged == rePrioritize(next, q)
        IN  IF m = next[next[q]] THEN aged[m] = m /\ aged[next[q]] = next[q]
            ELSE /\ Acyclic(aged) /\ Unshared(aged)
                 /\ After(aged, q) = After(next, q) /\ aged[q] = m

=============================================================================
