-------------------------- MODULE QueueLibraryProofs --------------------------
(***************************************************************************)
(* Proofs about QueueLibrary, for every set of queues and of threads: the  *)
(* links stay well-formed and the parent fields name the right queues,     *)
(* whatever threads are created, moved, marked and swept.                  *)
(***************************************************************************)
EXTENDS QueueLibrary, LinkedQueuesProofs

(* Links that are well-formed and in which no cell leads to a head. *)
WellLinked(nx) ==
    /\ nx \in Links
    /\ Acyclic(nx)
    /\ Unshared(nx)
    /\ \A n \in Node, q \in Queue : nx[n] # q

(* The block is in no queue. *)
Loose(nx, t) == nx[t] = NULL /\ \A n \in Node : nx[n] # t

(* The inductive invariant.  Next to what is to be proved it says that the *)
(* heads are never marked and that a block that is not created yet or      *)
(* freed is in no queue: enqueue would otherwise put it in two places.     *)
IInv ==
    /\ TypeOK
    /\ WellLinked(next)
    /\ ParentHoldsThread
    /\ \A q \in Queue : t_priority[q] = 0
    /\ \A t \in Thread : parent[t] = NULL => Loose(next, t) /\ t \notin freed
    /\ \A t \in freed : Loose(next, t)

-----------------------------------------------------------------------------
(* Heads and blocks are different cells, and none of them is NULL. *)
LEMMA Cells ==
    /\ Queue \subseteq Node /\ Thread \subseteq Node
    /\ \A q \in Queue : q # NULL /\ q \notin Thread
    /\ \A t \in Thread : t # NULL /\ t \notin Queue
    /\ removal # 0 /\ INT_MAX # removal /\ INT_MAX # 0
BY LibraryAssumption, NullAssumption DEF removal

(* No two queues have a cell in common. *)
LEMMA QueuesApart ==
    ASSUME NEW nx, WellLinked(nx), NEW a \in Queue, NEW b \in Queue, a # b
    PROVE  Chain(nx, a) \cap Chain(nx, b) = {}
<1>1. a \in Node /\ b \in Node
  BY Cells
<1>2. \A n \in Node : nx[n] # a /\ nx[n] # b
  BY DEF WellLinked
<1>3. QED
  BY <1>1, <1>2, ChainsDisjoint DEF WellLinked

(* A block that is in no queue is on the walk of none. *)
LEMMA LooseIsUnreached ==
    ASSUME NEW nx, WellLinked(nx), NEW t \in Thread, Loose(nx, t), NEW q \in Queue
    PROVE  t \notin Chain(nx, q)
BY Cells, UnreachedCell DEF WellLinked, Loose

(* enqueue of a block that is in no queue adds it to one queue. *)
LEMMA LinkOne ==
    ASSUME NEW nx, WellLinked(nx), NEW q \in Queue,
           NEW t \in Thread, Loose(nx, t)
    PROVE  /\ WellLinked(Link(nx, q, t))
           /\ \A p \in Queue : After(Link(nx, q, t), p) =
                               After(nx, p) \cup (IF p = q THEN {t} ELSE {})
           /\ \A s \in Thread \ {t} : Loose(nx, s) => Loose(Link(nx, q, t), s)
<1> DEFINE e == runT(nx, q)
<1> DEFINE ny == Link(nx, q, t)
<1>1. nx \in Links /\ Acyclic(nx) /\ Unshared(nx) /\ q \in Node /\ t \in Node
  BY Cells DEF WellLinked
<1>2. e \in Chain(nx, q) /\ e \in Node /\ nx[e] = NULL
  BY <1>1, TailExists, ChainBasics
<1>3. /\ ny \in Links
      /\ \A n \in Node : ny[n] = IF n = t THEN NULL ELSE IF n = e THEN t ELSE nx[n]
  BY <1>1, <1>2 DEF Link, Links
<1>4. Acyclic(ny) /\ Unshared(ny)
  BY <1>1, LinkAcyclic, LinkUnshared DEF Loose
<1>5. After(ny, q) = After(nx, q) \cup {t}
  BY <1>1, LooseIsUnreached, LinkAfter
<1> HIDE DEF ny, e
<1>6. \A n \in Node, p \in Queue : ny[n] # p
  BY <1>3, Cells DEF WellLinked
<1>7. ASSUME NEW p \in Queue, p # q
      PROVE  After(ny, p) = After(nx, p)
  <2>1. p \in Node /\ Chain(nx, p) \subseteq Node
    BY <1>1, Cells, ChainBasics
  <2>2. t \notin Chain(nx, p) /\ e \notin Chain(nx, p)
    BY <1>2, <1>7, LooseIsUnreached, QueuesApart
  <2>3. \A k \in Chain(nx, p) : ny[k] = nx[k]
    BY <1>3, <2>1, <2>2
  <2>4. Chain(ny, p) = Chain(nx, p)
    BY <1>1, <1>3, <2>1, <2>3, ChainAgree
  <2>5. QED
    BY <1>1, <1>3, <1>4, <2>1, <2>4, AfterIsRest
<1>8. ASSUME NEW s \in Thread, s # t, Loose(nx, s)
      PROVE  Loose(ny, s)
  <2>1. s \in Node /\ s # e /\ s # NULL
    BY <1>2, <1>8, LooseIsUnreached, Cells
  <2>2. QED
    BY <1>3, <1>8, <2>1 DEF Loose
<1>9. QED
  BY <1>3, <1>4, <1>5, <1>6, <1>7, <1>8 DEF WellLinked, ny

(* dequeueSpecific takes blocks out of one queue and leaves them in none. *)
LEMMA UnlinkSome ==
    ASSUME NEW nx, WellLinked(nx), NEW q \in Queue, NEW hits \in SUBSET Thread
    PROVE  /\ WellLinked(Unlink(nx, q, hits))
           /\ \A p \in Queue : After(Unlink(nx, q, hits), p) =
                               After(nx, p) \ (IF p = q THEN hits ELSE {})
           /\ \A s \in Thread : Loose(nx, s) => Loose(Unlink(nx, q, hits), s)
           /\ \A s \in hits \cap After(nx, q) : Loose(Unlink(nx, q, hits), s)
<1> DEFINE ny == Unlink(nx, q, hits)
<1>1. nx \in Links /\ Acyclic(nx) /\ Unshared(nx) /\ q \in Node
  BY Cells DEF WellLinked
<1>2. /\ ny \in Links
      /\ \A n \in Node \ Chain(nx, q) : ny[n] = nx[n]
      /\ \A n \in Chain(nx, q) \cap hits : ny[n] = NULL
  BY <1>1, UnlinkLinks
<1>3. Acyclic(ny) /\ Unshared(ny)
  BY <1>1, UnlinkAcyclic, UnlinkUnshared
<1>4. After(ny, q) = After(nx, q) \ hits
  BY <1>1, Cells, UnlinkAfter
<1>5. \A k \in Node : (\A m \in Node : nx[m] # k) => \A m \in Node : ny[m] # k
  BY <1>1, UnlinkPointers
<1>6. \A s \in Chain(nx, q) \cap hits : s # q => \A n \in Node : ny[n] # s
  BY <1>1, UnlinkRemoves
<1> HIDE DEF ny
<1>7. \A n \in Node, p \in Queue : ny[n] # p
  BY <1>5, Cells DEF WellLinked
<1>8. ASSUME NEW p \in Queue, p # q
      PROVE  After(ny, p) = After(nx, p)
  <2>1. p \in Node /\ Chain(nx, p) \subseteq Node
    BY <1>1, Cells, ChainBasics
  <2>2. \A k \in Chain(nx, p) : ny[k] = nx[k]
    BY <1>2, <1>8, <2>1, QueuesApart
  <2>3. Chain(ny, p) = Chain(nx, p)
    BY <1>1, <1>2, <2>1, <2>2, ChainAgree
  <2>4. QED
    BY <1>1, <1>2, <1>3, <2>1, <2>3, AfterIsRest
<1>9. ASSUME NEW s \in Thread, Loose(nx, s)
      PROVE  Loose(ny, s)
  <2>1. s \in Node \ Chain(nx, q)
    BY <1>9, LooseIsUnreached, Cells
  <2>2. QED
    BY <1>2, <1>5, <1>9, <2>1 DEF Loose
<1>10. ASSUME NEW s \in hits \cap After(nx, q)
       PROVE  Loose(ny, s)
  <2>1. s \in Chain(nx, q) \cap hits /\ s # q
    BY <1>1, AfterIsRest
  <2>2. QED
    BY <1>2, <1>6, <2>1 DEF Loose
<1>11. QED
  BY <1>2, <1>3, <1>4, <1>7, <1>8, <1>9, <1>10 DEF WellLinked, ny

-----------------------------------------------------------------------------
LEMMA InitInv == Init => IInv
<1> SUFFICES ASSUME Init PROVE IInv
  OBVIOUS
<1> USE DEF Init
<1>1. TypeOK
  BY Cells DEF TypeOK, Links
<1>2. Acyclic(next) /\ Unshared(next)
  BY NullAssumption DEF Acyclic, Unshared
<1>3. WellLinked(next) /\ \A t \in Thread : Loose(next, t)
  BY <1>1, <1>2, Cells DEF WellLinked, Loose, TypeOK
<1>4. ParentHoldsThread
  BY Cells DEF ParentHoldsThread, After
<1>5. QED
  BY <1>1, <1>3, <1>4, Cells DEF IInv

LEMMA EnqueueInv ==
    ASSUME IInv, NEW t \in Thread, NEW q \in Queue, enqueueNew(t, q)
    PROVE  IInv'
<1>1. /\ TypeOK /\ WellLinked(next) /\ ParentHoldsThread
      /\ Loose(next, t) /\ t \notin freed /\ parent[t] = NULL
  BY DEF IInv, enqueueNew
<1>2. [next EXCEPT ![t] = NULL] = next
  BY <1>1 DEF Loose, WellLinked, Links
<1>3. next' = Link(next, q, t)
  BY <1>2 DEF enqueueNew, move2Q
<1>4. /\ parent' = [parent EXCEPT ![t] = q]
      /\ t_priority' = [t_priority EXCEPT ![t] = INT_MAX]
      /\ freed' = freed
  BY DEF enqueueNew, createThread
<1>5. /\ WellLinked(next')
      /\ \A p \in Queue : After(next', p) =
                          After(next, p) \cup (IF p = q THEN {t} ELSE {})
      /\ \A s \in Thread \ {t} : Loose(next, s) => Loose(next', s)
  BY <1>1, <1>3, LinkOne
<1>6. TypeOK'
  <2>1. freed' \subseteq {s \in Thread : t_priority'[s] = removal}
    BY <1>1, <1>4, Cells DEF TypeOK
  <2>2. parent' \in [Node -> Queue \cup {NULL}]
    BY <1>1, <1>4, Cells DEF TypeOK
  <2>3. t_priority' \in [Node -> {0, removal, INT_MAX}]
    BY <1>1, <1>4, Cells DEF TypeOK
  <2>4. QED
    BY <1>5, <2>1, <2>2, <2>3 DEF TypeOK, WellLinked
<1>7. ParentHoldsThread'
  <2> SUFFICES ASSUME NEW s \in Thread, NEW p \in Queue
               PROVE  s \in After(next', p) <=> s \notin freed' /\ parent'[s] = p
    BY DEF ParentHoldsThread
  <2>1. s \in After(next, p) <=> s \notin freed /\ parent[s] = p
    BY <1>1 DEF ParentHoldsThread
  <2>2. parent'[s] = IF s = t THEN q ELSE parent[s]
    BY <1>1, <1>4, Cells DEF TypeOK
  <2>3. s \in After(next', p) <=> s \in After(next, p) \/ (s = t /\ p = q)
    BY <1>5
  <2>4. QED
    BY <2>1, <2>2, <2>3, <1>1, <1>4, Cells
<1>8. \A p \in Queue : t_priority'[p] = 0
  BY <1>1, <1>4, Cells DEF IInv, TypeOK
<1>9. \A s \in Thread : parent'[s] = NULL => Loose(next', s) /\ s \notin freed'
  <2> SUFFICES ASSUME NEW s \in Thread, parent'[s] = NULL
               PROVE  Loose(next', s) /\ s \notin freed'
    OBVIOUS
  <2>1. s # t /\ parent[s] = NULL
    BY <1>1, <1>4, Cells DEF TypeOK
  <2>2. QED
    BY <2>1, <1>4, <1>5 DEF IInv
<1>10. \A s \in freed' : Loose(next', s)
  BY <1>1, <1>4, <1>5 DEF IInv, TypeOK
<1>11. QED
  BY <1>5, <1>6, <1>7, <1>8, <1>9, <1>10 DEF IInv

(* seek finds the thread it is given, because the ids are different. *)
LEMMA SeekFinds ==
    ASSUME NEW nx, WellLinked(nx), NEW q \in Queue, NEW t \in Thread,
           t \in After(nx, q)
    PROVE  SameTid(t) = {t} /\ seek(nx, q, SameTid(t)) = t
<1>1. SameTid(t) = {t}
  BY DistinctTids, Cells DEF SameTid
<1>2. nx \in Links /\ Acyclic(nx) /\ q \in Node /\ t \in Node /\ q # t
  BY Cells DEF WellLinked
<1> DEFINE k == FirstKept(nx, Node \ {t}, q)
<1>3. /\ k = NULL <=> After(nx, q) \subseteq Node \ {t}
      /\ k # NULL => k \in After(nx, q) \ (Node \ {t})
  BY <1>2, FirstKeptBasics
<1>4. After(nx, q) \subseteq Node
  BY <1>2, ChainStep, ChainBasics
<1>5. k = t
  BY <1>3, <1>4
<1>6. QED
  BY <1>1, <1>2, <1>5 DEF seek

LEMMA MoveInv ==
    ASSUME IInv, NEW t \in Thread, NEW to \in Queue, moveThread(t, to)
    PROVE  IInv'
<1> DEFINE from == parent[t]
<1> DEFINE nx == Unlink(next, from, {t})
<1>1. TypeOK /\ WellLinked(next) /\ ParentHoldsThread /\ t \notin freed
  BY DEF IInv, moveThread
<1>2. from \in Queue /\ t \in After(next, from)
  BY <1>1, Cells DEF moveThread, TypeOK, ParentHoldsThread
<1>3. SameTid(t) = {t} /\ seek(next, from, SameTid(t)) = t
  BY <1>1, <1>2, SeekFinds
<1>4. /\ next' = Link(nx, to, t)
      /\ parent' = [parent EXCEPT ![t] = to]
      /\ t_priority' = t_priority /\ freed' = freed
  BY <1>2, <1>3, Cells DEF moveThread, move2Q
<1>5. /\ WellLinked(nx)
      /\ \A p \in Queue : After(nx, p) =
                          After(next, p) \ (IF p = from THEN {t} ELSE {})
      /\ \A s \in Thread : Loose(next, s) => Loose(nx, s)
      /\ Loose(nx, t)
  BY <1>1, <1>2, UnlinkSome
<1> HIDE DEF nx
<1>6. /\ WellLinked(next')
      /\ \A p \in Queue : After(next', p) =
                          After(nx, p) \cup (IF p = to THEN {t} ELSE {})
      /\ \A s \in Thread \ {t} : Loose(nx, s) => Loose(next', s)
  BY <1>4, <1>5, LinkOne
<1>7. TypeOK'
  <2>1. parent' \in [Node -> Queue \cup {NULL}]
    BY <1>1, <1>4, Cells DEF TypeOK
  <2>2. QED
    BY <1>1, <1>4, <1>6, <2>1 DEF TypeOK, WellLinked
<1>8. ParentHoldsThread'
  <2> SUFFICES ASSUME NEW s \in Thread, NEW p \in Queue
               PROVE  s \in After(next', p) <=> s \notin freed' /\ parent'[s] = p
    BY DEF ParentHoldsThread
  <2>1. s \in After(next, p) <=> s \notin freed /\ parent[s] = p
    BY <1>1 DEF ParentHoldsThread
  <2>2. parent'[s] = IF s = t THEN to ELSE parent[s]
    BY <1>1, <1>4, Cells DEF TypeOK
  <2>3. CASE s = t
    <3>1. s \notin After(nx, p)
      BY <2>1, <2>3, <1>5
    <3>2. s \in After(next', p) <=> p = to
      BY <1>6, <2>3, <3>1
    <3>3. QED
      BY <3>2, <2>2, <2>3, <1>1, <1>4
  <2>4. CASE s # t
    <3>1. s \in After(next', p) <=> s \in After(next, p)
      BY <1>5, <1>6, <2>4
    <3>2. QED
      BY <3>1, <2>1, <2>2, <2>4, <1>4
  <2>5. QED
    BY <2>3, <2>4
<1>9. \A s \in Thread : parent'[s] = NULL => Loose(next', s) /\ s \notin freed'
  <2> SUFFICES ASSUME NEW s \in Thread, parent'[s] = NULL
               PROVE  Loose(next', s) /\ s \notin freed'
    OBVIOUS
  <2>1. s # t /\ parent[s] = NULL
    BY <1>1, <1>4, Cells DEF TypeOK
  <2>2. QED
    BY <2>1, <1>4, <1>5, <1>6 DEF IInv
<1>10. \A s \in freed' : Loose(next', s)
  BY <1>1, <1>4, <1>5, <1>6 DEF IInv, TypeOK
<1>11. QED
  BY <1>4, <1>6, <1>7, <1>8, <1>9, <1>10 DEF IInv

LEMMA RemovalInv ==
    ASSUME IInv, NEW t \in Thread, setRemoval(t)
    PROVE  IInv'
<1>1. /\ t_priority' = [t_priority EXCEPT ![t] = removal]
      /\ next' = next /\ parent' = parent /\ freed' = freed
      /\ TypeOK /\ t \notin freed
  BY DEF setRemoval, IInv
<1>2. TypeOK'
  BY <1>1, Cells DEF TypeOK
<1>3. \A q \in Queue : t_priority'[q] = 0
  BY <1>1, Cells DEF IInv, TypeOK
<1>4. ParentHoldsThread'
  BY <1>1 DEF IInv, ParentHoldsThread
<1>5. QED
  BY <1>1, <1>2, <1>3, <1>4 DEF IInv

LEMMA DequeueInv ==
    ASSUME IInv, NEW q \in Queue, dequeue(q)
    PROVE  IInv'
<1> DEFINE H == Swept(q)
<1>1. /\ next' = Unlink(next, q, H) /\ freed' = freed \cup H
      /\ parent' = parent /\ t_priority' = t_priority
      /\ TypeOK /\ WellLinked(next) /\ ParentHoldsThread
  BY DEF dequeue, IInv
<1>2. q \in Node /\ next \in Links /\ Acyclic(next) /\ Chain(next, q) \subseteq Node
  BY <1>1, Cells, ChainBasics DEF WellLinked
<1>3. H \subseteq Thread /\ q \notin H
  BY <1>2, Cells, LibraryAssumption DEF IInv, Swept
<1>4. H \subseteq After(next, q)
  BY <1>2, <1>3, AfterIsRest DEF Swept
<1>5. /\ WellLinked(next')
      /\ \A p \in Queue : After(next', p) =
                          After(next, p) \ (IF p = q THEN H ELSE {})
      /\ \A s \in Thread : Loose(next, s) => Loose(next', s)
      /\ \A s \in H : Loose(next', s)
  BY <1>1, <1>3, <1>4, UnlinkSome
<1>6. TypeOK'
  BY <1>1, <1>3, <1>5 DEF TypeOK, WellLinked, Swept
<1> HIDE DEF H
<1>7. \A s \in H : parent[s] = q /\ parent[s] # NULL
  BY <1>1, <1>3, <1>4, Cells DEF ParentHoldsThread
<1>8. ParentHoldsThread'
  <2> SUFFICES ASSUME NEW s \in Thread, NEW p \in Queue
               PROVE  s \in After(next', p) <=> s \notin freed' /\ parent'[s] = p
    BY DEF ParentHoldsThread
  <2>1. s \in After(next, p) <=> s \notin freed /\ parent[s] = p
    BY <1>1 DEF ParentHoldsThread
  <2>2. s \in After(next', p) <=> s \in After(next, p) /\ ~(p = q /\ s \in H)
    BY <1>5
  <2>3. QED
    BY <2>1, <2>2, <1>1, <1>7
<1>9. \A s \in Thread : parent'[s] = NULL => Loose(next', s) /\ s \notin freed'
  BY <1>1, <1>5, <1>7 DEF IInv
<1>10. \A s \in freed' : Loose(next', s)
  BY <1>1, <1>5 DEF IInv, TypeOK
<1>11. QED
  BY <1>1, <1>5, <1>6, <1>8, <1>9, <1>10 DEF IInv

(* Every step of the program keeps the inductive invariant. *)
LEMMA StepInv == IInv /\ [Next]_vars => IInv'
<1> SUFFICES ASSUME IInv, [Next]_vars PROVE IInv'
  OBVIOUS
<1>1. CASE \E t \in Thread, q \in Queue : enqueueNew(t, q)
  BY <1>1, EnqueueInv
<1>2. CASE \E t \in Thread, q \in Queue : moveThread(t, q)
  BY <1>2, MoveInv
<1>3. CASE \E t \in Thread : setRemoval(t)
  BY <1>3, RemovalInv
<1>4. CASE \E q \in Queue : dequeue(q)
  BY <1>4, DequeueInv
<1>5. CASE UNCHANGED vars
  BY <1>5 DEF vars, IInv, TypeOK, ParentHoldsThread
<1>6. QED
  BY <1>1, <1>2, <1>3, <1>4, <1>5 DEF Next

-----------------------------------------------------------------------------
(* The inductive invariant holds in every reachable state of the test      *)
(* program my_pthread_2.c.                                                 *)
THEOREM Invariance == Spec => []IInv
<1>1. Init => IInv
  BY InitInv
<1>2. IInv /\ [Next]_vars => IInv'
  BY StepInv
<1>3. QED
  BY <1>1, <1>2, PTL DEF Spec

(* The variables have their types, and only marked blocks are freed        *)
(* (my_pthread_t_2.h:82-103).                                              *)
THEOREM TypeCorrect == Spec => []TypeOK
<1>1. IInv => TypeOK
  BY DEF IInv
<1>2. QED
  BY <1>1, Invariance, PTL

(* No sequence of create, move, mark and sweep makes a cycle or joins two  *)
(* queues, so every loop over a queue ends (my_pthread_t_2.h:34-125).      *)
THEOREM QueuesStayWellFormed == Spec => []QueuesWellFormed
<1>1. IInv => QueuesWellFormed
  BY DEF IInv, QueuesWellFormed, WellLinked
<1>2. QED
  BY <1>1, Invariance, PTL

(* The parent field names the queue that holds the block: the queue        *)
(* move2Q is told to take it from (my_pthread_t_2.h:52-62), and no queue   *)
(* holds a block that was freed.                                           *)
THEOREM ParentIsRight == Spec => []ParentHoldsThread
<1>1. IInv => ParentHoldsThread
  BY DEF IInv
<1>2. QED
  BY <1>1, Invariance, PTL

-----------------------------------------------------------------------------
(* The block rePrioritize puts in front is one of the queue. *)
LEMMA HighestIsThere ==
    ASSUME IInv, NEW q \in Queue, next[q] # NULL
    PROVE  Highest(next, q) \in After(next, q)
<1> DEFINE A == After(next, q)
<1>1. /\ next \in Links /\ Acyclic(next) /\ q \in Node
      /\ t_priority \in [Node -> {0, removal, INT_MAX}]
      /\ INT_MAX \in Nat /\ INT_MAX > removal /\ removal = 26
  BY Cells, LibraryAssumption DEF IInv, WellLinked, TypeOK, removal
<1>2. next[q] \in A /\ A \subseteq Node
  BY <1>1, ChainStep, ChainBasics DEF After, Links
<1>3. PICK p \in {0, 26, INT_MAX} :
         /\ \E k \in A : t_priority[k] = p
         /\ \A k \in A : t_priority[k] <= p
  <2>1. \A k \in A : t_priority[k] \in {0, 26, INT_MAX}
    BY <1>1, <1>2
  <2>2. CASE \E k \in A : t_priority[k] = INT_MAX
    BY <2>1, <2>2, <1>1
  <2>3. CASE ~(\E k \in A : t_priority[k] = INT_MAX) /\ \E k \in A : t_priority[k] = 26
    BY <2>1, <2>3, <1>1
  <2>4. CASE \A k \in A : t_priority[k] = 0
    BY <2>4, <1>1, <1>2
  <2>5. QED
    BY <2>1, <2>2, <2>3, <2>4
<1> DEFINE M == {k \in A : t_priority[k] = p}
<1> DEFINE H == Node \ M
<1> DEFINE f == FirstKept(next, H, q)
<1>4. /\ f = NULL <=> A \subseteq H
      /\ f # NULL => f \in A \ H /\ A \ H \subseteq Chain(next, f)
  <2> HIDE DEF H
  <2>1. QED
    BY <1>1, FirstKeptBasics
<1>5. f \in M /\ M \subseteq Chain(next, f)
  BY <1>2, <1>3, <1>4
<1> HIDE DEF f
<1>6. /\ f \in A
      /\ \A k \in A : /\ t_priority[k] <= t_priority[f]
                      /\ t_priority[k] = t_priority[f] => k \in Chain(next, f)
  BY <1>3, <1>5
<1>7. QED
  BY <1>6 DEF Highest

(* rePrioritize exchanges two blocks that are not neighbours as cells that *)
(* change places, and changes nothing when they are one                    *)
(* (my_pthread_t_2.h:150-158).                                             *)
LEMMA AgedLinks ==
    ASSUME IInv, NEW q \in Queue, next[q] # NULL,
           NEW m, m = Highest(next, q), NEW aged, aged = rePrioritize(next, q)
    PROVE  /\ aged \in Links /\ aged[q] = m
           /\ m = next[next[q]] => aged[m] = m /\ aged[next[q]] = next[q]
           /\ m # next[next[q]] =>
                 \A n \in Node :
                    aged[n] = Mirror(next[q], m, next[Mirror(next[q], m, n)])
<1> DEFINE start == next[q]
<1> DEFINE prev == CHOOSE p \in Chain(next, q) : next[p] = m
<1>1. next \in Links /\ Acyclic(next) /\ Unshared(next) /\ q \in Node
  BY Cells DEF IInv, WellLinked
<1>2. m \in After(next, q) /\ start \in Node
  BY <1>1, HighestIsThere DEF Links
<1>3. m \in Chain(next, q) /\ m # q /\ m \in Node /\ m # NULL
  BY <1>1, <1>2, AfterIsRest, ChainBasics, NullAssumption
<1>4. prev \in Node /\ next[prev] = m
  <2>1. \E p \in Chain(next, q) : next[p] = m
    BY <1>1, <1>3, Predecessor
  <2>2. prev \in Chain(next, q) /\ next[prev] = m
    BY <2>1
  <2>3. QED
    BY <2>2, <1>1, ChainBasics
<1>5. /\ start # q /\ start # NULL
      /\ \A n \in Node : (next[n] = start <=> n = q) /\ (next[n] = m <=> n = prev)
      /\ \A n \in Node : next[n] # n
  <2>1. ASSUME NEW n \in Node, next[n] = n PROVE FALSE
    <3>1. {n} \in SUBSET Node /\ {n} # {} /\ \A k \in {n} : next[k] \in {n}
      BY <2>1
    <3>2. QED
      BY <1>1, <3>1 DEF Acyclic
  <2>2. QED
    BY <2>1, <1>1, <1>2, <1>3, <1>4, NullAssumption DEF Unshared
<1>6. aged = [[[next EXCEPT ![m] = next[start]] EXCEPT ![start] = next[m]]
                 EXCEPT ![q] = m, ![prev] = start]
  BY <1>2, NullAssumption DEF rePrioritize
<1> HIDE DEF prev
<1>7. /\ aged \in Links
      /\ \A n \in Node : aged[n] = IF n = prev THEN start
                                  ELSE IF n = q THEN m
                                  ELSE IF n = start THEN next[m]
                                  ELSE IF n = m THEN next[start]
                                  ELSE next[n]
  <2> DEFINE new(n) == IF n = prev THEN start
                       ELSE IF n = q THEN m
                       ELSE IF n = start THEN next[m]
                       ELSE IF n = m THEN next[start]
                       ELSE next[n]
  <2>1. aged = [n \in Node |-> new(n)]
    BY <1>1, <1>2, <1>3, <1>4, <1>6, <1>5 DEF Links
  <2>2. \A n \in Node : new(n) \in Node \cup {NULL}
    BY <1>1, <1>2, <1>3 DEF Links
  <2>3. QED
    BY <2>1, <2>2 DEF Links
<1> HIDE DEF start
<1>8. aged[q] = m
  BY <1>1, <1>4, <1>5, <1>7
<1>9. m = next[start] => aged[m] = m /\ aged[start] = start
  BY <1>1, <1>2, <1>3, <1>4, <1>5, <1>7
<1>10. ASSUME m # next[start], NEW n \in Node
       PROVE  aged[n] = Mirror(start, m, next[Mirror(start, m, n)])
  <2>1. prev # start
    BY <1>4, <1>10
  <2>2. CASE m = start
    BY <2>2, <1>4, <1>5, <1>7 DEF Mirror
  <2>3. CASE m # start
    <3>1. prev # m /\ prev # q
      BY <2>3, <1>3, <1>4, <1>5
    <3>2. QED
      BY <2>1, <2>3, <3>1, <1>1, <1>2, <1>3, <1>4, <1>5, <1>7, <1>10, NullAssumption
      DEF Mirror
  <2>4. QED
    BY <2>2, <2>3
<1>11. QED
  BY <1>7, <1>8, <1>9, <1>10 DEF start

(* Aging keeps the queues well-formed and the blocks of the queue, except  *)
(* when the block to be put in front is the second                         *)
(* (my_pthread_t_2.h:128-161).                                             *)
THEOREM AgingIsExchange == Spec => []AgingSparesSecond
<1>1. IInv => AgingSparesSecond
  <2> SUFFICES ASSUME IInv, NEW q \in Queue, next[q] # NULL,
                      NEW m, m = Highest(next, q),
                      NEW aged, aged = rePrioritize(next, q)
               PROVE  IF m = next[next[q]] THEN aged[m] = m /\ aged[next[q]] = next[q]
                      ELSE /\ Acyclic(aged) /\ Unshared(aged)
                           /\ After(aged, q) = After(next, q) /\ aged[q] = m
    BY DEF AgingSparesSecond
  <2>1. next \in Links /\ Acyclic(next) /\ Unshared(next) /\ q \in Node
    BY Cells DEF IInv, WellLinked
  <2>2. m \in After(next, q) /\ next[q] \in After(next, q)
    BY <2>1, HighestIsThere, ChainBasics DEF After, Links
  <2>3. CASE m = next[next[q]]
    <3>1. /\ aged \in Links /\ aged[q] = m
          /\ m = next[next[q]] => aged[m] = m /\ aged[next[q]] = next[q]
      BY AgedLinks
    <3>2. QED
      BY <2>3, <3>1
  <2>4. CASE m # next[next[q]]
    <3>1. /\ aged \in Links /\ aged[q] = m
          /\ \A n \in Node :
                aged[n] = Mirror(next[q], m, next[Mirror(next[q], m, n)])
      BY <2>4, AgedLinks
    <3>2. Acyclic(aged) /\ Unshared(aged) /\ After(aged, q) = After(next, q)
      BY <2>1, <2>2, <3>1, ExchangeCells
    <3>3. QED
      BY <2>4, <3>1, <3>2
  <2>5. QED
    BY <2>3, <2>4
<1>2. QED
  BY <1>1, Invariance, PTL

=============================================================================
