--------------------------- MODULE MyPthreadProofs ---------------------------
(***************************************************************************)
(* What holds of the thread library for every set of threads and mutexes   *)
(* and for every content of uninitialised memory in which Master->current  *)
(* and MutexT->next are NULL or cannot be followed (ValueAssumption).      *)
(***************************************************************************)
EXTENDS MyPthread, LinkedQueuesProofs, FiniteSetTheorems

(* The heads, the Master block and the threads are different cells. *)
LEMMA Cells ==
    /\ Head \subseteq Node /\ "Master" \in Node /\ Thread \subseteq Node
    /\ \A t \in Thread : t \notin Head /\ t # "Master"
    /\ NULL \notin Head /\ NULL # "Master" /\ NULL \notin Thread
    /\ WILD \notin Node /\ WILD # NULL
BY NodeAssumption, PointerAssumption, NullAssumption DEF Head

(* Queues with at most one cell after the head. *)
Only(a, x) == [n \in Node |-> IF n = a THEN x ELSE NULL]

(* The High queue of the one state in which a thread has been created. *)
Line(t) == [n \in Node |-> IF n = "High" THEN "Master"
                           ELSE IF n = "Master" THEN t ELSE NULL]

LEMMA OnlyFacts ==
    ASSUME NEW a \in Head, NEW x \in {NULL, "Master"} \cup Thread
    PROVE  /\ Only(a, x) \in Links
           /\ Acyclic(Only(a, x))
           /\ Unshared(Only(a, x))
           /\ \A n \in Node : Only(a, x)[n] \notin Head
           /\ After(Only(a, x), a) = IF x = NULL THEN {} ELSE {x}
<1> DEFINE nx == Only(a, x)
<1>1. a \in Node /\ a # x /\ x \in Node \cup {NULL} /\ x \notin Head
  BY Cells DEF Head
<1>2. nx \in Links /\ Unshared(nx) /\ (\A n \in Node : nx[n] \notin Head)
  BY <1>1, Cells DEF Only, Links, Unshared
<1>3. ASSUME NEW S \in SUBSET Node, S # {}
      PROVE  \E n \in S : nx[n] \notin S
  <2>1. CASE x \in S
    BY <1>1, <2>1, NullAssumption DEF Only
  <2>2. CASE x \notin S
    BY <2>2, <1>3, NullAssumption DEF Only
  <2>3. QED
    BY <2>1, <2>2
<1>4. After(nx, a) = IF x = NULL THEN {} ELSE {x}
  <2>1. nx[a] = x
    BY <1>1 DEF Only
  <2>2. CASE x = NULL
    BY <2>1, <2>2 DEF After
  <2>3. CASE x # NULL
    <3>1. x \in Node /\ nx[x] = NULL
      BY <1>1, <2>3 DEF Only
    <3>2. After(nx, x) = {}
      BY <3>1 DEF After
    <3>3. Chain(nx, x) = {x}
      BY <3>1, <3>2, <1>2, ChainStep
    <3>4. QED
      BY <2>1, <2>3, <3>3 DEF After
  <2>4. QED
    BY <2>2, <2>3
<1>5. QED
  BY <1>2, <1>3, <1>4 DEF Acyclic

LEMMA LineFacts ==
    ASSUME NEW t \in Thread
    PROVE  /\ Line(t) \in Links
           /\ Acyclic(Line(t))
           /\ Unshared(Line(t))
           /\ \A n \in Node : Line(t)[n] \notin Head
           /\ After(Line(t), "High") = {"Master", t}
           /\ After(Line(t), "Master") = {t}
           /\ After(Line(t), t) = {}
<1> DEFINE nx == Line(t)
<1>1. nx["High"] = "Master" /\ nx["Master"] = t /\ nx[t] = NULL
  BY Cells DEF Line, Head
<1>2. nx \in Links /\ Unshared(nx) /\ (\A n \in Node : nx[n] \notin Head)
  BY Cells DEF Line, Links, Unshared, Head
<1>3. ASSUME NEW S \in SUBSET Node, S # {}
      PROVE  \E n \in S : nx[n] \notin S
  <2>1. CASE t \in S
    BY <2>1, <1>1, NullAssumption
  <2>2. CASE t \notin S /\ "Master" \in S
    BY <2>2, <1>1
  <2>3. CASE t \notin S /\ "Master" \notin S
    BY <2>3, <1>3, NullAssumption DEF Line
  <2>4. QED
    BY <2>1, <2>2, <2>3
<1>4. After(nx, t) = {} /\ Chain(nx, t) = {t}
  BY <1>1, <1>2, Cells, ChainStep DEF After
<1>5. After(nx, "Master") = {t} /\ Chain(nx, "Master") = {"Master", t}
  BY <1>1, <1>2, <1>4, Cells, ChainStep DEF After
<1>6. After(nx, "High") = {"Master", t}
  BY <1>1, <1>5, Cells DEF After, Head
<1>7. QED
  BY <1>2, <1>3, <1>4, <1>5, <1>6 DEF Acyclic

(* What the queue operations make of these. *)
LEMMA OnlyUnlink ==
    ASSUME NEW a \in Head, NEW x \in {"Master"} \cup Thread, NEW hits,
           a \notin hits, x \in hits
    PROVE  Unlink(Only(a, x), a, hits) = Only("High", NULL)
<1>1. Only(a, x) \in Links /\ Acyclic(Only(a, x)) /\ After(Only(a, x), a) = {x}
  BY OnlyFacts, Cells
<1>2. a \in Node /\ Chain(Only(a, x), a) = {a, x}
  BY <1>1, Cells, ChainStep
<1>3. Unlink(Only(a, x), a, hits) =
        [n \in Node |-> IF n \in {a, x} THEN NULL ELSE Only(a, x)[n]]
  BY <1>1, <1>2, UnlinkAll
<1>4. QED
  BY <1>3 DEF Only

LEMMA OnlyLink ==
    ASSUME NEW a \in Head, NEW x \in {"Master"} \cup Thread
    PROVE  Link(Only("High", NULL), a, x) = Only(a, x)
<1>1. Only("High", NULL) \in Links /\ Only("High", NULL)[a] = NULL
  BY OnlyFacts, Cells DEF Only, Head
<1>2. a \in Node /\ x \in Node /\ a # x
  BY Cells DEF Head
<1>3. QED
  BY <1>1, <1>2, LinkToEmpty DEF Only

LEMMA LineUnlink ==
    ASSUME NEW t \in Thread, NEW hits, "High" \notin hits, "Master" \in hits
    PROVE  Unlink(Line(t), "High", hits) =
             IF t \in hits THEN Only("High", NULL) ELSE Only("High", t)
<1> DEFINE nx == Line(t)
<1>1. /\ nx \in Links /\ Acyclic(nx) /\ "High" \in Node
      /\ After(nx, "High") = {"Master", t}
      /\ Chain(nx, "High") = {"High", "Master", t}
      /\ Chain(nx, t) = {t} /\ After(nx, t) = {}
  BY LineFacts, Cells, ChainStep DEF Head
<1>2. CASE t \in hits
  <2>1. Unlink(nx, "High", hits) =
          [n \in Node |-> IF n \in {"High", "Master", t} THEN NULL ELSE nx[n]]
    BY <1>1, <1>2, UnlinkAll
  <2>2. QED
    BY <1>2, <2>1 DEF Line, Only
<1>3. CASE t \notin hits
  <2>1. FirstKept(nx, hits, "High") = t
    <3>1. After(nx, "High") \ hits = {t}
      BY <1>1, <1>3
    <3>2. QED
      BY <3>1, <1>1 DEF FirstKept
  <2>2. FirstKept(nx, hits, t) = NULL
    BY <1>1 DEF FirstKept
  <2>3. QED
    BY <2>1, <2>2, <1>1, <1>3, Cells DEF Unlink, Only, Line, Head
<1>4. QED
  BY <1>2, <1>3

LEMMA LineLink ==
    ASSUME NEW t \in Thread
    PROVE  Link(Only("High", "Master"), "High", t) = Line(t)
<1> DEFINE nx == Only("High", "Master")
<1>1. /\ nx \in Links /\ "High" \in Node /\ "Master" \in Node /\ t \in Node
      /\ "High" # "Master" /\ t # "High" /\ t # "Master"
      /\ Chain(nx, "High") = {"High", "Master"}
  BY OnlyFacts, Cells, ChainStep DEF Head
<1>2. nx["High"] = "Master" /\ nx["Master"] = NULL
  BY <1>1 DEF Only
<1>3. runT(nx, "High") = "Master"
  BY <1>1, <1>2, NullAssumption DEF runT
<1>4. QED
  BY <1>1, <1>3 DEF Link, Line, Only

(* Line(t) when the Wait queue takes Master too: the created thread is cut *)
(* off the High queue.                                                     *)
LEMMA LineToWait ==
    ASSUME NEW t \in Thread, NEW hits, "Wait" \notin hits, "Master" \in hits
    PROVE  Unlink(Link(Line(t), "Wait", "Master"), "Wait", hits) = Only("High", "Master")
<1> DEFINE nx == Link(Line(t), "Wait", "Master")
<1>1. /\ Line(t) \in Links /\ Line(t)["Wait"] = NULL /\ Acyclic(Line(t))
      /\ "Wait" \in Node /\ "High" \in Node /\ "Master" \in Node
      /\ "Wait" # "Master" /\ "Wait" # "High" /\ "High" # "Master"
  BY LineFacts, Cells DEF Line, Head
<1>2. nx = [[Line(t) EXCEPT !["Wait"] = "Master"] EXCEPT !["Master"] = NULL]
  BY <1>1, LinkToEmpty
<1>3. nx = [n \in Node |-> IF n \in {"Wait", "High"} THEN "Master" ELSE NULL]
  BY <1>1, <1>2, Cells DEF Line
<1>4. nx \in Links /\ Acyclic(nx)
  BY <1>1, LinkAcyclic
<1>5. Chain(nx, "Wait") = {"Wait", "Master"} /\ After(nx, "Wait") = {"Master"}
  BY <1>1, <1>3, <1>4, ChainStep, NullAssumption DEF After
<1>6. QED
  BY <1>1, <1>3, <1>4, <1>5, UnlinkAll DEF Only

-----------------------------------------------------------------------------
(* The operations on memory are typed. *)

LEMMA CountType ==
    ASSUME NEW size \in [3..5 -> 0..UIntMax], NEW q \in Int, NEW d \in {-1, 1}
    PROVE  Count(size, q, d) \in [3..5 -> 0..UIntMax]
BY ValueAssumption DEF Count

(* Counters of which high_size alone is not 0. *)
HighSize(k) == [l \in 3..5 |-> IF l = 3 THEN k ELSE 0]

LEMMA CountHigh ==
    ASSUME NEW k \in 0..UIntMax, NEW d \in {-1, 1}, k + d \in 0..UIntMax
    PROVE  Count(HighSize(k), 3, d) = HighSize(k + d)
<1>1. (k + d) % (UIntMax + 1) = k + d
  BY ValueAssumption
<1>2. QED
  BY <1>1 DEF Count, HighSize

LEMMA CountNone ==
    ASSUME NEW k \in 0..UIntMax, NEW d \in {-1, 1}
    PROVE  Count(HighSize(k), removal, d) = HighSize(k)
BY DEF Count, HighSize, removal

LEMMA EnqueueType ==
    ASSUME NEW m \in Memory, Acyclic(m.next), NEW head \in Head, NEW t \in Node
    PROVE  enqueue(m, head, t) \in Memory /\ Acyclic(enqueue(m, head, t).next)
<1>1. head \in Node
  BY Cells
<1>2. Link(m.next, head, t) \in Links /\ Acyclic(Link(m.next, head, t))
  BY <1>1, LinkAcyclic DEF Memory
<1>3. Count(m.size, m.queue[t], 1) \in [3..5 -> 0..UIntMax]
  <2>1. m.size \in [3..5 -> 0..UIntMax] /\ m.queue[t] \in Int /\ 1 \in {-1, 1}
    BY DEF Memory, removal
  <2>2. QED
    BY <2>1, CountType
<1>4. QED
  BY <1>2, <1>3 DEF enqueue, Memory

LEMMA DequeueType ==
    ASSUME NEW m \in Memory, Acyclic(m.next), NEW head \in Node, NEW t \in Node
    PROVE  /\ dequeueSpecific(m, head, t) \in Memory
           /\ Acyclic(dequeueSpecific(m, head, t).next)
<1>1. /\ Unlink(m.next, head, SameTid(m, t)) \in Links
      /\ Acyclic(Unlink(m.next, head, SameTid(m, t)))
  BY UnlinkLinks, UnlinkAcyclic DEF Memory
<1>2. m.name[t] \in DOMAIN CountedName =>
        Count(m.size, CountedName[m.name[t]], -1) \in [3..5 -> 0..UIntMax]
  <2>1. \A x \in DOMAIN CountedName : CountedName[x] \in Int
    BY DEF CountedName
  <2>2. QED
    BY <2>1, CountType DEF Memory
<1>3. QED
  BY <1>1, <1>2 DEF dequeueSpecific, End, Memory, Outcomes

LEMMA Move2QType ==
    ASSUME NEW m \in Memory, Acyclic(m.next), NEW to \in Head, NEW from \in Node,
           NEW t \in Node \cup {NULL}
    PROVE  move2Q(m, to, from, t) \in Memory /\ Acyclic(move2Q(m, to, from, t).next)
BY DequeueType, EnqueueType, NullAssumption DEF move2Q

(* move2Q returns, or strcmp or the unlinking crashes. *)
LEMMA Move2QProc ==
    ASSUME NEW m \in Memory, Acyclic(m.next), m.proc = "running",
           NEW to \in Head, NEW from \in Node, NEW t \in Node \cup {NULL}
    PROVE  move2Q(m, to, from, t).proc \in {"running", "crashed"}
<1> DEFINE q == dequeueSpecific(m, from, t)
<1>1. CASE t = NULL
  BY <1>1 DEF move2Q
<1>2. CASE t # NULL
  <2>1. q \in Memory
    BY <1>2, DequeueType
  <2>2. q.proc \in {"running", "crashed"}
    BY DEF dequeueSpecific, End, Memory
  <2> HIDE DEF q
  <2>3. enqueue(q, to, t).proc = q.proc
    BY <2>1 DEF enqueue, Memory
  <2>4. move2Q(m, to, from, t) = IF q.proc = "running" THEN enqueue(q, to, t) ELSE q
    BY <1>2, NullAssumption DEF move2Q, Running, q
  <2>5. QED
    BY <2>2, <2>3, <2>4
<1>3. QED
  BY <1>1, <1>2

-----------------------------------------------------------------------------
(* The states of a library that runs.  Its calls lead through four of them, *)
(* never back.                                                              *)

(* No context for the handler: before the first create, or after one in     *)
(* which getcontext failed.                                                 *)
Unset(m) ==
    /\ m.mctx = "unset" /\ m.next = Only("High", NULL)
    /\ m.counter = 0 /\ m.size = HighSize(0)
    /\ m.current \in Pointers /\ m.state["Master"] = "NEW"
    /\ \A t \in Thread : m.tid[t] = 0

(* Master is in its High queue, its context was never entered. *)
Entry(m) ==
    /\ m.mctx = "entry" /\ m.start = 1 /\ m.next = Only("High", "Master")
    /\ m.counter = 0 /\ m.size = HighSize(1)
    /\ m.current \in Pointers /\ m.state["Master"] = "READY"
    /\ m.queue["Master"] = 3 /\ m.parent["Master"] = "High"
    /\ \A t \in Thread : m.tid[t] = 0

(* One thread t was created and Master is current. *)
Up(m, t) ==
    /\ m.mctx = "stale" /\ m.start = 1 /\ m.next = Line(t)
    /\ m.counter = 1 /\ m.size = HighSize(2)
    /\ m.current = "Master" /\ m.state["Master"] = "READY"
    /\ m.queue["Master"] = 3 /\ m.parent["Master"] = "High"
    /\ m.queue[t] = 3 /\ m.name[t] = "mth_high"
    /\ \A u \in Thread : m.tid[u] = IF u = t THEN 1 ELSE 0

(* What exit leaves in high_size: Master and the thread are still counted, *)
(* Master twice if it was put in the Wait queue.                           *)
Left(m) == IF m.joinid["Master"] # -1 THEN 3 ELSE 2

(* my_pthread_exit returned. *)
Gone(m) ==
    /\ m.mctx = "stale" /\ m.start = 1 /\ m.current = NULL
    /\ m.state["Master"] = "TERMINATED" /\ m.size = HighSize(Left(m))
    /\ \E t \in Thread : \A u \in Thread : m.tid[u] = IF u = t THEN 1 ELSE 0
    /\ \E x \in {NULL, "Master"} \cup Thread : m.next = Only("Cleaner", x)

Stage(m) ==
    /\ \A h \in Head : m.tid[h] = HeadTid[h]
    /\ m.name["Master"] \in {NULL, "junk"}
    /\ Unset(m) \/ Entry(m) \/ (\E t \in Thread : Up(m, t)) \/ Gone(m)

(* What every call keeps, whether it returns or not. *)
Good(m) ==
    /\ m \in Memory
    /\ m.proc # "in thread" /\ m.current \notin Thread
    /\ Running(m) => Stage(m)

IInv == Good(mem) /\ lock \in Locks

LEMMA EndGood ==
    ASSUME NEW m \in Memory, m.current \notin Thread,
           NEW how \in Outcomes \ {"running", "in thread"}
    PROVE  Good(End(m, how))
BY DEF Good, End, Memory, Running

(* Master->current can be dereferenced in one stage only. *)
LEMMA CurrentIsMaster ==
    ASSUME NEW m, Good(m), Running(m), HasCurrent(m)
    PROVE  /\ m \in Memory /\ m.current = "Master"
           /\ \E t \in Thread : Up(m, t)
           /\ m.name["Master"] \in {NULL, "junk"}
<1>1. m.current \in Node
  BY DEF HasCurrent
<1>2. ~Unset(m) /\ ~Entry(m) /\ ~Gone(m)
  BY <1>1, Cells, NullAssumption DEF Unset, Entry, Gone, Pointers
<1>3. QED
  BY <1>2 DEF Good, Stage, Up

(* A yield never returns: dequeueSpecific starts its walk at the very cell *)
(* it looks for.                                                           *)
LEMMA YieldDies ==
    ASSUME NEW m, Good(m), Running(m)
    PROVE  Good(Yield(m)) /\ Yield(m).proc = "crashed"
<1>1. CASE ~HasCurrent(m)
  <2>1. Yield(m) = End(m, "crashed") /\ m \in Memory /\ m.current \notin Thread
    BY <1>1 DEF Yield, Good
  <2>2. End(m, "crashed").proc = "crashed"
    BY <2>1 DEF End, Memory
  <2>3. QED
    BY <2>1, <2>2, EndGood DEF Outcomes
<1>2. CASE HasCurrent(m)
  <2> DEFINE y == [m EXCEPT !.state["Master"] = "YIELDED"]
  <2>1. m \in Memory /\ m.current = "Master" /\ \E t \in Thread : Up(m, t)
    BY <1>2, CurrentIsMaster
  <2>2. /\ y \in Memory /\ y.current = "Master" /\ y.next = m.next
        /\ y.state["Master"] = "YIELDED" /\ y.proc = "running"
    BY <2>1, Cells DEF Memory, Running
  <2>3. peak(y.next, "High") = "Master" /\ "Master" # NULL /\ "Master" # WILD
    BY <2>1, <2>2, Cells DEF Up, Line, peak, Head
  <2>4. "Master" \in SameTid(y, "Master")
    BY Cells DEF SameTid
  <2>5. dequeueSpecific(y, "Master", "Master") = End(y, "crashed")
    BY <2>4 DEF dequeueSpecific
  <2>6. ~Running(End(y, "crashed"))
    BY <2>2 DEF End, Running, Memory
  <2>7. move2Q(y, "Master", "Master", "Master") = End(y, "crashed")
    BY <2>3, <2>5, <2>6 DEF move2Q
  <2>8. PutBack(y) = [End(y, "crashed") EXCEPT !.current = NULL]
    BY <2>2, <2>3, <2>7 DEF PutBack
  <2>9. Settle(y) = PutBack(y)
    BY <2>2, <2>3 DEF Settle
  <2>10. ~Running(PutBack(y)) /\ PutBack(y) \in Memory
         /\ PutBack(y).proc = "crashed" /\ PutBack(y).current = NULL
    BY <2>2, <2>8 DEF End, Running, Memory, Outcomes, Pointers
  <2>11. mt_handler(y) = PutBack(y)
    BY <2>9, <2>10 DEF mt_handler
  <2>12. Yield(m) = PutBack(y)
    BY <2>1, <2>11, <1>2 DEF Yield
  <2>13. QED
    BY <2>10, <2>12, Cells DEF Good
<1>3. QED
  BY <1>1, <1>2

(* So a lock of a mutex that is taken does not return either. *)
LEMMA YieldDDies ==
    ASSUME NEW m, Good(m), Running(m)
    PROVE  Good(yieldD(m)) /\ yieldD(m).proc = "crashed"
<1>1. CASE ~HasCurrent(m)
  <2>1. yieldD(m) = Yield(m)
    BY <1>1 DEF yieldD, Yield
  <2>2. QED
    BY <2>1, YieldDies
<1>2. CASE HasCurrent(m)
  <2>1. m.current = "Master" /\ m.queue["Master"] = 3
    BY <1>2, CurrentIsMaster DEF Up
  <2>2. yieldD(m) = Yield(m)
    BY <1>2, <2>1 DEF yieldD
  <2>3. QED
    BY <2>2, YieldDies
<1>3. QED
  BY <1>1, <1>2

(* The first my_pthread_create makes the Master block an element of its    *)
(* own High queue; later ones find it there.                               *)
LEMMA MasterReadyStage ==
    ASSUME NEW m, Good(m), Running(m)
    PROVE  /\ Good(MasterReady(m)) /\ Running(MasterReady(m))
           /\ MasterReady(m).start = 1
           /\ MasterReady(m).tid = m.tid
<1>1. m \in Memory /\ Stage(m)
  BY DEF Good
<1>2. CASE m.start = 1
  BY <1>1, <1>2 DEF MasterReady, Running
<1>3. CASE m.start # 1
  <2> DEFINE z == MasterBlock(m)
  <2> DEFINE b == [z EXCEPT !.mctx = "entry", !.state["Master"] = "READY",
                            !.queue["Master"] = 3]
  <2> DEFINE e == enqueue(b, "High", "Master")
  <2> HIDE DEF z
  <2>1. Unset(m)
    BY <1>1, <1>3 DEF Stage, Entry, Up, Gone
  <2>2. "High" \in Head /\ "High" \in Node /\ "Master" \in Node
    BY Cells DEF Head
  <2>z. /\ z \in Memory /\ z.next = Only("High", NULL) /\ z.start = 1
        /\ z.size = [l \in 3..5 |-> 0] /\ z.counter = 0
        /\ z.current = m.current /\ z.tid = m.tid /\ z.name = m.name /\ z.proc = m.proc
    <3>1. [l \in 3..5 |-> 0] \in [3..5 -> 0..UIntMax]
      BY ValueAssumption
    <3>2. z = [m EXCEPT !.start = 1, !.size = [l \in 3..5 |-> 0]]
      BY DEF z, MasterBlock
    <3>3. z \in Memory
      BY <1>1, <3>1, <3>2 DEF Memory
    <3>4. QED
      BY <1>1, <2>1, <3>2, <3>3 DEF Unset, Memory
  <2>3. /\ b \in Memory /\ b.next = Only("High", NULL) /\ b.queue["Master"] = 3
        /\ b.size = [l \in 3..5 |-> 0] /\ b.state["Master"] = "READY"
        /\ b.start = 1 /\ b.counter = 0 /\ b.mctx = "entry"
        /\ b.current = m.current /\ b.tid = m.tid /\ b.name = m.name /\ b.proc = m.proc
    BY <2>z, <2>2 DEF Memory, removal
  <2> HIDE DEF b
  <2>4. Acyclic(b.next) /\ Link(b.next, "High", "Master") = Only("High", "Master")
    BY <2>2, <2>3, OnlyFacts, OnlyLink
  <2>5. e \in Memory
    BY <2>2, <2>3, <2>4, EnqueueType
  <2>6. Count(b.size, 3, 1) = HighSize(1)
    <3>1. b.size = HighSize(0) /\ 0 \in 0..UIntMax /\ 0 + 1 \in 0..UIntMax
          /\ 1 \in {-1, 1}
      BY <2>3, ValueAssumption DEF HighSize
    <3>2. QED
      BY <3>1, CountHigh
  <2>7. e.next = Only("High", "Master") /\ e.parent["Master"] = "High"
        /\ e.size = HighSize(1)
    <3>1. e = [b EXCEPT !.next = Only("High", "Master"), !.parent["Master"] = "High",
                        !.size = HighSize(1)]
      BY <2>3, <2>4, <2>6 DEF enqueue
    <3>2. b.parent \in [Node -> Head \cup {"Master", NULL}]
      BY <2>3 DEF Memory
    <3> HIDE DEF e
    <3>3. e.next = Only("High", "Master")
      BY <2>3, <3>1 DEF Memory
    <3>4. e.parent = [b.parent EXCEPT !["Master"] = "High"]
      BY <2>3, <3>1 DEF Memory
    <3>5. e.size = HighSize(1)
      BY <2>3, <3>1 DEF Memory
    <3>6. QED
      BY <2>2, <3>2, <3>3, <3>4, <3>5
  <2>8. /\ e.mctx = "entry" /\ e.start = 1 /\ e.counter = 0
        /\ e.current = m.current /\ e.state["Master"] = "READY"
        /\ e.queue["Master"] = 3 /\ e.tid = m.tid /\ e.name = m.name
        /\ e.proc = m.proc
    BY <2>3 DEF enqueue, Memory
  <2>9. Entry(e)
    BY <2>1, <2>7, <2>8 DEF Entry, Unset
  <2>10. Stage(e)
    BY <1>1, <2>8, <2>9 DEF Stage
  <2>11. e = MasterReady(m)
    BY <1>3 DEF MasterReady, b, z
  <2>12. QED
    BY <2>5, <2>8, <2>10, <2>11 DEF Good, Running
<1>4. QED
  BY <1>2, <1>3

LEMMA StageAcyclic ==
    ASSUME NEW m, Stage(m)
    PROVE  /\ Acyclic(m.next) /\ Unshared(m.next)
           /\ \A n \in Node : m.next[n] \notin Head
<1>1. "High" \in Head /\ "Cleaner" \in Head
  BY DEF Head
<1>2. CASE Unset(m) \/ Entry(m)
  <2>1. \E x \in {NULL, "Master"} : m.next = Only("High", x)
    BY <1>2 DEF Unset, Entry
  <2>2. QED
    BY <2>1, <1>1, OnlyFacts
<1>3. CASE Gone(m)
  BY <1>1, <1>3, OnlyFacts DEF Gone
<1>4. CASE \E t \in Thread : Up(m, t)
  BY <1>4, LineFacts DEF Up
<1>5. QED
  BY <1>2, <1>3, <1>4 DEF Stage

(* The thread that a successful my_pthread_create adds. *)
LEMMA NewThreadFacts ==
    ASSUME NEW m \in Memory, Acyclic(m.next), NEW t \in Thread,
           NEW n, n = NewThread(m, t)
    PROVE  /\ n \in Memory
           /\ n.proc = m.proc /\ n.start = m.start /\ n.mctx = m.mctx
           /\ n.current = m.current /\ n.counter = m.counter + 1
           /\ n.next = Link(m.next, "High", t)
           /\ n.size = Count(m.size, 3, 1)
           /\ n.tid = [m.tid EXCEPT ![t] = m.counter + 1]
           /\ n.name = [m.name EXCEPT ![t] = "mth_high"]
           /\ n.queue = [m.queue EXCEPT ![t] = 3]
           /\ n.state = [m.state EXCEPT ![t] = "READY"]
           /\ n.parent = [m.parent EXCEPT ![t] = "High"]
<1> DEFINE b == [m EXCEPT !.counter = @ + 1, !.tid[t] = m.counter + 1,
                          !.joinid[t] = -1, !.name[t] = "mth_high",
                          !.queue[t] = 3]
<1> DEFINE e == enqueue(b, "High", t)
<1>1. t \in Node /\ "High" \in Head
  BY Cells DEF Head
<1>2. b \in Memory
  <2>1. /\ m.counter + 1 \in Nat
        /\ [m.tid EXCEPT ![t] = m.counter + 1] \in [Node -> Int]
        /\ [m.joinid EXCEPT ![t] = -1] \in [Node -> Int]
        /\ [m.name EXCEPT ![t] = "mth_high"]
             \in [Node -> {NULL, "junk", "mth_high", "mth_medium"}]
        /\ [m.queue EXCEPT ![t] = 3] \in [Node -> {0, 3, removal}]
    BY <1>1 DEF Memory
  <2>2. QED
    BY <2>1 DEF Memory
<1>3. /\ b.proc = m.proc /\ b.start = m.start /\ b.mctx = m.mctx
      /\ b.current = m.current /\ b.counter = m.counter + 1
      /\ b.next = m.next /\ b.size = m.size /\ b.state = m.state
      /\ b.parent = m.parent
      /\ b.tid = [m.tid EXCEPT ![t] = m.counter + 1]
      /\ b.name = [m.name EXCEPT ![t] = "mth_high"]
      /\ b.queue = [m.queue EXCEPT ![t] = 3]
  BY DEF Memory
<1>4. b.queue[t] = 3
  BY <1>1, <1>3 DEF Memory
<1> HIDE DEF b
<1>5. e \in Memory
  BY <1>1, <1>2, <1>3, EnqueueType
<1>6. e = [b EXCEPT !.next = Link(m.next, "High", t), !.parent[t] = "High",
                    !.size = Count(m.size, 3, 1)]
  BY <1>3, <1>4 DEF enqueue
<1> HIDE DEF e
<1>7. /\ e.proc = m.proc /\ e.start = m.start /\ e.mctx = m.mctx
      /\ e.current = m.current /\ e.counter = m.counter + 1
      /\ e.next = Link(m.next, "High", t)
      /\ e.size = Count(m.size, 3, 1)
      /\ e.tid = b.tid /\ e.name = b.name /\ e.queue = b.queue
      /\ e.state = m.state
      /\ e.parent = [m.parent EXCEPT ![t] = "High"]
  BY <1>2, <1>3, <1>6 DEF Memory
<1>8. n = [e EXCEPT !.state[t] = "READY"]
  BY DEF NewThread, b, e
<1>9. n \in Memory
  <2>1. [e.state EXCEPT ![t] = "READY"]
          \in [Node -> {"NEW", "READY", "YIELDED", "TERMINATED"}]
    BY <1>5 DEF Memory
  <2>2. QED
    BY <2>1, <1>5, <1>8 DEF Memory
<1>10. /\ n.state = [e.state EXCEPT ![t] = "READY"]
       /\ n.proc = e.proc /\ n.start = e.start /\ n.mctx = e.mctx
       /\ n.current = e.current /\ n.counter = e.counter /\ n.next = e.next
       /\ n.size = e.size /\ n.tid = e.tid /\ n.name = e.name
       /\ n.queue = e.queue /\ n.parent = e.parent
  BY <1>5, <1>8 DEF Memory
<1>11. QED
  BY <1>3, <1>7, <1>9, <1>10

(* A create either ends the process, or it is the first: then the handler  *)
(* picks Master, the first of the queue, and returns.                      *)
LEMMA CreateGood ==
    ASSUME NEW m, Good(m), Running(m), NEW t \in Thread, m.tid[t] = 0,
           NEW r \in EnterMaster(NewThread(MasterReady(m), t))
    PROVE  /\ Good(r)
           /\ Running(r) => Up(r, t) /\ \A u \in Thread : m.tid[u] = 0
<1> DEFINE a == MasterReady(m)
<1> DEFINE n == NewThread(a, t)
<1>1. Good(a) /\ Running(a) /\ a.start = 1 /\ a.tid = m.tid
  BY MasterReadyStage
<1>2. a \in Memory /\ Stage(a) /\ Acyclic(a.next)
  BY <1>1, StageAcyclic DEF Good
<1> HIDE DEF a
<1>n. a.proc = "running"
  BY <1>1 DEF Running
<1>3. /\ n \in Memory
      /\ n.proc = "running" /\ n.start = 1 /\ n.mctx = a.mctx
      /\ n.current = a.current /\ n.counter = a.counter + 1
      /\ n.next = Link(a.next, "High", t)
      /\ n.size = Count(a.size, 3, 1)
      /\ n.tid = [a.tid EXCEPT ![t] = a.counter + 1]
      /\ n.name = [a.name EXCEPT ![t] = "mth_high"]
      /\ n.queue = [a.queue EXCEPT ![t] = 3]
      /\ n.state = [a.state EXCEPT ![t] = "READY"]
      /\ n.parent = [a.parent EXCEPT ![t] = "High"]
  BY <1>1, <1>2, <1>n, NewThreadFacts, SMTT(60)
<1> HIDE DEF n
<1>4. n.current \notin Thread
  BY <1>1, <1>3 DEF Good
<1>5. r \in EnterMaster(n)
  BY DEF n, a
<1>6. CASE \E how \in {"crashed", "exited"} : r = End(n, how)
  <2>1. PICK how \in {"crashed", "exited"} : r = End(n, how)
    BY <1>6
  <2>2. how \in Outcomes \ {"running", "in thread"}
    BY DEF Outcomes
  <2>3. ~Running(r)
    BY <2>1, <1>3 DEF End, Memory, Running
  <2>4. QED
    BY <2>1, <2>2, <2>3, <1>3, <1>4, EndGood
<1>7. CASE n.mctx = "entry" /\ r = mt_handler(n)
  <2>1. r = mt_handler(n) /\ Entry(a)
    BY <1>2, <1>3, <1>7 DEF Stage, Unset, Up, Gone
  <2>2. CASE n.current = WILD
    <3>1. Settle(n) = End(n, "crashed")
      BY <2>2, Cells DEF Settle
    <3>2. ~Running(End(n, "crashed"))
      BY <1>3 DEF Running, End, Memory
    <3>3. r = End(n, "crashed")
      BY <2>1, <3>1, <3>2 DEF mt_handler
    <3>4. QED
      BY <3>2, <3>3, <1>3, <1>4, EndGood DEF Outcomes
  <2>3. CASE n.current = NULL
    <3>1. "Master" \in Node /\ "Master" \notin Thread /\ t \in Node /\ t # "Master"
          /\ t \notin Head /\ "High" \in Node
      BY Cells DEF Head
    <3>2. n.next = Line(t)
      BY <1>3, <2>1, LineLink DEF Entry
    <3>3. n.size = HighSize(2)
      BY <1>3, <2>1, CountHigh, ValueAssumption DEF Entry
    <3>4. peak(n.next, "High") = "Master" /\ "Master" # NULL
      BY <3>1, <3>2, NullAssumption DEF Line, peak
    <3>5. Settle(n) = n /\ dispatcher(n) = "Master"
      BY <2>3, <3>3, <3>4 DEF Settle, dispatcher, HighSize
    <3> DEFINE d == [n EXCEPT !.current = "Master"]
    <3>6. r = SwitchToCurrent(d)
      BY <1>3, <2>1, <2>3, <3>4, <3>5 DEF mt_handler, Running
    <3>7. /\ d \in Memory /\ d.current = "Master" /\ d.proc = "running"
          /\ d.start = 1 /\ d.next = n.next
          /\ d.counter = n.counter /\ d.size = n.size /\ d.state = n.state
          /\ d.queue = n.queue /\ d.parent = n.parent /\ d.name = n.name
          /\ d.tid = n.tid
      BY <1>3, <3>1 DEF Memory
    <3> HIDE DEF d
    <3>8. r = [d EXCEPT !.mctx = "stale", !.proc = "running"]
      BY <3>6, <3>7 DEF SwitchToCurrent
    <3>9. /\ r \in Memory /\ r.current = "Master" /\ r.proc = "running"
          /\ r.mctx = "stale" /\ r.start = 1 /\ r.next = n.next
          /\ r.counter = n.counter /\ r.size = n.size /\ r.state = n.state
          /\ r.queue = n.queue /\ r.parent = n.parent /\ r.name = n.name
          /\ r.tid = n.tid
      BY <3>7, <3>8 DEF Memory, Outcomes
    <3>10. a.queue["Master"] = 3 /\ a.parent["Master"] = "High"
           /\ a.state["Master"] = "READY" /\ a.counter = 0
           /\ \A u \in Thread : a.tid[u] = 0
      BY <2>1 DEF Entry
    <3>11. /\ r.queue["Master"] = 3 /\ r.parent["Master"] = "High"
           /\ r.state["Master"] = "READY" /\ r.queue[t] = 3
           /\ r.name[t] = "mth_high" /\ r.name["Master"] = a.name["Master"]
      BY <1>2, <1>3, <3>1, <3>9, <3>10 DEF Memory
    <3>12. \A u \in Thread : r.tid[u] = IF u = t THEN 1 ELSE 0
      BY <1>2, <1>3, <3>9, <3>10, Cells DEF Memory
    <3>13. \A h \in Head : r.tid[h] = HeadTid[h]
      <4>1. \A h \in Head : a.tid[h] = HeadTid[h]
        BY <1>2 DEF Stage
      <4>2. QED
        BY <4>1, <1>2, <1>3, <3>1, <3>9 DEF Memory
    <3>14. Up(r, t)
      BY <1>3, <3>2, <3>3, <3>9, <3>10, <3>11, <3>12 DEF Up
    <3>15. Stage(r)
      BY <1>2, <3>11, <3>13, <3>14 DEF Stage
    <3>16. QED
      BY <1>1, <3>1, <3>9, <3>10, <3>14, <3>15 DEF Good
  <2>4. QED
    BY <2>1, <2>2, <2>3, <1>3 DEF Entry, Pointers
<1>8. n.mctx \in {"entry", "stale", "unset"}
  BY <1>3 DEF Memory
<1>9. QED
  BY <1>5, <1>6, <1>7, <1>8 DEF EnterMaster

(* The handler after my_pthread_exit took Master out of a queue, when at   *)
(* most one cell x is left in the High queue: it moves x to the Cleaner    *)
(* queue, nothing is left to dispatch, and no thread is current.           *)
LEMMA HandlerAfterExit ==
    ASSUME NEW d \in Memory, d.proc = "running", d.mctx = "stale", d.start = 1,
           d.current = "Master", d.state["Master"] = "TERMINATED",
           d.queue["Master"] = 3, d.name["Master"] = "junk",
           d.size = HighSize(Left(d)),
           \E t \in Thread : \A u \in Thread : d.tid[u] = IF u = t THEN 1 ELSE 0,
           \A h \in Head : d.tid[h] = HeadTid[h],
           NEW x \in {NULL, "Master"} \cup Thread, d.next = Only("High", x),
           x \in Thread => d.queue[x] = 3 /\ d.name[x] = "mth_high" /\ d.tid[x] = 1
    PROVE  Good(mt_handler(d))
<1> DEFINE marked == [d EXCEPT !.queue["Master"] = removal]
<1> DEFINE moved == move2Q(marked, "Cleaner", "High", peak(d.next, "High"))
<1> DEFINE r == [moved EXCEPT !.current = NULL]
<1>1. /\ "High" \in Head /\ "Cleaner" \in Head /\ "High" \in Node
      /\ "Master" \in Node /\ "Master" \notin Thread /\ NULL \notin Thread
      /\ "Master" # NULL /\ "Master" # WILD /\ Thread \subseteq Node
      /\ "High" # "Cleaner" /\ "High" # NULL
  BY Cells, NullAssumption DEF Head
<1>2. /\ marked \in Memory /\ marked.proc = "running" /\ marked.mctx = "stale"
      /\ marked.start = 1 /\ marked.state = d.state /\ marked.next = d.next
      /\ marked.queue = [d.queue EXCEPT !["Master"] = removal]
      /\ marked.tid = d.tid /\ marked.name = d.name /\ marked.size = d.size
      /\ marked.joinid = d.joinid
  BY <1>1 DEF Memory
<1>3. peak(d.next, "High") = x
  BY <1>1 DEF peak, Only
<1> HIDE DEF marked
<1>4. Acyclic(marked.next)
  BY <1>1, <1>2, OnlyFacts
<1>5. moved \in Memory
  BY <1>1, <1>2, <1>3, <1>4, Move2QType
<1>6. Settle(d) = r
  <2>1. Settle(d) = Retire(d)
    BY <1>1 DEF Settle
  <2>2. Retire(d) = r
    BY <1>1 DEF Retire, marked
  <2>3. QED
    BY <2>1, <2>2
<1>7. moved.proc = "running" =>
        /\ moved.mctx = "stale" /\ moved.start = 1
        /\ moved.state["Master"] = "TERMINATED"
        /\ moved.tid = d.tid /\ moved.name = d.name /\ moved.joinid = d.joinid
        /\ moved.size = d.size /\ moved.next = Only("Cleaner", x)
  <2>1. CASE x = NULL
    <3>1. moved = marked
      BY <1>3, <2>1 DEF move2Q
    <3>2. Only("High", NULL) = Only("Cleaner", NULL)
      BY DEF Only
    <3>3. QED
      BY <1>2, <2>1, <3>1, <3>2
  <2>2. CASE x # NULL
    <3> DEFINE q == dequeueSpecific(marked, "High", x)
    <3>1. moved = IF q.proc = "running" THEN enqueue(q, "Cleaner", x) ELSE q
      BY <1>1, <1>3, <2>2 DEF move2Q, Running
    <3>2. CASE q.proc # "running"
      BY <3>1, <3>2
    <3>3. CASE q.proc = "running"
      <4>1. x \in Node /\ x \in SameTid(marked, x)
        BY <1>1, <2>2 DEF SameTid
      <4>2. marked.name[x] # NULL /\ "High" \notin SameTid(marked, x)
        BY <3>3 DEF dequeueSpecific, End, Memory
      <4> DEFINE hits == SameTid(marked, x)
      <4>3. Unlink(marked.next, "High", hits) = Only("High", NULL)
        <5>1. x \in {"Master"} \cup Thread /\ x \in hits /\ "High" \notin hits
          BY <2>2, <4>1, <4>2
        <5> HIDE DEF hits
        <5>2. Unlink(Only("High", x), "High", hits) = Only("High", NULL)
          BY <1>1, <5>1, OnlyUnlink
        <5>3. QED
          BY <1>2, <5>2
      <4> DEFINE z == IF x = "Master" THEN d.size ELSE Count(d.size, 3, -1)
      <4>4. (IF marked.name[x] \in DOMAIN CountedName
             THEN Count(marked.size, CountedName[marked.name[x]], -1)
             ELSE marked.size) = z
        BY <1>1, <1>2, <2>2 DEF CountedName
      <4>5. q = [marked EXCEPT !.next = Only("High", NULL), !.size = z]
        BY <4>2, <4>3, <4>4 DEF dequeueSpecific
      <4>6. q \in Memory
        BY <1>1, <1>2, <1>4, <4>1, DequeueType
      <4> HIDE DEF z, q
      <4>7. /\ q.mctx = "stale" /\ q.start = 1 /\ q.state = d.state
            /\ q.tid = d.tid /\ q.name = d.name /\ q.queue = marked.queue
            /\ q.joinid = d.joinid
            /\ q.next = Only("High", NULL) /\ q.size = z
        BY <1>2, <4>5 DEF Memory
      <4>8. Link(q.next, "Cleaner", x) = Only("Cleaner", x)
        BY <1>1, <2>2, <4>7, OnlyLink
      <4>9. moved = [q EXCEPT !.next = Only("Cleaner", x), !.parent[x] = "Cleaner",
                              !.size = Count(z, q.queue[x], 1)]
        BY <3>1, <3>3, <4>7, <4>8 DEF enqueue, q
      <4>10. Count(z, q.queue[x], 1) = d.size
        <5> DEFINE k == Left(d)
        <5>1. k \in {2, 3} /\ UIntMax \in Nat \ {0, 1, 2} /\ d.size = HighSize(k)
          BY ValueAssumption DEF Left
        <5> HIDE DEF k
        <5>2. CASE x = "Master"
          <6>1. q.queue[x] = removal /\ z = d.size
            BY <1>1, <1>2, <4>7, <5>2 DEF Memory, z
          <6>2. k \in 0..UIntMax /\ 1 \in {-1, 1}
            BY <5>1
          <6>3. QED
            BY <5>1, <6>1, <6>2, CountNone
        <5>3. CASE x # "Master"
          <6>1. x \in Thread /\ q.queue[x] = 3
            BY <1>1, <1>2, <2>2, <4>1, <4>7, <5>3 DEF Memory
          <6>2. k \in 0..UIntMax /\ k + (-1) \in 0..UIntMax /\ (k + (-1)) + 1 = k
                /\ -1 \in {-1, 1} /\ 1 \in {-1, 1}
            BY <5>1
          <6>3. z = HighSize(k + (-1))
            BY <5>1, <5>3, <6>2, CountHigh DEF z
          <6>4. Count(HighSize(k + (-1)), 3, 1) = HighSize(k)
            BY <6>2, CountHigh
          <6>5. QED
            BY <5>1, <6>1, <6>3, <6>4
        <5>4. QED
          BY <5>2, <5>3
      <4> HIDE DEF moved
      <4>11. /\ moved.mctx = q.mctx /\ moved.start = q.start /\ moved.state = q.state
             /\ moved.tid = q.tid /\ moved.name = q.name /\ moved.joinid = q.joinid
             /\ moved.size = Count(z, q.queue[x], 1)
             /\ moved.next = Only("Cleaner", x)
        BY <4>6, <4>9 DEF Memory
      <4>12. QED
        BY <4>7, <4>10, <4>11
    <3>4. QED
      BY <3>2, <3>3
  <2>3. QED
    BY <2>1, <2>2
<1> HIDE DEF moved
<1>8. /\ r \in Memory /\ r.proc = moved.proc /\ r.current = NULL
      /\ r.mctx = moved.mctx /\ r.start = moved.start /\ r.state = moved.state
      /\ r.tid = moved.tid /\ r.name = moved.name /\ r.size = moved.size
      /\ r.next = moved.next /\ r.joinid = moved.joinid
  BY <1>5 DEF Memory, Pointers
<1> HIDE DEF r
<1>9. CASE r.proc # "running"
  <2>1. mt_handler(d) = r
    BY <1>6, <1>9 DEF mt_handler, Running
  <2>2. moved.proc # "in thread"
    BY <1>1, <1>2, <1>3, <1>4, Move2QProc DEF moved
  <2>3. QED
    BY <1>1, <1>8, <1>9, <2>1, <2>2 DEF Good, Running
<1>10. CASE r.proc = "running"
  <2>1. dispatcher(r) = NULL
    <3>1. r.size[3] > 0 /\ r.next["High"] = NULL
      BY <1>1, <1>7, <1>8, <1>10 DEF Only, HighSize, Left
    <3>2. QED
      BY <3>1 DEF dispatcher, peak
  <2>2. mt_handler(d) = r
    BY <1>6, <1>8, <1>10, <2>1 DEF mt_handler, Running
  <2>3. Gone(r) /\ Stage(r)
    BY <1>7, <1>8, <1>10 DEF Gone, Stage, Left
  <2>4. QED
    BY <1>1, <1>8, <1>10, <2>2, <2>3 DEF Good
<1>11. QED
  BY <1>9, <1>10

(* my_pthread_exit crashes, or it returns with no current thread. *)
LEMMA ExitGood ==
    ASSUME NEW m, Good(m), Running(m), HasCurrent(m)
    PROVE  Good(Exit(m))
<1> DEFINE w == IF m.joinid["Master"] # -1 THEN enqueue(m, "Wait", "Master") ELSE m
<1> DEFINE x == [w EXCEPT !.state["Master"] = "TERMINATED"]
<1> DEFINE d == dequeueSpecific(x, x.parent["Master"], "Master")
<1>1. /\ m \in Memory /\ m.current = "Master" /\ m.name["Master"] \in {NULL, "junk"}
      /\ m.proc = "running" /\ \A h \in Head : m.tid[h] = HeadTid[h]
  BY CurrentIsMaster DEF Good, Stage, Running
<1>2. PICK t \in Thread : Up(m, t)
  BY CurrentIsMaster
<1>3. /\ "High" \in Head /\ "Wait" \in Head /\ Head \subseteq Node
      /\ "Master" \in Node /\ "Master" \notin Thread /\ t \in Node
      /\ "Master" # NULL
  BY Cells DEF Head
<1>4. m.next = Line(t) /\ Acyclic(m.next) /\ m.next \in Links
  BY <1>2, LineFacts DEF Up
<1>5. Exit(m) = IF d.proc = "running" THEN mt_handler(d) ELSE d
  BY <1>1 DEF Exit, Running
<1>6. /\ w \in Memory /\ w.proc = "running" /\ w.current = "Master"
      /\ w.mctx = m.mctx /\ w.start = m.start /\ w.name = m.name
      /\ w.queue = m.queue /\ w.tid = m.tid /\ w.state = m.state
      /\ w.joinid = m.joinid
  <2>1. enqueue(m, "Wait", "Master") \in Memory
    BY <1>1, <1>3, <1>4, EnqueueType
  <2>2. QED
    BY <1>1, <2>1 DEF enqueue, Memory
<1>7. \/ /\ w.parent["Master"] = "High" /\ w.next = Line(t)
         /\ w.size = HighSize(2) /\ m.joinid["Master"] = -1
      \/ /\ w.parent["Master"] = "Wait" /\ w.next = Link(Line(t), "Wait", "Master")
         /\ w.size = HighSize(3) /\ m.joinid["Master"] # -1
  <2>1. CASE w = m /\ m.joinid["Master"] = -1
    BY <1>2, <1>4, <2>1 DEF Up
  <2>2. CASE w = enqueue(m, "Wait", "Master") /\ m.joinid["Master"] # -1
    <3>1. w.parent["Master"] = "Wait" /\ w.next = Link(Line(t), "Wait", "Master")
      <4>1. w.parent = [m.parent EXCEPT !["Master"] = "Wait"]
        BY <1>1, <2>2 DEF enqueue, Memory
      <4>2. w.next = Link(m.next, "Wait", "Master")
        BY <1>1, <2>2 DEF enqueue, Memory
      <4>3. QED
        BY <4>1, <4>2, <1>1, <1>3, <1>4 DEF Memory
    <3>2. w.size = Count(m.size, 3, 1)
      BY <1>1, <1>2, <2>2 DEF enqueue, Memory, Up
    <3>3. w.size = HighSize(3)
      BY <1>2, <3>2, CountHigh, ValueAssumption DEF Up
    <3>4. QED
      BY <2>2, <3>1, <3>3
  <2>3. QED
    BY <2>1, <2>2
<1>8. Acyclic(w.next)
  BY <1>1, <1>3, <1>4, LinkAcyclic, <1>7
<1> HIDE DEF w
<1>9. /\ x \in Memory /\ x.proc = "running" /\ x.current = "Master"
      /\ x.mctx = m.mctx /\ x.start = m.start /\ x.name = m.name
      /\ x.queue = m.queue /\ x.tid = m.tid /\ x.next = w.next
      /\ x.parent = w.parent /\ x.size = w.size /\ x.state["Master"] = "TERMINATED"
      /\ x.joinid = m.joinid
  BY <1>3, <1>6 DEF Memory
<1> HIDE DEF x
<1> DEFINE h == x.parent["Master"]
<1> DEFINE hits == SameTid(x, "Master")
<1>10. CASE m.name["Master"] = NULL \/ h \in hits
  <2>1. d = End(x, "crashed")
    BY <1>9, <1>10 DEF dequeueSpecific
  <2>2. d.proc = "crashed"
    BY <1>9, <2>1 DEF End, Memory
  <2>3. Exit(m) = End(x, "crashed")
    BY <1>5, <2>1, <2>2
  <2>4. QED
    BY <1>3, <1>9, <2>3, EndGood DEF Outcomes
<1>11. CASE m.name["Master"] = "junk" /\ h \notin hits /\ m.name["Master"] # NULL
  <2>1. "Master" \in hits /\ "junk" \notin DOMAIN CountedName
    BY <1>3 DEF SameTid, CountedName
  <2>2. d = [x EXCEPT !.next = Unlink(x.next, h, hits), !.size = x.size]
    BY <1>9, <1>11, <2>1 DEF dequeueSpecific
  <2>3. d \in Memory
    BY <1>3, <1>7, <1>8, <1>9, DequeueType
  <2> HIDE DEF d
  <2>4. /\ d.proc = "running" /\ d.mctx = "stale" /\ d.start = 1
        /\ d.current = "Master" /\ d.state["Master"] = "TERMINATED"
        /\ d.queue["Master"] = 3 /\ d.name["Master"] = "junk"
        /\ d.tid = m.tid /\ d.queue = m.queue /\ d.name = m.name
        /\ d.next = Unlink(x.next, h, hits) /\ d.size = x.size
        /\ d.joinid = m.joinid
    BY <1>2, <1>9, <1>11, <2>2 DEF Memory, Up
  <2>5. d.size = HighSize(Left(d))
    BY <1>7, <1>9, <2>4 DEF Left
  <2> HIDE DEF hits
  <2>6. \E y \in {NULL, "Master", t} : d.next = Only("High", y)
    <3>1. CASE h = "High" /\ x.next = Line(t)
      BY <1>11, <2>1, <2>4, <3>1, LineUnlink
    <3>2. CASE h = "Wait" /\ x.next = Link(Line(t), "Wait", "Master")
      BY <1>11, <2>1, <2>4, <3>2, LineToWait
    <3>3. QED
      BY <3>1, <3>2, <1>7, <1>9
  <2>7. PICK y \in {NULL, "Master", t} : d.next = Only("High", y)
    BY <2>6
  <2>8. /\ d.queue[t] = 3 /\ d.name[t] = "mth_high" /\ d.tid[t] = 1
        /\ \A u \in Thread : d.tid[u] = IF u = t THEN 1 ELSE 0
    BY <1>2, <2>4 DEF Up
  <2>9. y \in Thread => y = t
    BY <1>3, <2>7, Cells
  <2>10. Good(mt_handler(d))
    BY <1>1, <2>3, <2>4, <2>5, <2>7, <2>8, <2>9, HandlerAfterExit
  <2>11. QED
    BY <1>5, <2>4, <2>10
<1>12. QED
  BY <1>1, <1>10, <1>11, <1>9, PointerAssumption

-----------------------------------------------------------------------------
(* The invariant. *)

LEMMA InitInv == Init => IInv
<1> SUFFICES ASSUME Init PROVE IInv
  OBVIOUS
<1>1. PICK left \in Leftover, junk \in SUBSET StackMutex :
        MemInit(left) /\ LockInit(left, junk)
  BY DEF Init
<1>2. /\ left.tid \in Int /\ left.joinid \in Int /\ left.name \in {NULL, "junk"}
      /\ left.current \in {NULL, WILD} /\ left.list \in {NULL, WILD}
  BY ValueAssumption
<1>3. \A h \in Head : HeadTid[h] \in Int
  BY DEF Head, HeadTid
<1>4. /\ [n \in Node |-> NULL] \in Links
      /\ [n \in Node |-> IF n \in Head THEN HeadTid[n]
                         ELSE IF n = "Master" THEN left.tid ELSE 0] \in [Node -> Int]
      /\ [l \in 3..5 |-> 0] \in [3..5 -> 0..UIntMax]
  BY <1>2, <1>3, ValueAssumption DEF Links
<1>5. mem \in Memory
  BY <1>1, <1>2, <1>4 DEF MemInit, Memory, Outcomes, Pointers
<1>6. Unset(mem)
  BY <1>1, <1>2, Cells DEF MemInit, Unset, Only, Pointers, HighSize
<1>7. Stage(mem) /\ mem.current \notin Thread /\ mem.proc = "running"
  BY <1>1, <1>2, <1>6, Cells DEF MemInit, Stage, Head
<1>8. lock \in Locks
  BY <1>1, <1>2, PointerAssumption, ValueAssumption DEF LockInit, Locks, Pointers
<1>9. QED
  BY <1>5, <1>7, <1>8 DEF IInv, Good

(* What the mutex functions assign is typed. *)
LEMMA RegisterType ==
    ASSUME NEW k \in Locks, NEW x \in Mutex, NEW at \in Mutex \cup {"MutexT"}
    PROVE  [k EXCEPT !.next[at] = x, !.flag[x] = 0, !.guard[x] = 0] \in Locks
<1>1. /\ [k.next EXCEPT ![at] = x] \in [Mutex \cup {"MutexT"} -> Mutex \cup Pointers]
      /\ [k.flag EXCEPT ![x] = 0] \in [Mutex -> Int]
      /\ [k.guard EXCEPT ![x] = 0] \in [Mutex -> 0..2]
  BY DEF Locks
<1>2. QED
  BY <1>1 DEF Locks

LEMMA HoldType ==
    ASSUME NEW k \in Locks, NEW x \in Mutex, NEW tid \in Int
    PROVE  [k EXCEPT !.guard[x] = 1, !.flag[x] = tid] \in Locks
<1>1. /\ [k.flag EXCEPT ![x] = tid] \in [Mutex -> Int]
      /\ [k.guard EXCEPT ![x] = 1] \in [Mutex -> 0..2]
  BY DEF Locks
<1>2. QED
  BY <1>1 DEF Locks

LEMMA ClearType ==
    ASSUME NEW k \in Locks, NEW x \in Mutex
    PROVE  /\ [k EXCEPT !.flag[x] = 0] \in Locks
           /\ [k EXCEPT !.guard[x] = 0, !.flag[x] = 0] \in Locks
<1>1. /\ [k.flag EXCEPT ![x] = 0] \in [Mutex -> Int]
      /\ [k.guard EXCEPT ![x] = 0] \in [Mutex -> 0..2]
  BY DEF Locks
<1>2. QED
  BY <1>1 DEF Locks

LEMMA NextInv ==
    ASSUME IInv, [Next]_vars
    PROVE  IInv'
<1>1. Good(mem) /\ lock \in Locks
  BY DEF IInv
<1>2. ASSUME NEW how \in {"crashed", "exited", "hung"}
      PROVE  Good(End(mem, how))
  <2>1. how \in Outcomes \ {"running", "in thread"}
    BY DEF Outcomes
  <2>2. mem \in Memory /\ mem.current \notin Thread
    BY <1>1 DEF Good
  <2>3. QED
    BY <2>1, <2>2, EndGood
<1>3. ASSUME Running(mem), HasCurrent(mem)
      PROVE  mem.current = "Master" /\ mem.tid["Master"] \in Int
  <2>1. mem.current = "Master" /\ mem \in Memory
    BY <1>1, <1>3, CurrentIsMaster
  <2>2. QED
    BY <2>1, Cells DEF Memory
<1>4. CASE UNCHANGED vars
  <2>1. mem' = mem /\ lock' = lock
    BY <1>4 DEF vars
  <2>2. QED
    BY <2>1, <1>1 DEF IInv
<1>5. CASE my_pthread_create
  <2>1. Running(mem) /\ lock' = lock
    BY <1>5 DEF my_pthread_create
  <2>2. CASE \E t \in Thread :
               /\ mem.tid[t] = 0
               /\ \E m \in EnterMaster(NewThread(MasterReady(mem), t)) :
                    Call("create", t, m, "0")
    <3>1. PICK t \in Thread :
            mem.tid[t] = 0 /\ mem' \in EnterMaster(NewThread(MasterReady(mem), t))
      BY <2>2 DEF Call
    <3>2. Good(mem')
      BY <3>1, <2>1, <1>1, CreateGood
    <3>3. QED
      BY <3>2, <2>1, <1>1 DEF IInv
  <2>3. CASE Call("create", NULL, MasterReady(mem), "-1")
    <3>1. Good(MasterReady(mem))
      BY <2>1, <1>1, MasterReadyStage
    <3>2. QED
      BY <3>1, <2>1, <2>3, <1>1 DEF IInv, Call
  <2>4. CASE Call("create", NULL, End(mem, "crashed"), None)
             \/ Call("create", NULL, End(mem, "exited"), None)
    BY <2>1, <2>4, <1>1, <1>2 DEF IInv, Call
  <2>5. CASE mem.start = 0 /\ Call("create", NULL, MasterBlock(mem), "-1")
    <3> DEFINE b == MasterBlock(mem)
    <3>a. mem \in Memory /\ Stage(mem)
      BY <2>1, <1>1 DEF Good
    <3>1. mem \in Memory /\ Stage(mem) /\ Unset(mem)
      BY <3>a, <2>5 DEF Stage, Entry, Up, Gone
    <3>2. b = [mem EXCEPT !.start = 1, !.size = mem.size]
      BY <3>1 DEF MasterBlock, Unset, HighSize
    <3>3. /\ b \in Memory /\ b.proc = mem.proc /\ b.current = mem.current
          /\ b.tid = mem.tid /\ b.name = mem.name /\ b.mctx = mem.mctx
          /\ b.next = mem.next /\ b.counter = mem.counter /\ b.size = mem.size
          /\ b.state = mem.state
      BY <3>1, <3>2 DEF Memory
    <3> HIDE DEF b
    <3>4. Stage(b)
      BY <3>1, <3>3 DEF Stage, Unset, HighSize
    <3>5. Good(b)
      BY <3>3, <3>4, <1>1 DEF Good
    <3>6. QED
      BY <3>5, <2>1, <2>5, <1>1 DEF IInv, Call, b
  <2>6. QED
    BY <1>5, <2>2, <2>3, <2>4, <2>5 DEF my_pthread_create
<1>6. CASE my_pthread_yield
  BY <1>6, <1>1, YieldDies DEF my_pthread_yield, Call, IInv
<1>7. CASE my_pthread_exit
  <2>1. Running(mem) /\ lock' = lock
        /\ mem' = IF HasCurrent(mem) THEN Exit(mem) ELSE End(mem, "crashed")
    BY <1>7 DEF my_pthread_exit, Call
  <2>2. Good(mem')
    BY <2>1, <1>1, <1>2, ExitGood
  <2>3. QED
    BY <2>1, <2>2, <1>1 DEF IInv
<1>8. CASE \E tid \in 0..2, joinid \in {-1, 0}, terminated \in BOOLEAN :
             my_pthread_join(tid, joinid, terminated)
  <2>1. Running(mem) /\ lock' = lock
        /\ mem' \in {mem, End(mem, "crashed"), Yield(mem)}
    BY <1>8 DEF my_pthread_join, Call
  <2>2. Good(mem')
    BY <2>1, <1>1, <1>2, YieldDies
  <2>3. QED
    BY <2>1, <2>2, <1>1 DEF IInv
<1>9. CASE \E fn \in {"init", "lock", "destroy"} : NullMutex(fn)
  BY <1>9, <1>1 DEF NullMutex, Call, IInv
<1>10. CASE \E x \in Mutex : my_pthread_mutex_init(x)
  <2>1. PICK x \in Mutex : my_pthread_mutex_init(x)
    BY <1>10
  <2>2. mem' \in {mem, End(mem, "crashed"), End(mem, "hung")}
    BY <2>1 DEF my_pthread_mutex_init, Register, Call
  <2>3. Good(mem')
    BY <2>2, <1>1, <1>2
  <2>4. lock' \in Locks
    <3>1. CASE lock' = lock
      BY <3>1, <1>1
    <3>2. CASE \E at \in Mutex \cup {"MutexT"} : Register(x, at)
      <4>1. PICK at \in Mutex \cup {"MutexT"} :
              lock' = [lock EXCEPT !.next[at] = x, !.flag[x] = 0, !.guard[x] = 0]
        BY <3>2 DEF Register
      <4>2. QED
        BY <4>1, <1>1, RegisterType
    <3>3. QED
      BY <2>1, <3>1, <3>2 DEF my_pthread_mutex_init
  <2>5. QED
    BY <2>3, <2>4 DEF IInv
<1>11. CASE \E x \in Mutex : my_pthread_mutex_lock(x)
  <2>1. PICK x \in Mutex : my_pthread_mutex_lock(x)
    BY <1>11
  <2>2. mem' \in {mem, End(mem, "crashed"), yieldD(mem)} /\ Running(mem)
    BY <2>1 DEF my_pthread_mutex_lock, Call
  <2>3. Good(mem')
    BY <2>2, <1>1, <1>2, YieldDDies
  <2>4. lock' \in Locks
    <3>1. CASE lock' = lock
      BY <3>1, <1>1
    <3>2. CASE /\ HasCurrent(mem)
               /\ lock' = [lock EXCEPT !.guard[x] = 1,
                                       !.flag[x] = mem.tid[mem.current]]
      <4>1. mem.tid[mem.current] \in Int
        BY <3>2, <2>2, <1>3
      <4>2. QED
        BY <4>1, <3>2, <1>1, HoldType
    <3>3. QED
      BY <2>1, <3>1, <3>2 DEF my_pthread_mutex_lock
  <2>5. QED
    BY <2>3, <2>4 DEF IInv
<1>12. CASE \E x \in Mutex : my_pthread_mutex_unlock(x)
  <2>1. PICK x \in Mutex : my_pthread_mutex_unlock(x)
    BY <1>12
  <2>2. mem' \in {mem, End(mem, "crashed"), End(mem, "exited")}
    BY <2>1 DEF my_pthread_mutex_unlock, Call
  <2>3. Good(mem')
    BY <2>2, <1>1, <1>2
  <2>4. lock' = lock \/ lock' = [lock EXCEPT !.flag[x] = 0]
    BY <2>1 DEF my_pthread_mutex_unlock
  <2>5. lock' \in Locks
    BY <2>4, <1>1, ClearType
  <2>6. QED
    BY <2>3, <2>5 DEF IInv
<1>13. CASE \E x \in Mutex : my_pthread_mutex_destroy(x)
  <2>1. PICK x \in Mutex : my_pthread_mutex_destroy(x)
    BY <1>13
  <2>2. mem' = mem /\ lock' = [lock EXCEPT !.guard[x] = 0, !.flag[x] = 0]
    BY <2>1 DEF my_pthread_mutex_destroy, Call
  <2>3. lock' \in Locks
    BY <2>2, <1>1, ClearType
  <2>4. QED
    BY <2>2, <2>3, <1>1 DEF IInv
<1>14. QED
  BY <1>4, <1>5, <1>6, <1>7, <1>8, <1>9, <1>10, <1>11, <1>12, <1>13 DEF Next

(* Every state a client can bring the library to satisfies the invariant:  *)
(* the library is in one of its four stages, or it ended.                  *)
THEOREM Invariance == Spec => []IInv
<1>1. Init => IInv
  BY InitInv
<1>2. IInv /\ [Next]_vars => IInv'
  BY NextInv
<1>3. QED
  BY <1>1, <1>2, PTL DEF Spec

-----------------------------------------------------------------------------
(* What follows for the runs' properties. *)

(* The types of TypeOK, for any number of threads and mutexes. *)
THEOREM TypeCorrect == Spec => []TypeOK
<1>1. IInv => TypeOK
  BY DEF IInv, Good, TypeOK
<1>2. QED
  BY <1>1, Invariance, PTL

(* No created thread is ever dispatched: exec_thread, the timer and every  *)
(* preemption are unreachable, if what malloc leaves in Master->current    *)
(* cannot be followed.                                                     *)
THEOREM NoThreadEverRuns == Spec => []OnlyMasterRuns
<1>1. IInv => OnlyMasterRuns
  BY DEF IInv, Good, OnlyMasterRuns
<1>2. QED
  BY <1>1, Invariance, PTL

(* The queues stay free of cycles and of shared cells. *)
THEOREM QueuesStayWellFormed == Spec => []QueuesWellFormed
<1>1. IInv => QueuesWellFormed
  BY StageAcyclic DEF IInv, Good, QueuesWellFormed
<1>2. QED
  BY <1>1, Invariance, PTL

(* A lock that returns 0 took a mutex that was free, although the branch   *)
(* for a taken mutex ends in the same return 0.                            *)
THEOREM LockIsAcquisition == Spec => LockMeansAcquired
<1> DEFINE A == last'.fn = "lock" /\ last'.ret = "0" =>
                  lock.guard[last'.arg] = 0 /\ lock'.guard[last'.arg] = 1
<1>1. IInv /\ [Next]_vars => [A]_vars
  <2> SUFFICES ASSUME IInv, Next, last'.fn = "lock", last'.ret = "0"
               PROVE  A
    BY DEF A
  <2>1. Good(mem) /\ lock \in Locks
    BY DEF IInv
  <2>2. \A fn, arg, m, ret :
          Call(fn, arg, m, ret) =>
            /\ last'.fn = fn /\ last'.arg = arg
            /\ last'.ret = "0" => Running(m)
    BY DEF Call, None
  <2>3. CASE \E x \in Mutex : my_pthread_mutex_lock(x)
    <3>1. PICK x \in Mutex : my_pthread_mutex_lock(x)
      BY <2>3
    <3>2. Running(mem) /\ ~Running(yieldD(mem)) /\ ~Running(End(mem, "crashed"))
      <4>1. Running(mem) /\ mem \in Memory
        BY <3>1, <2>1 DEF my_pthread_mutex_lock, Good
      <4>2. yieldD(mem).proc = "crashed" /\ End(mem, "crashed").proc = "crashed"
        BY <4>1, <2>1, YieldDDies DEF End, Memory
      <4>3. QED
        BY <4>1, <4>2 DEF Running
    <3>3. /\ lock.guard[x] = 0 /\ last'.arg = x
          /\ lock' = [lock EXCEPT !.guard[x] = 1, !.flag[x] = mem.tid[mem.current]]
      BY <3>1, <3>2, <2>2 DEF my_pthread_mutex_lock
    <3>4. QED
      BY <3>3, <2>1 DEF Locks
  <2>4. CASE ~\E x \in Mutex : my_pthread_mutex_lock(x)
    <3>1. my_pthread_create => last'.fn = "create"
      BY <2>2 DEF my_pthread_create
    <3>2. my_pthread_yield => last'.fn = "yield"
      BY <2>2 DEF my_pthread_yield
    <3>3. my_pthread_exit => last'.fn = "exit"
      BY <2>2 DEF my_pthread_exit
    <3>4. \A tid, joinid, terminated :
            my_pthread_join(tid, joinid, terminated) => last'.fn = "join"
      BY <2>2 DEF my_pthread_join
    <3>5. \A fn : NullMutex(fn) => last'.ret # "0"
      BY DEF NullMutex, Call, None
    <3>6. \A x : my_pthread_mutex_init(x) => last'.fn = "init"
      BY <2>2 DEF my_pthread_mutex_init, Register
    <3>7. \A x : my_pthread_mutex_unlock(x) => last'.fn = "unlock"
      BY <2>2 DEF my_pthread_mutex_unlock
    <3>8. \A x : my_pthread_mutex_destroy(x) => last'.fn = "destroy"
      BY <2>2 DEF my_pthread_mutex_destroy
    <3>9. QED
      BY <2>4, <3>1, <3>2, <3>3, <3>4, <3>5, <3>6, <3>7, <3>8 DEF Next
  <2>5. QED
    BY <2>3, <2>4
<1>2. Spec => [][A]_vars
  BY <1>1, Invariance, PTL DEF Spec
<1>3. QED
  BY <1>2 DEF LockMeansAcquired

(* Each stage has the High queue and the counters that HighQueueExact      *)
(* tells.                                                                  *)
LEMMA StageCounts ==
    ASSUME NEW m, m = mem, Stage(m)
    PROVE  HighQueueExact
<1> DEFINE M == IF m.mctx = "unset" THEN {} ELSE {"Master"}
<1> DEFINE exited == m.state["Master"] = "TERMINATED"
<1> DEFINE again == IF exited /\ m.joinid["Master"] # -1 THEN 1 ELSE 0
<1> DEFINE n == Cardinality(M \cup Created)
<1> SUFFICES /\ After(m.next, "High") = IF exited THEN {} ELSE M \cup Created
             /\ m.size = HighSize(n + again)
  BY DEF HighQueueExact, HighSize
<1>1. "High" \in Head /\ "Cleaner" # "High"
  BY DEF Head
<1>2. CASE Unset(m)
  <2>1. M \cup Created = {}
    BY <1>2 DEF Unset, Created
  <2>2. n = 0 /\ ~exited
    BY <1>2, <2>1, FS_EmptySet DEF Unset
  <2>3. After(m.next, "High") = {}
    BY <1>1, <1>2, OnlyFacts DEF Unset
  <2>4. QED
    BY <2>1, <2>2, <2>3, <1>2 DEF Unset
<1>3. CASE Entry(m)
  <2>1. M \cup Created = {"Master"}
    BY <1>3 DEF Entry, Created
  <2>2. n = 1 /\ ~exited
    BY <1>3, <2>1, FS_Singleton DEF Entry
  <2>3. After(m.next, "High") = {"Master"}
    BY <1>1, <1>3, OnlyFacts, Cells DEF Entry
  <2>4. QED
    BY <2>1, <2>2, <2>3, <1>3 DEF Entry
<1>4. ASSUME NEW t \in Thread, m.mctx = "stale",
             \A u \in Thread : m.tid[u] = IF u = t THEN 1 ELSE 0
      PROVE  M \cup Created = {"Master", t} /\ n = 2
  <2>1. M = {"Master"} /\ Created = {t}
    BY <1>4 DEF Created
  <2>2. IsFiniteSet({"Master"}) /\ Cardinality({"Master"}) = 1 /\ t \notin {"Master"}
    BY FS_Singleton, Cells
  <2>3. QED
    BY <2>1, <2>2, FS_AddElement
<1>5. CASE \E t \in Thread : Up(m, t)
  <2>1. PICK t \in Thread : Up(m, t)
    BY <1>5
  <2>2. M \cup Created = {"Master", t} /\ n = 2 /\ ~exited
    BY <1>4, <2>1 DEF Up
  <2>3. After(m.next, "High") = {"Master", t}
    BY <2>1, LineFacts DEF Up
  <2>4. QED
    BY <2>1, <2>2, <2>3 DEF Up
<1>6. CASE Gone(m)
  <2>1. n = 2 /\ exited
    BY <1>4, <1>6 DEF Gone
  <2>2. n + again = Left(m)
    BY <2>1 DEF Left
  <2>3. After(m.next, "High") = {}
    <3>1. "High" \in Node /\ "High" # "Cleaner"
      BY <1>1, Cells
    <3>2. m.next["High"] = NULL
      BY <1>6, <3>1 DEF Gone, Only
    <3>3. QED
      BY <2>1, <3>2 DEF After
  <2>4. QED
    BY <2>1, <2>2, <2>3, <1>6 DEF Gone
<1>7. QED
  BY <1>2, <1>3, <1>5, <1>6 DEF Stage

(* Until my_pthread_exit the High queue holds Master and the threads that  *)
(* were created, and high_size counts them; after it the queue is empty    *)
(* and high_size is what it was (my_pthread.c:117-189, 601-618).           *)
THEOREM HighQueueIsExact == Spec => []HighQueueExact
<1>1. IInv => HighQueueExact
  <2> SUFFICES ASSUME IInv, Running(mem)
               PROVE  HighQueueExact
    BY DEF HighQueueExact
  <2>1. Stage(mem)
    BY DEF IInv, Good
  <2>2. QED
    BY <2>1, StageCounts
<1>2. QED
  BY <1>1, Invariance, PTL

-----------------------------------------------------------------------------
(* Master's context cannot be entered a second time. *)
LEMMA GoneCreate ==
    ASSUME NEW m, Good(m), Running(m), Gone(m), NEW t \in Thread,
           NEW r \in EnterMaster(NewThread(m, t))
    PROVE  ~Running(r)
<1>1. m \in Memory /\ Acyclic(m.next) /\ m.mctx = "stale"
  BY StageAcyclic DEF Good, Gone
<1> DEFINE n == NewThread(m, t)
<1>2. /\ n \in Memory
      /\ n.proc = m.proc /\ n.start = m.start /\ n.mctx = m.mctx
      /\ n.current = m.current /\ n.counter = m.counter + 1
      /\ n.next = Link(m.next, "High", t)
      /\ n.size = Count(m.size, 3, 1)
      /\ n.tid = [m.tid EXCEPT ![t] = m.counter + 1]
      /\ n.name = [m.name EXCEPT ![t] = "mth_high"]
      /\ n.queue = [m.queue EXCEPT ![t] = 3]
      /\ n.state = [m.state EXCEPT ![t] = "READY"]
      /\ n.parent = [m.parent EXCEPT ![t] = "High"]
  BY <1>1, NewThreadFacts, SMTT(60)
<1> HIDE DEF n
<1>3. r \in {End(n, "crashed"), End(n, "exited")}
  BY <1>1, <1>2 DEF EnterMaster, n
<1>4. End(n, "crashed").proc = "crashed" /\ End(n, "exited").proc = "exited"
  BY <1>2 DEF End, Memory
<1>5. QED
  BY <1>3, <1>4 DEF Running

(* The calls of an exited library: those that return change no memory of   *)
(* the library.                                                            *)
LEMMA GoneStep ==
    ASSUME IInv, Next, Running(mem), Gone(mem), Running(mem')
    PROVE  mem' = mem
<1>1. Good(mem) /\ mem \in Memory
  BY DEF IInv, Good
<1>2. ~HasCurrent(mem)
  BY NullAssumption DEF Gone, HasCurrent
<1>3. \A how \in {"crashed", "exited", "hung"} : ~Running(End(mem, how))
  BY <1>1 DEF End, Memory, Running
<1>4. ~Running(Yield(mem)) /\ ~Running(yieldD(mem))
  BY <1>1, YieldDies, YieldDDies DEF Running
<1>5. CASE my_pthread_create
  <2>1. MasterReady(mem) = mem /\ mem.start = 1
    BY DEF MasterReady, Gone
  <2>2. ASSUME NEW t \in Thread, NEW m \in EnterMaster(NewThread(mem, t))
        PROVE  ~Running(m)
    BY <1>1, GoneCreate DEF IInv
  <2>3. QED
    BY <1>3, <1>5, <2>1, <2>2 DEF my_pthread_create, Call
<1>6. CASE my_pthread_yield
  BY <1>4, <1>6 DEF my_pthread_yield, Call
<1>7. CASE my_pthread_exit
  BY <1>2, <1>3, <1>7 DEF my_pthread_exit, Call
<1>8. CASE \E tid \in 0..2, joinid \in {-1, 0}, terminated \in BOOLEAN :
             my_pthread_join(tid, joinid, terminated)
  BY <1>3, <1>4, <1>8 DEF my_pthread_join, Call
<1>9. CASE \E fn \in {"init", "lock", "destroy"} : NullMutex(fn)
  BY <1>9 DEF NullMutex, Call
<1>10. CASE \E x \in Mutex : my_pthread_mutex_init(x)
  BY <1>3, <1>10 DEF my_pthread_mutex_init, Register, Call
<1>11. CASE \E x \in Mutex : my_pthread_mutex_lock(x)
  BY <1>3, <1>4, <1>11 DEF my_pthread_mutex_lock, Call
<1>12. CASE \E x \in Mutex : my_pthread_mutex_unlock(x)
  BY <1>3, <1>12 DEF my_pthread_mutex_unlock, Call
<1>13. CASE \E x \in Mutex : my_pthread_mutex_destroy(x)
  BY <1>13 DEF my_pthread_mutex_destroy, Call
<1>14. QED
  BY <1>5, <1>6, <1>7, <1>8, <1>9, <1>10, <1>11, <1>12, <1>13 DEF Next

(* After my_pthread_exit no call that returns changes the queues or the    *)
(* scheduler's state (my_pthread.c:601-618).                               *)
THEOREM ExitStaysFinal == Spec => ExitIsFinal
<1> DEFINE A == mem.state["Master"] = "TERMINATED" /\ Running(mem') => mem' = mem
<1>1. IInv /\ [Next]_vars => [A]_vars
  <2> SUFFICES ASSUME IInv, Next, mem.state["Master"] = "TERMINATED", Running(mem')
               PROVE  mem' = mem
    BY DEF A
  <2>1. Running(mem)
    BY DEF Next, my_pthread_create, my_pthread_yield, my_pthread_exit,
           my_pthread_join, NullMutex, my_pthread_mutex_init,
           my_pthread_mutex_lock, my_pthread_mutex_unlock, my_pthread_mutex_destroy
  <2>2. Gone(mem)
    BY <2>1 DEF IInv, Good, Stage, Unset, Entry, Up
  <2>3. QED
    BY <2>1, <2>2, GoneStep
<1>2. Spec => [][A]_vars
  BY <1>1, Invariance, PTL DEF Spec
<1>3. QED
  BY <1>2 DEF ExitIsFinal

-----------------------------------------------------------------------------
(* A registration adds a mutex to the list and drops none. *)
LEMMA RegisterLists ==
    ASSUME lock \in Locks, NEW x \in Mutex, NEW at \in Mutex \cup {"MutexT"},
           lock.next[at] = NULL,
           at = "MutexT" \/ at = lock.next["MutexT"],
           lock'.next = [lock.next EXCEPT ![at] = x]
    PROVE  Listed \subseteq Listed' /\ x \in Listed'
<1> DEFINE D == Mutex \cup {"MutexT"}
<1> DEFINE nx == ListNext
<1> DEFINE ny == ListNext'
<1>1. /\ DOMAIN lock.next = D /\ DOMAIN lock'.next = D
      /\ x # NULL /\ x # WILD /\ x # "MutexT" /\ NULL # WILD
      /\ \A y \in Mutex : y # NULL /\ y # WILD /\ y # "MutexT"
  BY PointerAssumption DEF Locks
<1>2. /\ nx[at] = NULL /\ ny[at] = x
      /\ \A y \in D \ {at} : ny[y] = nx[y]
      /\ at # "MutexT" => nx["MutexT"] = at
  BY <1>1 DEF ListNext
<1>3. CASE at = "MutexT"
  <2>1. Listed = {}
    BY <1>2, <1>3 DEF Listed, List!After
  <2>2. Listed' = List!Chain(ny, x)
    BY <1>1, <1>2, <1>3 DEF Listed, List!After
  <2>3. x \in List!Chain(ny, x)
    BY DEF List!Chain
  <2>4. QED
    BY <2>1, <2>2, <2>3
<1>4. CASE at # "MutexT"
  <2>1. at \in Mutex /\ nx["MutexT"] = at /\ ny["MutexT"] = at
    BY <1>2, <1>4
  <2>2. Listed = List!Chain(nx, at) /\ Listed' = List!Chain(ny, at)
    BY <1>1, <2>1 DEF Listed, List!After
  <2>3. List!Closed(nx, {at})
    BY <1>2 DEF List!Closed
  <2>4. List!Chain(nx, at) \subseteq {at}
    BY <2>1, <2>3 DEF List!Chain
  <2>5. at \in List!Chain(ny, at)
    BY <2>1 DEF List!Chain
  <2>6. x \in List!Chain(ny, at)
    <3> SUFFICES ASSUME NEW S \in SUBSET D, at \in S, List!Closed(ny, S)
                 PROVE  x \in S
      BY DEF List!Chain
    <3>1. QED
      BY <1>1, <1>2 DEF List!Closed
  <2>7. QED
    BY <2>2, <2>4, <2>5, <2>6
<1>5. QED
  BY <1>3, <1>4

(* A registered mutex stays in the list that starts at MutexT              *)
(* (my_pthread.c:620-644).                                                 *)
THEOREM RegisteredIsListed == Spec => RegisteredStayListed
<1> DEFINE A == /\ Listed \subseteq Listed'
                /\ last'.fn = "init" /\ last'.ret = "0" => last'.arg \in Listed'
<1>1. IInv /\ [Next]_vars => [A]_vars
  <2> SUFFICES ASSUME IInv, Next PROVE A
    BY DEF A
  <2>1. lock \in Locks /\ mem \in Memory
    BY DEF IInv, Good
  <2>2. \A fn, arg, m, ret : Call(fn, arg, m, ret) => last'.fn = fn /\ last'.arg = arg
    BY DEF Call
  <2>3. CASE \E x \in Mutex : my_pthread_mutex_init(x)
    <3>1. PICK x \in Mutex : my_pthread_mutex_init(x)
      BY <2>3
    <3>2. CASE \E at \in Mutex \cup {"MutexT"} :
                 /\ Register(x, at) /\ lock.next[at] = NULL
                 /\ at = "MutexT" \/ at = lock.next["MutexT"]
      <4>1. PICK at \in Mutex \cup {"MutexT"} :
                 /\ Register(x, at) /\ lock.next[at] = NULL
                 /\ at = "MutexT" \/ at = lock.next["MutexT"]
        BY <3>2
      <4>2. lock'.next = [lock.next EXCEPT ![at] = x] /\ last'.arg = x
        BY <4>1, <2>1, <2>2 DEF Register, Locks
      <4>3. QED
        BY <4>1, <4>2, <2>1, RegisterLists
    <3>3. CASE UNCHANGED lock /\ last'.ret # "0"
      <4>1. Listed' = Listed
        BY <3>3 DEF Listed, ListNext
      <4>2. QED
        BY <4>1, <3>3
    <3>4. QED
      BY <3>1, <3>2, <3>3 DEF my_pthread_mutex_init, Call, None
  <2>4. CASE ~\E x \in Mutex : my_pthread_mutex_init(x)
    <3>1. lock'.next = lock.next
      BY <2>1, <2>4 DEF Next, Locks, my_pthread_create, my_pthread_yield,
           my_pthread_exit, my_pthread_join, NullMutex, my_pthread_mutex_lock,
           my_pthread_mutex_unlock, my_pthread_mutex_destroy
    <3>2. Listed' = Listed
      BY <3>1 DEF Listed, ListNext
    <3>3. ~(last'.fn = "init" /\ last'.ret = "0")
      <4>1. my_pthread_create => last'.fn # "init"
        BY <2>2 DEF my_pthread_create
      <4>2. my_pthread_yield \/ my_pthread_exit => last'.fn # "init"
        BY <2>2 DEF my_pthread_yield, my_pthread_exit
      <4>3. \A tid, joinid, terminated :
              my_pthread_join(tid, joinid, terminated) => last'.fn # "init"
        BY <2>2 DEF my_pthread_join
      <4>4. \A fn : NullMutex(fn) => last'.ret # "0"
        BY DEF NullMutex, Call, None
      <4>5. \A x : my_pthread_mutex_lock(x) => last'.fn # "init"
        BY <2>2 DEF my_pthread_mutex_lock
      <4>6. \A x : my_pthread_mutex_unlock(x) \/ my_pthread_mutex_destroy(x) =>
                     last'.fn # "init"
        BY <2>2 DEF my_pthread_mutex_unlock, my_pthread_mutex_destroy
      <4>7. QED
        BY <2>4, <4>1, <4>2, <4>3, <4>4, <4>5, <4>6 DEF Next
    <3>4. QED
      BY <3>2, <3>3
  <2>5. QED
    BY <2>3, <2>4
<1>2. Spec => [][A]_vars
  BY <1>1, Invariance, PTL DEF Spec
<1>3. QED
  BY <1>2 DEF RegisteredStayListed

-----------------------------------------------------------------------------
(* What comes back from the library. *)

LEMMA FewReturn ==
    ASSUME IInv, Next, Running(mem')
    PROVE  /\ last'.fn = "create" /\ last'.ret = "0" =>
                 Created = {} /\ Created' = {last'.arg}
           /\ last'.fn # "yield"
           /\ last'.fn = "join" => mem' = mem
<1>1. Good(mem) /\ mem \in Memory
  BY DEF IInv, Good
<1>2. \A how \in {"crashed", "exited", "hung"} : ~Running(End(mem, how))
  BY <1>1 DEF End, Memory, Running
<1>3. \A fn, arg, m, ret :
        Call(fn, arg, m, ret) => mem' = m /\ last'.fn = fn /\ last'.arg = arg
                                 /\ (last'.ret = ret \/ last'.ret = None)
  BY DEF Call
<1>4. Running(mem) => ~Running(Yield(mem)) /\ ~Running(yieldD(mem))
  BY <1>1, YieldDies, YieldDDies DEF Running
<1>5. CASE my_pthread_create
  <2>1. last'.fn = "create"
    BY <1>3, <1>5 DEF my_pthread_create
  <2>2. SUFFICES ASSUME last'.ret = "0"
                 PROVE  Created = {} /\ Created' = {last'.arg}
    BY <2>1
  <2>3. PICK t \in Thread : \E m \in EnterMaster(NewThread(MasterReady(mem), t)) :
           mem.tid[t] = 0 /\ Call("create", t, m, "0")
    BY <1>3, <1>5, <2>2 DEF my_pthread_create, None
  <2>4. PICK m \in EnterMaster(NewThread(MasterReady(mem), t)) :
           mem.tid[t] = 0 /\ Call("create", t, m, "0")
    BY <2>3
  <2>5. mem' = m /\ last'.arg = t /\ Running(mem)
    BY <1>3, <1>5, <2>4 DEF my_pthread_create
  <2>6. Up(m, t) /\ \A u \in Thread : mem.tid[u] = 0
    BY <1>1, <2>4, <2>5, CreateGood
  <2>7. QED
    BY <2>5, <2>6 DEF Up, Created
<1>6. CASE my_pthread_yield
  BY <1>3, <1>4, <1>6 DEF my_pthread_yield
<1>7. CASE my_pthread_exit
  BY <1>3, <1>7 DEF my_pthread_exit
<1>8. CASE \E tid \in 0..2, joinid \in {-1, 0}, terminated \in BOOLEAN :
             my_pthread_join(tid, joinid, terminated)
  BY <1>2, <1>3, <1>4, <1>8 DEF my_pthread_join
<1>9. CASE \E fn \in {"init", "lock", "destroy"} : NullMutex(fn)
  BY <1>3, <1>9 DEF NullMutex
<1>10. CASE \E x \in Mutex : my_pthread_mutex_init(x)
  BY <1>3, <1>10 DEF my_pthread_mutex_init, Register
<1>11. CASE \E x \in Mutex : my_pthread_mutex_lock(x)
  BY <1>3, <1>11 DEF my_pthread_mutex_lock
<1>12. CASE \E x \in Mutex : my_pthread_mutex_unlock(x)
  BY <1>3, <1>12 DEF my_pthread_mutex_unlock
<1>13. CASE \E x \in Mutex : my_pthread_mutex_destroy(x)
  BY <1>3, <1>13 DEF my_pthread_mutex_destroy
<1>14. QED
  BY <1>5, <1>6, <1>7, <1>8, <1>9, <1>10, <1>11, <1>12, <1>13 DEF Next

(* One create at most returns 0, for the first thread; no yield returns;   *)
(* no join waits (my_pthread.c:485-597, 645-660).  That is so when what    *)
(* malloc left in Master->current is NULL or cannot be followed            *)
(* (ValueAssumption, PointerAssumption); a pointer to other memory of the  *)
(* process could let a yield return.                                       *)
THEOREM FewReturns == Spec => FewCallsReturn
<1>1. ASSUME IInv, [Next]_vars
      PROVE  [Running(mem') =>
                /\ last'.fn = "create" /\ last'.ret = "0" =>
                      Created = {} /\ Created' = {last'.arg}
                /\ last'.fn # "yield"
                /\ last'.fn = "join" => mem' = mem]_vars
  BY <1>1, FewReturn
<1>2. QED
  BY <1>1, Invariance, PTL DEF Spec, FewCallsReturn

=============================================================================
