------------------------- MODULE LinkedQueuesProofs -------------------------
(***************************************************************************)
(* Facts about the operators of LinkedQueues, for every set of cells and   *)
(* every function of next pointers.  Chains are least closed sets, so each *)
(* fact is proved by naming a closed set: no induction is needed.          *)
(***************************************************************************)
EXTENDS LinkedQueues, TLAPS

(* A walk visits its first cell, stays among the cells, and only stops at  *)
(* NULL.                                                                   *)
LEMMA ChainBasics ==
    ASSUME NEW nx \in Links, NEW n \in Node
    PROVE  /\ n \in Chain(nx, n)
           /\ Chain(nx, n) \subseteq Node
           /\ Closed(nx, Chain(nx, n))
<1>1. n \in Chain(nx, n) /\ Chain(nx, n) \subseteq Node
  BY DEF Chain
<1>2. ASSUME NEW k \in Chain(nx, n), nx[k] # NULL
      PROVE  nx[k] \in Chain(nx, n)
  <2>1. k \in Node /\ nx[k] \in Node
    BY <1>2 DEF Chain, Links
  <2>2. ASSUME NEW S \in SUBSET Node, n \in S, Closed(nx, S)
        PROVE  nx[k] \in S
    <3>1. k \in S
      BY <2>2 DEF Chain
    <3>2. QED
      BY <3>1, <2>2, <1>2 DEF Closed
  <2>3. QED
    BY <2>1, <2>2 DEF Chain
<1>3. QED
  BY <1>1, <1>2 DEF Closed

(* A walk from n stays within every closed set that holds n. *)
LEMMA ChainLeast ==
    ASSUME NEW nx, NEW n, NEW S \in SUBSET Node, n \in S, Closed(nx, S)
    PROVE  Chain(nx, n) \subseteq S
BY DEF Chain

(* A walk is its first cell and the walk from the next one. *)
LEMMA ChainStep ==
    ASSUME NEW nx \in Links, NEW n \in Node
    PROVE  Chain(nx, n) = {n} \cup After(nx, n)
<1>1. CASE nx[n] = NULL
  <2>1. Closed(nx, {n})
    BY <1>1 DEF Closed
  <2>2. Chain(nx, n) \subseteq {n}
    BY <2>1, ChainLeast
  <2>3. QED
    BY <2>2, <1>1, ChainBasics DEF After
<1>2. CASE nx[n] # NULL
  <2> DEFINE R == Chain(nx, nx[n])
  <2>1. nx[n] \in Node
    BY <1>2 DEF Links
  <2>2. nx[n] \in R /\ R \subseteq Node /\ Closed(nx, R)
    BY <2>1, ChainBasics
  <2>3. Closed(nx, {n} \cup R)
    BY <2>2 DEF Closed
  <2>4. Chain(nx, n) \subseteq {n} \cup R
    BY <2>2, <2>3, ChainLeast
  <2>5. nx[n] \in Chain(nx, n)
    BY <1>2, ChainBasics DEF Closed
  <2>6. R \subseteq Chain(nx, n)
    BY <2>5, ChainBasics, ChainLeast
  <2>7. QED
    BY <2>4, <2>6, <1>2, ChainBasics DEF After
<1>3. QED
  BY <1>1, <1>2

(* The walk from a cell of a walk is part of it. *)
LEMMA ChainTransitive ==
    ASSUME NEW nx \in Links, NEW n \in Node, NEW k \in Chain(nx, n)
    PROVE  k \in Node /\ Chain(nx, k) \subseteq Chain(nx, n)
BY ChainBasics, ChainLeast

(* In a set of queues without cycles every walk ends, and runT finds its    *)
(* end.                                                                    *)
LEMMA TailExists ==
    ASSUME NEW nx \in Links, Acyclic(nx), NEW n \in Node
    PROVE  runT(nx, n) \in Chain(nx, n) /\ nx[runT(nx, n)] = NULL
<1>1. PICK k \in Chain(nx, n) : nx[k] \notin Chain(nx, n)
  BY ChainBasics DEF Acyclic
<1>2. nx[k] = NULL
  BY <1>1, ChainBasics DEF Closed
<1>3. QED
  BY <1>1, <1>2 DEF runT

(* Without cycles no cell comes after itself. *)
LEMMA NotAfterItself ==
    ASSUME NEW nx \in Links, Acyclic(nx), NEW n \in Node
    PROVE  n \notin After(nx, n)
<1> SUFFICES ASSUME n \in After(nx, n) PROVE FALSE
  OBVIOUS
<1> DEFINE S == {k \in After(nx, n) : n \in Chain(nx, k)}
<1>1. nx[n] \in Node /\ After(nx, n) = Chain(nx, nx[n])
  BY DEF After, Links
<1>2. After(nx, n) \subseteq Node /\ nx[n] \in S
  BY <1>1, ChainBasics
<1>3. PICK u \in S : nx[u] \notin S
  <2>1. S \in SUBSET Node /\ S # {}
    BY <1>2
  <2>2. QED
    BY <2>1 DEF Acyclic
<1>4. CASE u = n
  BY <1>4, <1>3, <1>2
<1>5. CASE u # n
  <2>1. u \in Node /\ n \in After(nx, u)
    BY <1>5, <1>2, ChainStep
  <2>2. nx[u] # NULL /\ n \in Chain(nx, nx[u])
    BY <2>1 DEF After
  <2>3. nx[u] \in After(nx, n)
    BY <2>2, <1>1, ChainBasics DEF Closed
  <2>4. QED
    BY <2>2, <2>3, <1>3
<1>6. QED
  BY <1>4, <1>5

(* Of two cells of one walk, one is on the walk from the other. *)
LEMMA ChainLinear ==
    ASSUME NEW nx \in Links, NEW n \in Node,
           NEW a \in Chain(nx, n), NEW b \in Chain(nx, n)
    PROVE  b \in Chain(nx, a) \/ a \in Chain(nx, b)
<1> DEFINE S == {k \in Chain(nx, n) : a \in Chain(nx, k) \/ k \in Chain(nx, a)}
<1>1. a \in Node /\ Chain(nx, n) \subseteq Node /\ n \in S
  BY ChainBasics
<1>2. ASSUME NEW k \in S, nx[k] # NULL
      PROVE  nx[k] \in S
  <2>1. k \in Node /\ nx[k] \in Chain(nx, n)
    BY <1>1, <1>2, ChainBasics DEF Closed
  <2>2. CASE k \in Chain(nx, a)
    BY <2>1, <2>2, <1>1, <1>2, ChainBasics DEF Closed
  <2>3. CASE k \notin Chain(nx, a)
    <3>1. a \in Chain(nx, k) /\ a # k
      BY <2>3, <1>1, ChainBasics
    <3>2. a \in Chain(nx, nx[k])
      BY <3>1, <2>1, <1>2, ChainStep DEF After
    <3>3. QED
      BY <3>2, <2>1
  <2>4. QED
    BY <2>2, <2>3
<1>3. Closed(nx, S)
  BY <1>2 DEF Closed
<1>4. Chain(nx, n) \subseteq S
  BY <1>1, <1>3, ChainLeast
<1>5. QED
  BY <1>4

(* Every cell of a walk but its first has a predecessor on the walk. *)
LEMMA Predecessor ==
    ASSUME NEW nx \in Links, NEW n \in Node,
           NEW k \in Chain(nx, n), k # n
    PROVE  \E p \in Chain(nx, n) : nx[p] = k
<1> SUFFICES ASSUME \A p \in Chain(nx, n) : nx[p] # k PROVE FALSE
  OBVIOUS
<1>1. Closed(nx, Chain(nx, n) \ {k})
  BY ChainBasics DEF Closed
<1>2. n \in Chain(nx, n) \ {k} /\ Chain(nx, n) \ {k} \in SUBSET Node
  BY ChainBasics
<1>3. QED
  BY <1>1, <1>2, ChainLeast

(* FirstKept is what its name says: NULL when nothing is left after n, and *)
(* otherwise a cell after n, outside H, from which everything that is left *)
(* is reached.                                                             *)
LEMMA FirstKeptBasics ==
    ASSUME NEW nx \in Links, Acyclic(nx), NEW n \in Node, NEW H,
           NEW k, k = FirstKept(nx, H, n)
    PROVE  /\ k = NULL <=> After(nx, n) \subseteq H
           /\ k # NULL => /\ k \in After(nx, n) \ H
                          /\ After(nx, n) \ H \subseteq Chain(nx, k)
<1> DEFINE A == After(nx, n) \ H
<1> DEFINE U == {u \in After(nx, n) : A \subseteq Chain(nx, u)}
<1>1. CASE A = {}
  BY <1>1 DEF FirstKept
<1>2. CASE A # {}
  <2>1. nx[n] \in Node /\ After(nx, n) = Chain(nx, nx[n])
    BY <1>2 DEF After, Links
  <2>2. After(nx, n) \subseteq Node /\ nx[n] \in U /\ Closed(nx, After(nx, n))
    BY <2>1, ChainBasics
  <2>3. PICK u \in U : nx[u] \notin U
    <3>1. U \in SUBSET Node /\ U # {}
      BY <2>2
    <3>2. QED
      BY <3>1 DEF Acyclic
  <2>4. u \in A
    <3> SUFFICES ASSUME u \notin A PROVE FALSE
      OBVIOUS
    <3>1. u \in Node /\ A \subseteq After(nx, u)
      BY <2>2, ChainStep
    <3>2. nx[u] # NULL /\ A \subseteq Chain(nx, nx[u])
      BY <3>1, <1>2 DEF After
    <3>3. nx[u] \in After(nx, n)
      BY <3>2, <2>2 DEF Closed
    <3>4. QED
      BY <3>2, <3>3, <2>3
  <2>5. \E c \in A : A \subseteq Chain(nx, c)
    BY <2>4
  <2>6. k \in A /\ A \subseteq Chain(nx, k)
    BY <2>5, <1>2 DEF FirstKept
  <2>7. k # NULL
    BY <2>6, <2>2, NullAssumption
  <2>8. QED
    BY <2>6, <2>7, <1>2
<1>3. QED
  BY <1>1, <1>2

-----------------------------------------------------------------------------
(* What the operations do to well-formed queues. *)

(* enqueue keeps the queues free of cycles, whatever cell is enqueued.     *)
LEMMA LinkAcyclic ==
    ASSUME NEW nx \in Links, Acyclic(nx), NEW head \in Node, NEW t \in Node
    PROVE  Link(nx, head, t) \in Links /\ Acyclic(Link(nx, head, t))
<1> DEFINE e == runT(nx, head)
<1> DEFINE ny == Link(nx, head, t)
<1>1. e \in Node /\ nx[e] = NULL
  BY TailExists, ChainBasics
<1>2. /\ ny \in Links
      /\ \A n \in Node : ny[n] = IF n = t THEN NULL ELSE IF n = e THEN t ELSE nx[n]
  BY <1>1 DEF Link, Links
<1>3. ASSUME NEW S \in SUBSET Node, S # {}
      PROVE  \E n \in S : ny[n] \notin S
  <2>1. CASE t \in S
    BY <2>1, <1>2, NullAssumption
  <2>2. CASE t \notin S
    <3>1. PICK n \in S : nx[n] \notin S
      BY <1>3 DEF Acyclic
    <3>2. QED
      BY <3>1, <2>2, <1>2
  <2>3. QED
    BY <2>1, <2>2
<1>4. QED
  BY <1>2, <1>3 DEF Acyclic

(* enqueue of a cell no queue holds keeps every cell in one place.         *)
LEMMA LinkUnshared ==
    ASSUME NEW nx \in Links, Acyclic(nx), Unshared(nx),
           NEW head \in Node, NEW t \in Node, \A n \in Node : nx[n] # t
    PROVE  Unshared(Link(nx, head, t))
<1> DEFINE e == runT(nx, head)
<1> DEFINE ny == Link(nx, head, t)
<1>1. e \in Node /\ nx[e] = NULL
  BY TailExists, ChainBasics
<1>2. \A n \in Node : ny[n] = IF n = t THEN NULL ELSE IF n = e THEN t ELSE nx[n]
  BY <1>1 DEF Link, Links
<1>3. QED
  BY <1>2, NullAssumption DEF Unshared

(* dequeueSpecific links every cell to a cell that was after it, if to any, *)
(* and leaves the cells of other queues alone.                              *)
LEMMA UnlinkLinks ==
    ASSUME NEW nx \in Links, Acyclic(nx), NEW head \in Node, NEW hits
    PROVE  /\ Unlink(nx, head, hits) \in Links
           /\ \A n \in Node \ Chain(nx, head) : Unlink(nx, head, hits)[n] = nx[n]
           /\ \A n \in Chain(nx, head) \cap hits : Unlink(nx, head, hits)[n] = NULL
           /\ \A n \in Chain(nx, head) \ hits :
                /\ Unlink(nx, head, hits)[n] = FirstKept(nx, hits, n)
                /\ Unlink(nx, head, hits)[n] # NULL =>
                     Unlink(nx, head, hits)[n] \in After(nx, n) \ hits
<1>1. Chain(nx, head) \subseteq Node
  BY ChainBasics
<1>2. ASSUME NEW n \in Node, FirstKept(nx, hits, n) # NULL
      PROVE  FirstKept(nx, hits, n) \in After(nx, n) \ hits
  BY <1>2, FirstKeptBasics
<1>3. \A n \in Node : After(nx, n) \subseteq Node
  BY ChainStep, ChainBasics
<1>4. QED
  BY <1>1, <1>2, <1>3 DEF Unlink, Links

(* dequeueSpecific keeps the queues free of cycles. *)
LEMMA UnlinkAcyclic ==
    ASSUME NEW nx \in Links, Acyclic(nx), NEW head \in Node, NEW hits
    PROVE  Acyclic(Unlink(nx, head, hits))
<1> DEFINE C == Chain(nx, head)
<1> DEFINE ny == Unlink(nx, head, hits)
<1> SUFFICES ASSUME NEW S \in SUBSET Node, S # {}, \A n \in S : ny[n] \in S
             PROVE  FALSE
  BY DEF Acyclic
<1>1. C \subseteq Node /\ Closed(nx, C)
  BY ChainBasics
<1>2. CASE S \cap C = {}
  <2>1. \A n \in S : nx[n] \in S
    BY <1>2, UnlinkLinks
  <2>2. QED
    BY <2>1 DEF Acyclic
<1>3. CASE S \cap C # {}
  <2> DEFINE U == {u \in C : Chain(nx, u) \cap S # {}}
  <2>1. PICK u \in U : nx[u] \notin U
    <3>1. U # {}
      BY <1>3, <1>1, ChainBasics
    <3>2. QED
      BY <3>1, <1>1 DEF Acyclic
  <2>2. ASSUME After(nx, u) \cap S # {}
        PROVE  FALSE
    <3>1. nx[u] # NULL /\ Chain(nx, nx[u]) \cap S # {}
      BY <2>2 DEF After
    <3>2. nx[u] \in C
      BY <3>1, <1>1 DEF Closed
    <3>3. QED
      BY <3>1, <3>2, <2>1
  <2>3. u \in S
    BY <2>2, <1>1, ChainStep
  <2>4. ny[u] \in S /\ ny[u] # NULL
    BY <2>3, NullAssumption
  <2>5. ny[u] \in After(nx, u)
    BY <2>4, UnlinkLinks
  <2>6. QED
    BY <2>2, <2>4, <2>5
<1>4. QED
  BY <1>2, <1>3

(* dequeueSpecific keeps every cell in one place. *)
LEMMA UnlinkUnshared ==
    ASSUME NEW nx \in Links, Acyclic(nx), Unshared(nx),
           NEW head \in Node, NEW hits
    PROVE  Unshared(Unlink(nx, head, hits))
<1> DEFINE C == Chain(nx, head)
<1> DEFINE ny == Unlink(nx, head, hits)
<1> SUFFICES ASSUME NEW a \in Node, NEW b \in Node, ny[a] = ny[b], ny[a] # NULL
             PROVE  a = b
  BY DEF Unshared
<1>1. C \subseteq Node
  BY ChainBasics
<1>2. ASSUME NEW p \in Node \ C, NEW q \in C, ny[p] = ny[q], ny[q] # NULL
      PROVE  FALSE
  <2>1. nx[p] = ny[q] /\ ny[q] \in After(nx, q)
    BY <1>2, UnlinkLinks
  <2>2. ny[q] \in C /\ ny[q] \in Node
    BY <2>1, <1>1, ChainStep, ChainTransitive
  <2>3. CASE ny[q] = head
    <3>1. q \in Chain(nx, head) /\ head \in After(nx, q)
      BY <2>3, <2>1
    <3>2. CASE q = head
      BY <3>1, <3>2, NotAfterItself
    <3>3. CASE q # head
      <4>1. q \in After(nx, head)
        BY <3>3, ChainStep
      <4>2. nx[head] \in Node /\ After(nx, head) = Chain(nx, nx[head])
        BY <4>1 DEF After, Links
      <4>3. After(nx, q) \subseteq After(nx, head)
        BY <4>1, <4>2, <1>1, ChainTransitive, ChainStep
      <4>4. QED
        BY <4>3, <3>1, NotAfterItself
    <3>4. QED
      BY <3>2, <3>3
  <2>4. CASE ny[q] # head
    <3>1. PICK r \in C : nx[r] = ny[q]
      BY <2>2, <2>4, Predecessor
    <3>2. QED
      BY <3>1, <2>1, <1>1, <1>2 DEF Unshared
  <2>5. QED
    BY <2>3, <2>4
<1>3. ASSUME NEW p \in C, NEW q \in C, ny[p] = ny[q], ny[p] # NULL,
             q \in Chain(nx, p), p # q
      PROVE  FALSE
  <2> DEFINE k == ny[p]
  <2>1. /\ p \notin hits /\ q \notin hits
        /\ k = FirstKept(nx, hits, p)
        /\ k \in After(nx, q) /\ k \in Node
    BY <1>1, <1>3, UnlinkLinks, ChainStep, ChainBasics
  <2>2. q \in After(nx, p) \ hits
    BY <2>1, <1>1, <1>3, ChainStep
  <2>3. q \in Chain(nx, k)
    BY <2>1, <2>2, <1>1, <1>3, FirstKeptBasics
  <2>4. nx[q] \in Node /\ After(nx, q) = Chain(nx, nx[q])
    BY <2>1, <1>1 DEF After, Links
  <2>5. q \in After(nx, q)
    BY <2>1, <2>3, <2>4, ChainTransitive
  <2>6. QED
    BY <2>5, <1>1, NotAfterItself
<1>4. CASE a \in C /\ b \in C
  BY <1>3, <1>4, ChainLinear
<1>5. CASE a \notin C /\ b \notin C
  <2>1. nx[a] = nx[b] /\ nx[a] # NULL
    BY <1>5, UnlinkLinks
  <2>2. QED
    BY <2>1 DEF Unshared
<1>6. QED
  BY <1>2, <1>4, <1>5

(* A cell that dequeueSpecific removed is in no queue any more. *)
LEMMA UnlinkRemoves ==
    ASSUME NEW nx \in Links, Acyclic(nx), Unshared(nx), NEW head \in Node,
           NEW hits, NEW t \in Chain(nx, head) \cap hits, t # head
    PROVE  \A n \in Node : Unlink(nx, head, hits)[n] # t
<1> SUFFICES ASSUME NEW n \in Node, Unlink(nx, head, hits)[n] = t PROVE FALSE
  OBVIOUS
<1>1. t \in Node /\ t # NULL /\ Chain(nx, head) \subseteq Node
  BY ChainBasics, NullAssumption
<1>2. n \notin Chain(nx, head)
  BY <1>1, UnlinkLinks
<1>3. nx[n] = t
  BY <1>2, UnlinkLinks
<1>4. PICK p \in Chain(nx, head) : nx[p] = t
  BY Predecessor
<1>5. QED
  BY <1>1, <1>2, <1>3, <1>4 DEF Unshared

(* enqueue on an empty queue. *)
LEMMA LinkToEmpty ==
    ASSUME NEW nx \in Links, NEW head \in Node, NEW t \in Node, nx[head] = NULL
    PROVE  Link(nx, head, t) = [[nx EXCEPT ![head] = t] EXCEPT ![t] = NULL]
<1>1. Chain(nx, head) = {head}
  BY ChainStep DEF After
<1>2. runT(nx, head) = head
  BY <1>1 DEF runT
<1>3. QED
  BY <1>2 DEF Link

(* dequeueSpecific of all that a queue holds leaves it empty. *)
LEMMA UnlinkAll ==
    ASSUME NEW nx \in Links, Acyclic(nx), NEW head \in Node, NEW hits,
           head \notin hits, After(nx, head) \subseteq hits
    PROVE  Unlink(nx, head, hits) =
             [n \in Node |-> IF n \in Chain(nx, head) THEN NULL ELSE nx[n]]
<1>1. FirstKept(nx, hits, head) = NULL
  BY FirstKeptBasics
<1>2. Chain(nx, head) = {head} \cup After(nx, head)
  BY ChainStep
<1>3. QED
  BY <1>1, <1>2 DEF Unlink

-----------------------------------------------------------------------------
(* What the operations do to the walks. *)

(* The cells after the first are those of the walk that are not the first. *)
LEMMA AfterIsRest ==
    ASSUME NEW nx \in Links, Acyclic(nx), NEW n \in Node
    PROVE  After(nx, n) = Chain(nx, n) \ {n}
BY ChainStep, NotAfterItself

(* A walk is the same in every function that agrees on its cells. *)
LEMMA ChainAgree ==
    ASSUME NEW nx \in Links, NEW ny \in Links, NEW n \in Node,
           \A k \in Chain(nx, n) : ny[k] = nx[k]
    PROVE  Chain(ny, n) = Chain(nx, n)
<1>1. /\ n \in Chain(nx, n) /\ Chain(nx, n) \subseteq Node
      /\ Closed(nx, Chain(nx, n))
  BY ChainBasics
<1>2. Closed(ny, Chain(nx, n))
  BY <1>1 DEF Closed
<1>3. Chain(ny, n) \subseteq Chain(nx, n)
  BY <1>1, <1>2, ChainLeast
<1>4. /\ n \in Chain(ny, n) /\ Chain(ny, n) \subseteq Node
      /\ Closed(ny, Chain(ny, n))
  BY ChainBasics
<1>5. Closed(nx, Chain(ny, n))
  BY <1>3, <1>4 DEF Closed
<1>6. Chain(nx, n) \subseteq Chain(ny, n)
  BY <1>4, <1>5, ChainLeast
<1>7. QED
  BY <1>3, <1>6

(* A cell that nothing points at is only on the walk that starts at it. *)
LEMMA UnreachedCell ==
    ASSUME NEW nx \in Links, NEW n \in Node, NEW k, k # n,
           \A m \in Node : nx[m] # k
    PROVE  k \notin Chain(nx, n)
<1> SUFFICES ASSUME k \in Chain(nx, n) PROVE FALSE
  OBVIOUS
<1>1. PICK p \in Chain(nx, n) : nx[p] = k
  BY Predecessor
<1>2. QED
  BY <1>1, ChainBasics

(* Two queues whose heads nothing points at have no cell in common. *)
LEMMA ChainsDisjoint ==
    ASSUME NEW nx \in Links, Unshared(nx), NEW a \in Node, NEW b \in Node, a # b,
           \A n \in Node : nx[n] # a /\ nx[n] # b
    PROVE  Chain(nx, a) \cap Chain(nx, b) = {}
<1> DEFINE S == Chain(nx, a) \ Chain(nx, b)
<1>1. /\ a \in Chain(nx, a) /\ Chain(nx, a) \subseteq Node
      /\ Closed(nx, Chain(nx, a)) /\ Chain(nx, b) \subseteq Node
  BY ChainBasics
<1>2. a \in S
  BY <1>1, UnreachedCell
<1>3. ASSUME NEW n \in S, nx[n] # NULL
      PROVE  nx[n] \in S
  <2>1. nx[n] \in Chain(nx, a) /\ nx[n] # b
    BY <1>1, <1>3 DEF Closed
  <2> SUFFICES ASSUME nx[n] \in Chain(nx, b) PROVE FALSE
    BY <2>1
  <2>2. PICK p \in Chain(nx, b) : nx[p] = nx[n]
    BY <2>1, Predecessor
  <2>3. p = n
    BY <1>1, <1>3, <2>2 DEF Unshared
  <2>4. QED
    BY <2>2, <2>3
<1>4. Closed(nx, S)
  BY <1>3 DEF Closed
<1>5. Chain(nx, a) \subseteq S
  BY <1>1, <1>2, <1>4, ChainLeast
<1>6. QED
  BY <1>5

(* enqueue adds the new cell to the walk and nothing else. *)
LEMMA LinkAfter ==
    ASSUME NEW nx \in Links, Acyclic(nx), NEW head \in Node,
           NEW t \in Node, t \notin Chain(nx, head)
    PROVE  After(Link(nx, head, t), head) = After(nx, head) \cup {t}
<1> DEFINE e == runT(nx, head)
<1> DEFINE ny == Link(nx, head, t)
<1> DEFINE C == Chain(nx, head)
<1>1. /\ head \in C /\ C \subseteq Node /\ Closed(nx, C)
      /\ e \in C /\ nx[e] = NULL
  BY ChainBasics, TailExists
<1>2. ny \in Links /\ Acyclic(ny)
  BY LinkAcyclic
<1>3. /\ ny[e] = t /\ ny[t] = NULL
      /\ \A n \in Node \ {e, t} : ny[n] = nx[n]
  BY <1>1 DEF Link, Links
<1>4. Closed(ny, C \cup {t})
  BY <1>1, <1>3 DEF Closed
<1>5. Chain(ny, head) \subseteq C \cup {t}
  BY <1>1, <1>4, ChainLeast
<1>6. /\ head \in Chain(ny, head) /\ Chain(ny, head) \subseteq Node
      /\ Closed(ny, Chain(ny, head))
  BY <1>2, ChainBasics
<1>7. Closed(nx, Chain(ny, head) \ {t})
  <2> SUFFICES ASSUME NEW n \in Chain(ny, head) \ {t}, nx[n] # NULL
               PROVE  nx[n] \in Chain(ny, head) \ {t}
    BY DEF Closed
  <2>1. n \in C /\ n # e
    BY <1>1, <1>5
  <2>2. nx[n] \in C
    BY <1>1, <2>1 DEF Closed
  <2>3. ny[n] = nx[n]
    <3>1. n \in Node \ {e, t}
      BY <1>1, <2>1
    <3>2. QED
      BY <3>1, <1>3
  <2>4. QED
    BY <1>6, <2>2, <2>3 DEF Closed
<1>8. C \subseteq Chain(ny, head) \ {t}
  BY <1>1, <1>6, <1>7, ChainLeast
<1>9. t \in Chain(ny, head)
  <2>1. t # NULL
    BY NullAssumption
  <2>2. QED
    BY <1>1, <1>3, <1>6, <1>8, <2>1 DEF Closed
<1>10. Chain(ny, head) = C \cup {t}
  BY <1>5, <1>8, <1>9
<1>11. After(ny, head) = Chain(ny, head) \ {head} /\ After(nx, head) = C \ {head}
  BY <1>2, AfterIsRest
<1>12. QED
  BY <1>1, <1>10, <1>11

(* The removal takes the given cells off the walk and nothing else. *)
LEMMA UnlinkAfter ==
    ASSUME NEW nx \in Links, Acyclic(nx), NEW head \in Node,
           NEW hits, head \notin hits
    PROVE  After(Unlink(nx, head, hits), head) = After(nx, head) \ hits
<1> DEFINE ny == Unlink(nx, head, hits)
<1> DEFINE C == Chain(nx, head)
<1>1. head \in C /\ C \subseteq Node /\ Closed(nx, C)
  BY ChainBasics
<1>2. /\ ny \in Links /\ Acyclic(ny)
      /\ \A n \in C \ hits : ny[n] = FirstKept(nx, hits, n)
  BY UnlinkLinks, UnlinkAcyclic
<1> HIDE DEF ny
<1>3. \A n \in C : Chain(nx, n) \subseteq C /\ After(nx, n) = Chain(nx, n) \ {n}
  BY <1>1, ChainTransitive, AfterIsRest
<1>4. \A n \in C \ hits :
        /\ ny[n] = NULL => After(nx, n) \subseteq hits
        /\ ny[n] # NULL => /\ ny[n] \in After(nx, n) \ hits
                           /\ After(nx, n) \ hits \subseteq Chain(nx, ny[n])
  BY <1>1, <1>2, FirstKeptBasics
<1>5. Closed(ny, C \ hits)
  BY <1>3, <1>4 DEF Closed
<1>6. Chain(ny, head) \subseteq C \ hits
  BY <1>1, <1>5, ChainLeast
<1>7. ASSUME NEW k \in C \ hits PROVE k \in Chain(ny, head)
  <2> DEFINE S == {n \in C \ hits : k \in Chain(nx, n) /\ k \notin Chain(ny, n)}
  <2> SUFFICES ASSUME k \notin Chain(ny, head) PROVE FALSE
    OBVIOUS
  <2>1. head \in S /\ S \subseteq Node
    BY <1>1
  <2>2. PICK n \in S : ny[n] \notin S
    BY <1>2, <2>1 DEF Acyclic
  <2>3. n \in Node /\ n # k
    BY <1>1, <1>2, ChainBasics
  <2>4. k \in After(nx, n) \ hits
    BY <1>3, <2>3
  <2>5. ny[n] # NULL /\ ny[n] \in C \ hits /\ k \in Chain(nx, ny[n])
    BY <1>3, <1>4, <2>4
  <2>6. k \in Chain(ny, ny[n])
    BY <2>2, <2>5
  <2>7. ny[n] \in Chain(ny, n)
    BY <1>2, <2>3, <2>5, ChainBasics DEF Closed
  <2>8. QED
    BY <1>2, <2>3, <2>6, <2>7, ChainTransitive
<1>8. Chain(ny, head) = C \ hits
  BY <1>6, <1>7
<1>9. After(ny, head) = Chain(ny, head) \ {head} /\ After(nx, head) = C \ {head}
  BY <1>2, AfterIsRest
<1>10. QED
  BY <1>8, <1>9 DEF ny

(* The removal makes a cell point only at a cell something pointed at. *)
LEMMA UnlinkPointers ==
    ASSUME NEW nx \in Links, Acyclic(nx), NEW head \in Node, NEW hits,
           NEW k \in Node, \A m \in Node : nx[m] # k
    PROVE  \A m \in Node : Unlink(nx, head, hits)[m] # k
<1> SUFFICES ASSUME NEW m \in Node, Unlink(nx, head, hits)[m] = k PROVE FALSE
  OBVIOUS
<1>1. m \in Chain(nx, head) \ hits /\ k = FirstKept(nx, hits, m)
  BY UnlinkLinks, NullAssumption
<1>2. k \in After(nx, m)
  BY <1>1, FirstKeptBasics, NullAssumption
<1>3. k \in Chain(nx, m) /\ k # m
  BY <1>2, AfterIsRest
<1>4. QED
  BY <1>3, UnreachedCell

(* A walk that starts outside a queue has no cell in common with it.       *)
LEMMA OutsideApart ==
    ASSUME NEW nx \in Links, Unshared(nx), NEW head \in Node, NEW n \in Node,
           n \notin Chain(nx, head), \A m \in Node : nx[m] # head
    PROVE  Chain(nx, n) \cap Chain(nx, head) = {}
<1> DEFINE S == Chain(nx, n) \ Chain(nx, head)
<1>1. /\ n \in S /\ Chain(nx, n) \subseteq Node
      /\ Closed(nx, Chain(nx, n)) /\ Chain(nx, head) \subseteq Node
  BY ChainBasics
<1>2. ASSUME NEW m \in S, nx[m] # NULL
      PROVE  nx[m] \in S
  <2>1. m \in Node /\ nx[m] \in Chain(nx, n) /\ nx[m] # head
    BY <1>1, <1>2 DEF Closed
  <2> SUFFICES ASSUME nx[m] \in Chain(nx, head) PROVE FALSE
    BY <2>1
  <2>2. PICK p \in Chain(nx, head) : nx[p] = nx[m]
    BY <2>1, Predecessor
  <2>3. p = m
    BY <1>1, <1>2, <2>1, <2>2 DEF Unshared
  <2>4. QED
    BY <2>2, <2>3
<1>3. Closed(nx, S)
  BY <1>2 DEF Closed
<1>4. Chain(nx, n) \subseteq S
  BY <1>1, <1>3, ChainLeast
<1>5. QED
  BY <1>4

(* Every walk that ends in a queue ends at its tail. *)
LEMMA TailIsOne ==
    ASSUME NEW nx \in Links, Acyclic(nx), NEW head \in Node,
           NEW n \in Chain(nx, head)
    PROVE  runT(nx, n) = runT(nx, head)
<1> DEFINE e == runT(nx, head)
<1> DEFINE f == runT(nx, n)
<1>1. n \in Node /\ Chain(nx, n) \subseteq Chain(nx, head)
  BY ChainTransitive
<1>2. /\ e \in Chain(nx, head) /\ nx[e] = NULL
      /\ f \in Chain(nx, head) /\ nx[f] = NULL
  BY <1>1, TailExists
<1>3. e \in Node /\ f \in Node
  BY <1>2, ChainBasics
<1> HIDE DEF e, f
<1>4. Chain(nx, e) = {e} /\ Chain(nx, f) = {f}
  BY <1>2, <1>3, ChainStep DEF After
<1>5. e \in Chain(nx, f) \/ f \in Chain(nx, e)
  BY <1>2, ChainLinear
<1>6. QED
  BY <1>4, <1>5 DEF e, f

(* What enqueue does to the walk from any cell: the new cell comes behind  *)
(* all cells of its queue, and no other walk changes.                      *)
LEMMA LinkBehind ==
    ASSUME NEW nx \in Links, Acyclic(nx), Unshared(nx), NEW head \in Node,
           NEW t \in Node, t # head, nx[t] = NULL,
           \A m \in Node : nx[m] # head /\ nx[m] # t
    PROVE  \A n \in Node :
             After(Link(nx, head, t), n) =
               IF n \in Chain(nx, head) THEN After(nx, n) \cup {t} ELSE After(nx, n)
<1> SUFFICES ASSUME NEW n \in Node
             PROVE  After(Link(nx, head, t), n) =
                      IF n \in Chain(nx, head) THEN After(nx, n) \cup {t}
                      ELSE After(nx, n)
  OBVIOUS
<1> DEFINE e == runT(nx, head)
<1> DEFINE ny == Link(nx, head, t)
<1>1. t \notin Chain(nx, head)
  BY UnreachedCell
<1>2. CASE n \in Chain(nx, head)
  <2>1. Link(nx, n, t) = ny
    BY <1>2, TailIsOne DEF Link
  <2>2. t \notin Chain(nx, n)
    BY <1>1, <1>2, ChainTransitive
  <2>3. QED
    BY <1>2, <2>1, <2>2, LinkAfter
<1>3. CASE n \notin Chain(nx, head)
  <2>1. /\ e \in Chain(nx, head) /\ e \in Node
        /\ Chain(nx, n) \subseteq Node /\ n \in Chain(nx, n)
    BY TailExists, ChainBasics
  <2>2. ny \in Links /\ Acyclic(ny)
    BY <1>1, LinkAcyclic
  <2>3. e \notin Chain(nx, n)
    BY <1>3, <2>1, OutsideApart
  <2>4. \A k \in Chain(nx, n) : ny[k] = nx[k]
    BY <2>1, <2>3 DEF Link, Links
  <2>5. Chain(ny, n) = Chain(nx, n)
    BY <2>2, <2>4, ChainAgree
  <2>6. After(ny, n) = After(nx, n)
    BY <2>2, <2>5, AfterIsRest
  <2>7. QED
    BY <1>3, <2>6
<1>4. QED
  BY <1>2, <1>3

(* What dequeueSpecific does to the walk from any cell: the cells it takes *)
(* are gone from every walk, and there is nothing behind them.             *)
LEMMA UnlinkBehind ==
    ASSUME NEW nx \in Links, Acyclic(nx), Unshared(nx), NEW head \in Node,
           NEW hits, head \notin hits, hits \subseteq Chain(nx, head),
           \A m \in Node : nx[m] # head
    PROVE  \A n \in Node :
             After(Unlink(nx, head, hits), n) =
               IF n \in hits THEN {} ELSE After(nx, n) \ hits
<1> SUFFICES ASSUME NEW n \in Node
             PROVE  After(Unlink(nx, head, hits), n) =
                      IF n \in hits THEN {} ELSE After(nx, n) \ hits
  OBVIOUS
<1> DEFINE ny == Unlink(nx, head, hits)
<1>1. ny \in Links /\ Acyclic(ny)
  BY UnlinkLinks, UnlinkAcyclic
<1>2. CASE n \in hits
  <2>1. ny[n] = NULL
    BY <1>2, UnlinkLinks
  <2>2. QED
    BY <1>2, <2>1 DEF After
<1>3. CASE n \in Chain(nx, head) \ hits
  <2> DEFINE nz == Unlink(nx, n, hits)
  <2>1. Chain(nx, n) \subseteq Chain(nx, head) /\ Chain(nx, n) \subseteq Node
    BY <1>3, ChainTransitive, ChainBasics
  <2>2. nz \in Links /\ Acyclic(nz)
    BY <1>3, UnlinkLinks, UnlinkAcyclic
  <2>3. \A k \in Chain(nx, n) : ny[k] = nz[k]
    BY <2>1 DEF Unlink
  <2>4. After(nz, n) = After(nx, n) \ hits
    BY <1>3, UnlinkAfter
  <2> HIDE DEF ny, nz
  <2>5. Chain(nz, n) \subseteq Chain(nx, n)
    <3>1. Chain(nz, n) = {n} \cup After(nz, n) /\ Chain(nx, n) = {n} \cup After(nx, n)
      BY <2>2, ChainStep
    <3>2. QED
      BY <3>1, <2>4
  <2>6. Chain(ny, n) = Chain(nz, n)
    BY <1>1, <2>2, <2>3, <2>5, ChainAgree
  <2>7. After(ny, n) = After(nz, n)
    BY <1>1, <2>2, <2>6, AfterIsRest
  <2>8. QED
    BY <1>3, <2>4, <2>7 DEF ny
<1>4. CASE n \notin Chain(nx, head)
  <2>1. Chain(nx, n) \cap Chain(nx, head) = {} /\ Chain(nx, n) \subseteq Node
    BY <1>4, OutsideApart, ChainBasics
  <2>2. \A k \in Chain(nx, n) : ny[k] = nx[k]
    BY <2>1, UnlinkLinks
  <2>3. Chain(ny, n) = Chain(nx, n)
    BY <1>1, <2>2, ChainAgree
  <2>4. After(ny, n) = After(nx, n) /\ After(nx, n) \subseteq Chain(nx, n)
    BY <1>1, <2>3, AfterIsRest
  <2>5. QED
    BY <1>4, <2>1, <2>4
<1>5. QED
  BY <1>2, <1>3, <1>4

(* The cell that stands where k stood when a and b have changed places. *)
Mirror(a, b, k) == IF k = a THEN b ELSE IF k = b THEN a ELSE k

(* When two cells of a queue change places the queues stay well-formed and *)
(* the queue keeps its cells (my_pthread_t_2.h:150-158).                   *)
LEMMA ExchangeCells ==
    ASSUME NEW nx \in Links, Acyclic(nx), Unshared(nx), NEW head \in Node,
           NEW a \in After(nx, head), NEW b \in After(nx, head),
           NEW ny \in Links,
           \A n \in Node : ny[n] = Mirror(a, b, nx[Mirror(a, b, n)])
    PROVE  Acyclic(ny) /\ Unshared(ny) /\ After(ny, head) = After(nx, head)
<1> DEFINE m(k) == Mirror(a, b, k)
<1> DEFINE C == Chain(nx, head)
<1> DEFINE D == Chain(ny, head)
<1>1. /\ After(nx, head) = C \ {head} /\ C \subseteq Node /\ head \in C
      /\ \A n \in C : nx[n] \in C \cup {NULL}
  BY AfterIsRest, ChainBasics DEF Closed
<1>2. /\ a \in C /\ b \in C /\ a # head /\ b # head
      /\ a \in Node /\ b \in Node /\ a # NULL /\ b # NULL
  BY <1>1, NullAssumption
<1>3. /\ \A k : m(m(k)) = k
      /\ \A k \in Node : m(k) \in Node
      /\ \A k \in C : m(k) \in C
      /\ m(NULL) = NULL /\ m(head) = head
  BY <1>2 DEF Mirror
<1>4. \A n \in Node : ny[n] = m(nx[m(n)]) /\ nx[n] \in Node \cup {NULL}
  BY DEF Links
<1> HIDE DEF m
<1>5. Acyclic(ny)
  <2> SUFFICES ASSUME NEW S \in SUBSET Node, S # {}
               PROVE  \E n \in S : ny[n] \notin S
    BY DEF Acyclic
  <2> DEFINE T == {k \in Node : m(k) \in S}
  <2>1. T # {}
    <3>1. PICK k : k \in S
      OBVIOUS
    <3>2. m(k) \in T
      BY <3>1, <1>3
    <3>3. QED
      BY <3>2
  <2>2. PICK k \in T : nx[k] \notin T
    BY <2>1 DEF Acyclic
  <2>3. m(k) \in S /\ ny[m(k)] = m(nx[k])
    BY <1>3, <1>4
  <2>4. m(nx[k]) \notin S
    BY <2>2, <1>3, <1>4, NullAssumption
  <2>5. QED
    BY <2>3, <2>4
<1>6. Unshared(ny)
  <2> SUFFICES ASSUME NEW i \in Node, NEW j \in Node, ny[i] = ny[j], ny[i] # NULL
               PROVE  i = j
    BY DEF Unshared
  <2>1. m(i) \in Node /\ m(j) \in Node
    BY <1>3
  <2>2. nx[m(i)] = nx[m(j)] /\ nx[m(i)] # NULL
    BY <1>3, <1>4
  <2>3. m(i) = m(j)
    BY <2>1, <2>2 DEF Unshared
  <2>4. QED
    BY <2>3, <1>3
<1>7. D \subseteq C
  <2>1. Closed(ny, C)
    <3> SUFFICES ASSUME NEW n \in C PROVE ny[n] \in C \cup {NULL}
      BY DEF Closed
    <3>1. nx[m(n)] \in C \cup {NULL}
      BY <1>1, <1>3
    <3>2. QED
      BY <3>1, <1>1, <1>3, <1>4
  <2>2. QED
    BY <2>1, <1>1, ChainLeast
<1>8. C \subseteq D
  <2> DEFINE E == {k \in C : m(k) \in D}
  <2>1. D \subseteq Node /\ head \in D /\ \A n \in D : ny[n] \in D \cup {NULL}
    BY ChainBasics DEF Closed
  <2>2. Closed(nx, E)
    <3> SUFFICES ASSUME NEW n \in E PROVE nx[n] \in E \cup {NULL}
      BY DEF Closed
    <3>1. nx[n] \in C \cup {NULL} /\ m(n) \in Node
      BY <1>1, <1>3
    <3>2. ny[m(n)] = m(nx[n]) /\ ny[m(n)] \in D \cup {NULL}
      BY <2>1, <3>1, <1>3, <1>4
    <3>3. CASE ny[m(n)] = NULL
      BY <3>2, <3>3, <1>3
    <3>4. CASE ny[m(n)] # NULL
      BY <3>1, <3>2, <3>4, <1>3
    <3>5. QED
      BY <3>3, <3>4
  <2>3. C \subseteq E
    BY <2>1, <2>2, <1>1, <1>3, ChainLeast
  <2>4. QED
    BY <2>3, <1>3
<1>9. After(ny, head) = After(nx, head)
  BY <1>1, <1>5, <1>7, <1>8, AfterIsRest
<1>10. QED
  BY <1>5, <1>6, <1>9

=============================================================================
