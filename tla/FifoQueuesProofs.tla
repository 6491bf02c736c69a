-------------------------- MODULE FifoQueuesProofs --------------------------
(***************************************************************************)
(* Proofs that what FifoQueues promises are lines, for every set of queues *)
(* and of threads that are different things: FifoQueues states the order   *)
(* of a line by what is behind what, and this is an order.                 *)
(***************************************************************************)
EXTENDS FifoQueues, TLAPS

Place == Queue \cup Thread

(* The lines b are in order. *)
InOrder(b) ==
    /\ b \in [Place -> SUBSET Thread]
    /\ \A q \in Queue :
        /\ \A p \in Queue \ {q} : b[p] \cap b[q] = {}
        /\ \A a \in b[q] : a \notin b[a] /\ b[a] \subseteq b[q]
        /\ \A a, c \in b[q] :
              /\ a = c \/ a \in b[c] \/ c \in b[a]
              /\ c \in b[a] => b[c] \subseteq b[a]

(* A thread that is in no line has nothing behind it and is behind none.   *)
OnlyInLine(b) ==
    \A t \in Thread :
        (\A q \in Queue : t \notin b[q]) => b[t] = {} /\ \A n \in Place : t \notin b[n]

IInv ==
    /\ Queue \cap Thread = {}
    /\ InOrder(behind)
    /\ OnlyInLine(behind)

(* The lines without S, for lines other than the current ones. *)
Left(b, S) == [n \in Place |-> IF n \in S THEN {} ELSE b[n] \ S]

LEMMA LeftInOrder ==
    ASSUME Queue \cap Thread = {}, NEW b, InOrder(b), OnlyInLine(b),
           NEW S \in SUBSET Thread
    PROVE  /\ InOrder(Left(b, S)) /\ OnlyInLine(Left(b, S))
           /\ \A t \in S : \A n \in Place : t \notin Left(b, S)[n]
<1> DEFINE c == Left(b, S)
<1>1. /\ b \in [Place -> SUBSET Thread] /\ c \in [Place -> SUBSET Thread]
      /\ \A n \in Place : c[n] = IF n \in S THEN {} ELSE b[n] \ S
  BY DEF Left, InOrder
<1>2. \A q \in Queue : q \in Place /\ q \notin S /\ c[q] = b[q] \ S
  BY <1>1 DEF Place
<1>3. \A t \in Thread : t \in Place
  BY DEF Place
<1> HIDE DEF c
<1>4. InOrder(c)
  <2> SUFFICES ASSUME NEW q \in Queue
               PROVE  /\ \A p \in Queue \ {q} : c[p] \cap c[q] = {}
                      /\ \A x \in c[q] : x \notin c[x] /\ c[x] \subseteq c[q]
                      /\ \A x, y \in c[q] :
                            /\ x = y \/ x \in c[y] \/ y \in c[x]
                            /\ y \in c[x] => c[y] \subseteq c[x]
    BY <1>1 DEF InOrder
  <2>1. \A x \in c[q] : x \in b[q] \ S /\ c[x] = b[x] \ S
    BY <1>1, <1>2, <1>3
  <2>2. \A p \in Queue \ {q} : c[p] \cap c[q] = {}
    BY <1>2 DEF InOrder
  <2>3. \A x \in c[q] : x \notin c[x] /\ c[x] \subseteq c[q]
    BY <1>2, <2>1 DEF InOrder
  <2>4. \A x, y \in c[q] : /\ x = y \/ x \in c[y] \/ y \in c[x]
                           /\ y \in c[x] => c[y] \subseteq c[x]
    BY <1>2, <2>1 DEF InOrder
  <2>5. QED
    BY <2>2, <2>3, <2>4
<1>5. \A t \in S : \A n \in Place : t \notin c[n]
  BY <1>1
<1>6. OnlyInLine(c)
  <2> SUFFICES ASSUME NEW t \in Thread, \A q \in Queue : t \notin c[q]
               PROVE  c[t] = {} /\ \A n \in Place : t \notin c[n]
    BY DEF OnlyInLine
  <2>1. CASE t \in S
    BY <2>1, <1>1, <1>3, <1>5
  <2>2. CASE t \notin S
    <3>1. \A q \in Queue : t \notin b[q]
      BY <1>2, <2>2
    <3>2. b[t] = {} /\ \A n \in Place : t \notin b[n]
      BY <3>1 DEF OnlyInLine
    <3>3. QED
      BY <1>1, <1>3, <3>2
  <2>3. QED
    BY <2>1, <2>2
<1>7. QED
  BY <1>4, <1>5, <1>6 DEF c

(* A thread that is in no line may take the last place of any. *)
LEMMA LastInOrder ==
    ASSUME Queue \cap Thread = {}, NEW b, InOrder(b), OnlyInLine(b),
           NEW t \in Thread, NEW q \in Queue, \A p \in Queue : t \notin b[p]
    PROVE  /\ InOrder(WithLast(b, q, t)) /\ OnlyInLine(WithLast(b, q, t))
           /\ WithLast(b, q, t)[t] = {}
           /\ \A n \in Place : WithLast(b, q, t)[n] \subseteq b[n] \cup {t}
<1> DEFINE c == WithLast(b, q, t)
<1>1. /\ b \in [Place -> SUBSET Thread] /\ c \in [Place -> SUBSET Thread]
      /\ \A n \in Place : c[n] = IF n = q \/ n \in b[q] THEN b[n] \cup {t} ELSE b[n]
  BY DEF WithLast, InOrder, Place
<1>2. b[t] = {} /\ \A n \in Place : t \notin b[n]
  BY DEF OnlyInLine
<1>3. /\ \A n \in Thread : n \in Place
      /\ \A p \in Queue : /\ p \in Place /\ p \notin Thread
                          /\ c[p] = IF p = q THEN b[p] \cup {t} ELSE b[p]
  BY <1>1 DEF Place
<1>4. c[t] = {} /\ t \in Place
  BY <1>1, <1>2, <1>3
<1> HIDE DEF c
<1>5. InOrder(c)
  <2> SUFFICES ASSUME NEW r \in Queue
               PROVE  /\ \A p \in Queue \ {r} : c[p] \cap c[r] = {}
                      /\ \A x \in c[r] : x \notin c[x] /\ c[x] \subseteq c[r]
                      /\ \A x, y \in c[r] :
                            /\ x = y \/ x \in c[y] \/ y \in c[x]
                            /\ y \in c[x] => c[y] \subseteq c[x]
    BY <1>1 DEF InOrder
  <2>1. \A p \in Queue \ {r} : b[p] \cap b[r] = {}
    BY DEF InOrder
  <2>2. /\ \A x \in b[r] : x \notin b[x] /\ b[x] \subseteq b[r]
        /\ \A x, y \in b[r] : /\ x = y \/ x \in b[y] \/ y \in b[x]
                              /\ y \in b[x] => b[y] \subseteq b[x]
    BY DEF InOrder
  <2>3. ASSUME NEW p \in Queue \ {r}
        PROVE  c[p] \cap c[r] = {}
    <3>1. b[p] \cap b[r] = {} /\ t \notin b[p] /\ t \notin b[r] /\ p # r
      BY <1>2, <1>3, <2>1
    <3>2. c[p] = (IF p = q THEN b[p] \cup {t} ELSE b[p])
          /\ c[r] = (IF r = q THEN b[r] \cup {t} ELSE b[r])
      BY <1>3
    <3>3. QED
      BY <3>1, <3>2
  <2>4. CASE r # q
    <3>1. c[r] = b[r] /\ c[r] \subseteq Thread
      BY <1>1, <1>3, <2>4
    <3>2. \A x \in c[r] : c[x] = b[x]
      <4>1. b[q] \cap b[r] = {}
        BY <2>1, <2>4
      <4>2. QED
        BY <1>1, <1>3, <3>1, <4>1
    <3>3. QED
      BY <2>2, <2>3, <3>1, <3>2
  <2>5. CASE r = q
    <3>1. c[r] = b[r] \cup {t} /\ b[r] \subseteq Thread
      BY <1>1, <1>3, <2>5
    <3>2. \A x \in b[r] : c[x] = b[x] \cup {t} /\ x # t
      BY <1>1, <1>2, <1>3, <2>5, <3>1
    <3>3. \A x \in c[r] : x \notin c[x] /\ c[x] \subseteq c[r]
      BY <1>4, <2>2, <3>1, <3>2
    <3>4. \A x, y \in c[r] : x = y \/ x \in c[y] \/ y \in c[x]
      BY <2>2, <3>1, <3>2
    <3>5. \A x, y \in c[r] : y \in c[x] => c[y] \subseteq c[x]
      BY <1>4, <2>2, <3>1, <3>2
    <3>6. QED
      BY <2>3, <3>3, <3>4, <3>5
  <2>6. QED
    BY <2>4, <2>5
<1>6. OnlyInLine(c)
  <2> SUFFICES ASSUME NEW s \in Thread, \A p \in Queue : s \notin c[p]
               PROVE  c[s] = {} /\ \A n \in Place : s \notin c[n]
    BY DEF OnlyInLine
  <2>1. s # t /\ \A p \in Queue : s \notin b[p]
    BY <1>3
  <2>2. b[s] = {} /\ \A n \in Place : s \notin b[n]
    BY <2>1 DEF OnlyInLine
  <2>3. QED
    BY <1>1, <1>3, <2>1, <2>2
<1>7. QED
  BY <1>1, <1>4, <1>5, <1>6 DEF c

-----------------------------------------------------------------------------
(* The actions. *)

(* Of two threads one at most is behind the other. *)
LEMMA OneIsBehind ==
    ASSUME NEW b, InOrder(b), OnlyInLine(b), NEW x \in Thread, NEW y \in Thread,
           y \in b[x]
    PROVE  x \notin b[y]
<1> SUFFICES ASSUME x \in b[y] PROVE FALSE
  OBVIOUS
<1>1. x \in Place /\ y \in Place
  BY DEF Place
<1>2. PICK q \in Queue : x \in b[q]
  BY <1>1 DEF OnlyInLine
<1>3. y \in b[q] /\ x \notin b[x]
  BY <1>2 DEF InOrder
<1>4. b[y] \subseteq b[x]
  BY <1>2, <1>3 DEF InOrder
<1>5. QED
  BY <1>3, <1>4

(* When behind some threads one more thread comes and nothing is behind    *)
(* it, no other is overtaken.                                              *)
LEMMA LastOvertakesNone ==
    ASSUME NEW b, InOrder(b), OnlyInLine(b), NEW c, NEW t,
           c[t] = {}, \A n \in Place : c[n] \subseteq b[n] \cup {t}
    PROVE  \A x, y \in Thread : y \in b[x] /\ x \in c[y] => c[x] = {}
<1> SUFFICES ASSUME NEW x \in Thread, NEW y \in Thread, y \in b[x], x \in c[y]
             PROVE  c[x] = {}
  OBVIOUS
<1>1. x \notin b[y]
  BY OneIsBehind
<1>2. x = t
  BY <1>1 DEF Place
<1>3. QED
  BY <1>2

(* Every step keeps the lines in order and overtakes nobody. *)
LEMMA StepKeeps ==
    ASSUME IInv, [Next]_vars
    PROVE  /\ IInv'
           /\ \A a, b \in Thread : b \in behind[a] /\ a \in behind'[b] => behind'[a] = {}
<1> DEFINE kept == \A a, b \in Thread : b \in behind[a] /\ a \in behind'[b] => behind'[a] = {}
<1>1. /\ Queue \cap Thread = {} /\ InOrder(behind) /\ OnlyInLine(behind)
      /\ behind \in [Place -> SUBSET Thread]
  BY DEF IInv, InOrder
<1>2. \A S : Without(S) = Left(behind, S)
  BY DEF Without, Left, Place
<1>3. ASSUME behind' = behind
      PROVE  IInv' /\ kept
  <2>1. \A a, b \in Thread : b \in behind[a] => a \notin behind[b]
    BY <1>1, OneIsBehind
  <2>2. QED
    BY <1>1, <1>3, <2>1 DEF IInv
<1>4. ASSUME NEW t \in Thread, NEW q \in Queue, Join(t, q)
      PROVE  IInv' /\ kept
  <2>1. behind' = WithLast(behind, q, t) /\ \A p \in Queue : t \notin behind[p]
    BY <1>4 DEF Join, Waiting
  <2>2. /\ InOrder(behind') /\ OnlyInLine(behind')
        /\ behind'[t] = {} /\ \A n \in Place : behind'[n] \subseteq behind[n] \cup {t}
    BY <1>1, <2>1, LastInOrder
  <2>3. kept
    BY <1>1, <2>2, LastOvertakesNone
  <2>4. QED
    BY <1>1, <2>2, <2>3 DEF IInv
<1>5. ASSUME NEW t \in Thread, NEW p \in Queue, NEW q \in Queue, Move(t, p, q)
      PROVE  IInv' /\ kept
  <2> DEFINE c == Left(behind, {t})
  <2>1. behind' = WithLast(c, q, t)
    BY <1>2, <1>5 DEF Move
  <2>2. InOrder(c) /\ OnlyInLine(c) /\ \A n \in Place : t \notin c[n]
    BY <1>1, LeftInOrder
  <2>3. \A n \in Place : c[n] \subseteq behind[n]
    BY DEF Left
  <2>4. \A r \in Queue : t \notin c[r]
    BY <2>2 DEF Place
  <2> HIDE DEF c
  <2>5. /\ InOrder(behind') /\ OnlyInLine(behind')
        /\ behind'[t] = {} /\ \A n \in Place : behind'[n] \subseteq c[n] \cup {t}
    BY <1>1, <2>1, <2>2, <2>4, LastInOrder
  <2>6. \A n \in Place : behind'[n] \subseteq behind[n] \cup {t}
    BY <2>3, <2>5
  <2>7. kept
    BY <1>1, <2>5, <2>6, LastOvertakesNone
  <2>8. QED
    BY <1>1, <2>5, <2>7 DEF IInv
<1>6. ASSUME NEW q \in Queue, Sweep(q)
      PROVE  IInv' /\ kept
  <2> DEFINE S == marked \cap behind[q]
  <2>1. behind' = Left(behind, S)
    BY <1>2, <1>6 DEF Sweep
  <2>2. S \in SUBSET Thread
    BY <1>1 DEF Place
  <2>3. \A n \in Place : behind'[n] \subseteq behind[n]
    BY <2>1 DEF Left
  <2> HIDE DEF S
  <2>4. InOrder(behind') /\ OnlyInLine(behind')
    BY <1>1, <2>1, <2>2, LeftInOrder
  <2>5. kept
    BY <1>1, <2>3, OneIsBehind DEF Place
  <2>6. QED
    BY <1>1, <2>4, <2>5 DEF IInv
<1>7. QED
  BY <1>3, <1>4, <1>5, <1>6 DEF Next, vars, Mark

-----------------------------------------------------------------------------
(* Init starts with empty lines. *)
LEMMA InitInv == Queue \cap Thread = {} /\ Init => IInv
BY DEF Init, IInv, InOrder, OnlyInLine, Place

(* The lines are always in order. *)
LEMMA Invariance ==
    ASSUME Queue \cap Thread = {}
    PROVE  Spec => []IInv
<1>1. Init => IInv
  BY InitInv
<1>2. IInv /\ [Next]_vars => IInv'
  BY StepKeeps
<1>3. QED
  BY <1>1, <1>2, PTL DEF Spec

(* What is behind what is an order on every queue: the steps that          *)
(* FifoQueues allows move threads between lines and nothing else           *)
(* (my_pthread.c:174-179, 226-233).                                        *)
THEOREM LinesAreOrdered ==
    ASSUME Queue \cap Thread = {}
    PROVE  Spec => []Ordered
<1>1. IInv => Ordered
  BY DEF IInv, InOrder, Ordered
<1>2. QED
  BY <1>1, Invariance, PTL

(* A thread falls behind another only by going to the end of a line: the   *)
(* order in which threads wait is the order in which they came             *)
(* (my_pthread.c:174-179, 226-233).                                        *)
THEOREM NobodyIsOvertaken ==
    ASSUME Queue \cap Thread = {}
    PROVE  Spec => NoOvertaking
<1>1. IInv /\ [Next]_vars =>
        [\A a, b \in Thread : b \in behind[a] /\ a \in behind'[b] => behind'[a] = {}]_vars
  BY StepKeeps
<1>2. QED
  BY <1>1, Invariance, PTL DEF Spec, NoOvertaking

=============================================================================
