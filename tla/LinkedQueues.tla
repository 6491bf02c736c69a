---------------------------- MODULE LinkedQueues ----------------------------
(***************************************************************************)
(* The singly linked queues that both thread libraries of the repository   *)
(* are built on (my_pthread.c:82-223 and, line for line the same code,     *)
(* my_pthread_t_2.h:34-121, 178-209): a queue is a head cell that is never *)
(* scheduled and the cells reached from it through the field `next'.       *)
(*                                                                         *)
(* The `next' fields of all cells are one function nx.  Every operator     *)
(* here is a pure function of nx, so that modules whose state holds such a *)
(* function can compose them, and none is RECURSIVE, so that theorems can  *)
(* be proved about them.                                                   *)
(***************************************************************************)
EXTENDS Naturals

CONSTANTS
    Node,   \* the cells that can be linked: queue heads and thread blocks
    NULL    \* the null pointer

ASSUME NullAssumption == NULL \notin Node

Links == [Node -> Node \cup {NULL}]

Closed(nx, S) == \A n \in S : nx[n] \in S \cup {NULL}

(* The cells a walk from n visits, n included: what                        *)
(* `while (ptr != NULL) ptr = ptr->next' steps through.  It is the least   *)
(* closed set that holds n, so it is defined for a cyclic nx too.          *)
Chain(nx, n) ==
    LET C == {S \in SUBSET Node : n \in S /\ Closed(nx, S)}
    IN  {k \in Node : \A S \in C : k \in S}

(* The cells after n. *)
After(nx, n) == IF nx[n] = NULL THEN {} ELSE Chain(nx, nx[n])

(* The first cell after n that is outside H, or NULL. *)
FirstKept(nx, H, n) ==
    LET A == After(nx, n) \ H
    IN  IF A = {} THEN NULL ELSE CHOOSE k \in A : A \subseteq Chain(nx, k)

-----------------------------------------------------------------------------
(* The operations. *)

peak(nx, head) == nx[head]

(* The tail; meaningful when the walk from head ends. *)
runT(nx, head) == CHOOSE n \in Chain(nx, head) : nx[n] = NULL

(* The cell seek returns when `hits' are the cells with the wanted tid. *)
seek(nx, head, hits) ==
    IF head \in hits THEN head ELSE FirstKept(nx, Node \ hits, head)

(* enqueue: the tail's next, then the new cell's next: the order matters   *)
(* when the new cell is the tail itself.                                   *)
Link(nx, head, t) == [[nx EXCEPT ![runT(nx, head)] = t] EXCEPT ![t] = NULL]

(* dequeueSpecific: every cell of `hits' on the chain is unlinked, its     *)
(* next is cleared, and the cell before it is linked to the first cell     *)
(* that stays.  The loop dereferences prev = NULL when head is a hit, so   *)
(* the operator is used only when it is not.                               *)
Unlink(nx, head, hits) ==
    [n \in Node |->
        IF n \notin Chain(nx, head) THEN nx[n]
        ELSE IF n \in hits THEN NULL
        ELSE FirstKept(nx, hits, n)]

-----------------------------------------------------------------------------
(* What a well-formed set of queues is. *)

(* No cell is reached from itself: every set of cells has one whose        *)
(* successor is outside the set.                                           *)
Acyclic(nx) == \A S \in SUBSET Node : S # {} => \E n \in S : nx[n] \notin S

(* No cell is the successor of two cells: a cell is in one place of one    *)
(* queue at most.                                                          *)
Unshared(nx) == \A a, b \in Node : nx[a] = nx[b] /\ nx[a] # NULL => a = b

=============================================================================
