--------------------------- MODULE QueueRefinement ---------------------------
(***************************************************************************)
(* QueueLibrary implements FifoQueues: what is behind a thread in its line *)
(* is what a walk from its block visits.                                   *)
(***************************************************************************)
EXTENDS QueueLibrary

Fifo == INSTANCE FifoQueues WITH
    behind <- [n \in Queue \cup Thread |-> After(next, n)],
    marked <- {t \in Thread : t_priority[t] = removal},
    gone <- freed

(* Threads keep the order in which they joined a queue, a move takes one   *)
(* thread from the queue it is in to the end of another, and a sweep takes *)
(* the marked threads of one queue: with links and parent fields alone the *)
(* library behaves as lines of threads do (my_pthread_t_2.h:34-125,        *)
(* 199-221; the same code is in my_pthread.c:102-243).                     *)
QueuesAreFifo == Fifo!Spec

=============================================================================
