--------------------------- MODULE MCQueueLibrary ---------------------------
(***************************************************************************)
(* An instance of QueueLibrary for TLC: two queues and three threads.      *)
(***************************************************************************)
EXTENDS QueueRefinement, TLC

CONSTANTS high, low, t1, t2, t3

MCQueue == {high, low}
MCThread == {t1, t2, t3}
MCNode == MCQueue \cup MCThread
MCtid == high :> 5 @@ low :> 3 @@ t1 :> 11 @@ t2 :> 12 @@ t3 :> 13

=============================================================================
