----------------------------- MODULE MCSwapFile -----------------------------
(***************************************************************************)
(* Instances of SwapFile for TLC.                                          *)
(***************************************************************************)
EXTENDS SwapFile

(* All units of memory are different and none is the zero of a new file.   *)
MCUnit == 0..30
OneMemory == {[a \in Address |-> a + 10]}

=============================================================================
