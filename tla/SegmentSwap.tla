----------------------------- MODULE SegmentSwap -----------------------------
(***************************************************************************)
(* What the moves of pages promise (malloc.c:271-284, 383-391): a page of  *)
(* memory and a page of the file change places, or two pages of memory,    *)
(* and nothing else changes.  The process may end, at worst with an        *)
(* exchange half done.                                                     *)
(***************************************************************************)
CONSTANTS
    Ram,      \* the page frames in memory
    Disk,     \* the pages of the swap file
    Page,     \* what a page may hold
    ZeroPage  \* what a page of a new file holds

VARIABLES
    ram,    \* the contents of the page frames
    disk,   \* the contents of the swap file
    stopped \* whether the process has ended

vars == <<ram, disk, stopped>>

Init ==
    /\ ram \in [Ram -> Page]
    /\ disk = [d \in Disk |-> ZeroPage]
    /\ ~stopped

Exchange(r, d) ==
    /\ ~stopped
    /\ ram' = [ram EXCEPT ![r] = disk[d]]
    /\ disk' = [disk EXCEPT ![d] = ram[r]]
    /\ UNCHANGED stopped

ExchangeInMemory(r1, r2) ==
    /\ ~stopped
    /\ ram' = [ram EXCEPT ![r1] = ram[r2], ![r2] = ram[r1]]
    /\ UNCHANGED <<disk, stopped>>

(* The process ends.  In the middle of an exchange the page of the file is *)
(* overwritten already, and its contents, which only memory had, are lost. *)
Stop ==
    /\ ~stopped /\ stopped'
    /\ \/ UNCHANGED disk
       \/ \E r \in Ram, d \in Disk : disk' = [disk EXCEPT ![d] = ram[r]]
    /\ UNCHANGED ram

Next ==
    \/ \E r \in Ram, d \in Disk : Exchange(r, d)
    \/ \E r1, r2 \in Ram : ExchangeInMemory(r1, r2)
    \/ Stop

Spec == Init /\ [][Next]_vars

=============================================================================
