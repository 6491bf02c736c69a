----------------------------- MODULE MCMyPthread -----------------------------
(***************************************************************************)
(* Instances of MyPthread for TLC.                                         *)
(***************************************************************************)
EXTENDS MyPthread, TLC

MCNode == Head \cup {"Master"} \cup Thread

(* Memory fresh from the kernel is zero.  A recycled block holds something *)
(* else, of which current is NULL or leads nowhere: 1 and 5 are the        *)
(* tids of the first thread and of the High queue, and a joinid other than *)
(* -1 puts Master in the Wait queue when it exits.                         *)
Zero == [tid |-> 0, joinid |-> 0, name |-> NULL, current |-> NULL, list |-> NULL]
Recycled ==
    [tid : {1, 5, 9}, joinid : {-1}, name : {"junk"}, current : {NULL}, list : {NULL}]
      \cup [tid : {1, 9}, joinid : {2}, name : {"junk"}, current : {NULL}, list : {NULL}]
      \cup [tid : {9}, joinid : {-1}, name : {"junk"}, current : {NULL, WILD}, list : {WILD}]
FreshMemory == {Zero}
AnyMemory == {Zero} \cup Recycled

(* Threads and mutexes are interchangeable. *)
Symmetry == Permutations(Thread) \cup Permutations(Mutex)

=============================================================================
