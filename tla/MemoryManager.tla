---------------------------- MODULE MemoryManager ----------------------------
(***************************************************************************)
(* The paged memory manager of malloc.c:328-835 and the program that uses  *)
(* it (malloc.c:858-932): three contexts, of which func2 and func1 each    *)
(* ask for memory once and swap to the other.  A step is the code between  *)
(* two points where the process may end: a system call, a switch of        *)
(* contexts, or one entry of the page table.                               *)
(*                                                                         *)
(* The page table, the word that holds Master->tid and the pages share one *)
(* array; addresses in it are counted in bytes of a small page.            *)
(***************************************************************************)
EXTENDS Integers

CONSTANTS
    NumPages,     \* NUM_OF_PAGES
    TablePages,   \* NUM_OF_TABLE_PAGES
    SharedPages,  \* NUM_OF_SHARED_PAGES
    PageSize,     \* sysconf(_SC_PAGE_SIZE)
    EntrySize,    \* sizeof(membook)
    BlockSize,    \* sizeof(block)
    TotalMem,     \* TOTAL_MEM, the size of the array
    Request,      \* the sizes the program may ask for
    SysCallsFail, \* whether memalign, mprotect, open, lseek and getcontext may fail
    NULL

ASSUME LayoutAssumption ==
    /\ NumPages \in Nat \ {0} /\ PageSize \in Nat \ {0} /\ EntrySize \in Nat \ {0}
    /\ TablePages \in Nat /\ SharedPages \in Nat /\ BlockSize \in Nat
    /\ NumPages * EntrySize <= TablePages * PageSize
    /\ (TablePages + 2 + SharedPages + NumPages) * PageSize <= TotalMem
ASSUME RequestAssumption ==
    /\ Request \subseteq Int /\ SysCallsFail \in BOOLEAN
    /\ NULL \notin Int /\ NULL \notin {"array", "heap"}

VARIABLES
    table,    \* the entries of the page table that were written, by index
    first,    \* page_table: the index of the first entry, or NULL
    tid,      \* Master->tid
    initial,  \* first_time
    memory,   \* which memory mprotect is called for
    call,     \* the call of myallocate that is under way
    at,       \* where each function of the program is
    ctx,      \* the context that runs
    got,      \* what myallocate returned to each function
    uc_link,  \* the context that follows func2's
    proc      \* whether the process runs, or how it ended

vars == <<table, first, tid, initial, memory, call, at, ctx, got, uc_link, proc>>
manager == <<table, first, tid, initial, memory>>
program == <<at, ctx, got, uc_link>>

Worker == {"func1", "func2"}

TableSize == TablePages * PageSize
EntryAddr(k) == k * EntrySize
MasterAddr == TableSize
PageAddr(k) == TableSize + PageSize + PageSize + SharedPages * PageSize + k * PageSize

Exit(how) == proc' = how /\ UNCHANGED <<manager, call, program>>

(* The calls that exit when they fail. *)
MayFail == SysCallsFail /\ Exit("failed")

Goto(a) == call' = [call EXCEPT !.at = a]

At(a) == proc = "running" /\ call.at = a

-----------------------------------------------------------------------------
(* myallocate. *)

(* The checks of the size, and the branch for the first call.  A failing   *)
(* memalign goes unnoticed: no pointer is less than 0.                     *)
myallocate ==
    /\ At("entry")
    /\ \/ /\ call.size <= 0 \/ call.size > PageSize - 2 * BlockSize
          /\ call' = [call EXCEPT !.at = "return", !.ret = NULL]
          /\ UNCHANGED <<initial, memory>>
       \/ /\ call.size > 0 /\ call.size <= PageSize - 2 * BlockSize
          /\ initial = 1
          /\ Goto("find")
          /\ UNCHANGED <<initial, memory>>
       \/ /\ call.size > 0 /\ call.size <= PageSize - 2 * BlockSize
          /\ initial = 0
          /\ initial' = 1
          /\ memory' \in {"heap"} \cup (IF SysCallsFail THEN {NULL} ELSE {})
          /\ call' = [call EXCEPT !.at = "table", !.i = NumPages - 1]
    /\ UNCHANGED <<table, first, tid, program, proc>>

(* A faulty add_page: new entries are not linked to those before.          *)
add_page_Unlinked(k) ==
    /\ table' = [j \in DOMAIN table \cup {k} |->
                    IF j = k THEN [TID |-> -1, next |-> NULL, page |-> PageAddr(k)]
                    ELSE table[j]]
    /\ first' = k
    /\ tid' = IF EntryAddr(k) <= MasterAddr /\ MasterAddr < EntryAddr(k) + EntrySize
              THEN -1 ELSE tid

(* A faulty add_page: one entry too far. *)
add_page_OneTooFar(k) ==
    /\ table' = [j \in DOMAIN table \cup {k} |->
                    IF j = k THEN [TID |-> -1, next |-> first, page |-> PageAddr(k)]
                    ELSE table[j]]
    /\ first' = k
    /\ tid' = IF EntryAddr(k + 1) <= MasterAddr /\ MasterAddr < EntryAddr(k + 1) + EntrySize
              THEN -1 ELSE tid

(* Entry k of the table; it overwrites Master->tid if it reaches so far.   *)
add_page(k) ==
    /\ table' = [j \in DOMAIN table \cup {k} |->
                    IF j = k THEN [TID |-> -1, next |-> first, page |-> PageAddr(k)]
                    ELSE table[j]]
    /\ first' = k
    /\ tid' = IF EntryAddr(k) <= MasterAddr /\ MasterAddr < EntryAddr(k) + EntrySize
              THEN -1 ELSE tid

(* Faulty rounds: the loop goes on below page 0; it never moves on.        *)
initialize_memory_PastZero ==
    /\ At("table")
    /\ add_page(call.i)
    /\ call' = [call EXCEPT !.i = @ - 1,
                            !.at = IF call.i = -1 THEN "file" ELSE @]
    /\ UNCHANGED <<initial, memory, program, proc>>

initialize_memory_Stays ==
    /\ At("table")
    /\ add_page(call.i)
    /\ call' = [call EXCEPT !.at = IF call.i = 0 THEN "file" ELSE @]
    /\ UNCHANGED <<initial, memory, program, proc>>

(* One round of the loop over the pages, from the last to the first. *)
initialize_memory ==
    /\ At("table")
    /\ add_page(call.i)
    /\ call' = [call EXCEPT !.i = @ - 1,
                            !.at = IF call.i = 0 THEN "file" ELSE @]
    /\ UNCHANGED <<initial, memory, program, proc>>

(* initialize_memory creates the swap file, and myallocate does it again.  *)
fileCreation ==
    /\ At("file") \/ At("file again")
    /\ \/ /\ Goto(IF call.at = "file" THEN "file again" ELSE "find")
          /\ UNCHANGED <<manager, program, proc>>
       \/ MayFail

memAllignPages == -1
give_new_page == -1

(* It follows the next pointer of the block at the start of a page, which  *)
(* no code has written: a null pointer.                                    *)
give_allocation == Exit("crashed")

findSpace ==
    /\ At("find")
    /\ \/ /\ table[first].TID = tid \/ memAllignPages # -1
          /\ give_allocation
       \/ /\ table[first].TID # tid /\ memAllignPages = -1
          /\ call' = [call EXCEPT !.at = "protect",
                                  !.ret = IF give_new_page = -1 THEN NULL
                                          ELSE table[first].page + BlockSize]
          /\ UNCHANGED <<manager, program, proc>>

(* A faulty unProtectMem: the result for the null pointer is not checked.  *)
unProtectMem_Unchecked(then) == then \/ MayFail

(* mprotect, which fails for the null pointer, and then what follows.      *)
unProtectMem(then) ==
    \/ memory # NULL /\ then
    \/ memory = NULL /\ Exit("failed")
    \/ MayFail

(* The pages of the thread at the front of the table are protected.  They  *)
(* are pages of the array, which mprotect refuses unless it is aligned,    *)
(* and counting them runs off a table that is all the thread's.            *)
protectMem ==
    /\ At("protect")
    /\ unProtectMem(\/ Goto("return") /\ UNCHANGED <<manager, program, proc>>
                    \/ /\ table[first].TID = tid
                       /\ \E how \in {"failed", "crashed"} : Exit(how))

return ==
    /\ At("return")
    /\ got' = [got EXCEPT ![ctx] = call.ret]
    /\ at' = [at EXCEPT ![ctx] = "served"]
    /\ Goto("none")
    /\ UNCHANGED <<manager, ctx, uc_link, proc>>

-----------------------------------------------------------------------------
(* The program. *)

Runs(c, a) == At("none") /\ ctx = c /\ at[c] = a

(* main makes the contexts and goes to func2, which func1 follows unless   *)
(* the program was given an argument.                                      *)
main ==
    /\ Runs("main", "start")
    /\ \/ /\ uc_link' \in {"func1", NULL}
          /\ at' = [at EXCEPT !["main"] = "swapped"]
          /\ ctx' = "func2"
          /\ UNCHANGED <<manager, call, got, proc>>
       \/ MayFail

request(f, size) ==
    /\ Runs(f, "start")
    /\ call' = [at |-> "entry", size |-> size, i |-> 0, ret |-> NULL]
    /\ at' = [at EXCEPT ![f] = "asked"]
    /\ UNCHANGED <<manager, ctx, got, uc_link, proc>>

(* A faulty switch: the other function starts anew. *)
swapcontext_Anew(f) ==
    /\ Runs(f, "served")
    /\ \/ /\ \E g \in Worker \ {f} :
                /\ at' = [at EXCEPT ![f] = "swapped", ![g] = "start"]
                /\ ctx' = g
          /\ UNCHANGED <<manager, call, got, uc_link, proc>>
       \/ MayFail

(* swapcontext to the other function, which starts or goes on. *)
swapcontext(f) ==
    /\ Runs(f, "served")
    /\ \/ /\ at' = [at EXCEPT ![f] = "swapped"]
          /\ ctx' \in Worker \ {f}
          /\ UNCHANGED <<manager, call, got, uc_link, proc>>
       \/ MayFail

(* A faulty link: main follows both functions. *)
Follows_Main(f) == "main"

Follows(f) == IF f = "func1" THEN "main" ELSE uc_link

(* A function that returns: the process ends if no context follows.        *)
Return(f) ==
    /\ Runs(f, "swapped")
    /\ at' = [at EXCEPT ![f] = "done"]
    /\ IF Follows(f) = NULL THEN proc' = "ended" /\ UNCHANGED ctx
       ELSE ctx' = Follows(f) /\ UNCHANGED proc
    /\ UNCHANGED <<manager, call, got, uc_link>>

mainExits == Runs("main", "swapped") /\ Exit("success")

-----------------------------------------------------------------------------
Init ==
    /\ table = [k \in {} |-> [TID |-> -1, next |-> NULL, page |-> 0]]
    /\ first = NULL
    /\ tid = 1
    /\ initial = 0
    /\ memory = "array"
    /\ call = [at |-> "none", size |-> 0, i |-> 0, ret |-> NULL]
    /\ at = [c \in Worker \cup {"main"} |-> "start"]
    /\ ctx = "main"
    /\ got = [f \in Worker |-> NULL]
    /\ uc_link = NULL
    /\ proc = "running"

Next ==
    \/ main
    \/ \E f \in Worker, size \in Request : request(f, size)
    \/ myallocate
    \/ initialize_memory
    \/ fileCreation
    \/ findSpace
    \/ protectMem
    \/ return
    \/ \E f \in Worker : swapcontext(f)
    \/ \E f \in Worker : Return(f)
    \/ mainExits

Spec == Init /\ [][Next]_vars

(* The process runs until it ends. *)
FairSpec == Spec /\ WF_vars(Next)

-----------------------------------------------------------------------------
(* Properties. *)

Entry == [TID : {-1}, next : 0..(NumPages - 1) \cup {NULL},
          page : {PageAddr(k) : k \in 0..(NumPages - 1)}]

(* The types of the variables: every index is one of a page. *)
TypeOK ==
    /\ DOMAIN table \subseteq 0..(NumPages - 1)
    /\ \A k \in DOMAIN table : table[k] \in Entry
    /\ first \in DOMAIN table \cup {NULL}
    /\ tid \in Int /\ initial \in {0, 1}
    /\ memory \in {"array", "heap", NULL}
    /\ call \in [at : {"none", "entry", "table", "file", "file again", "find",
                      "protect", "return"},
                 size : Int, i : (-1)..(NumPages - 1), ret : Int \cup {NULL}]
    /\ at \in [Worker \cup {"main"} -> {"start", "asked", "served", "swapped", "done"}]
    /\ ctx \in Worker \cup {"main"}
    /\ got \in [Worker -> Int \cup {NULL}]
    /\ uc_link \in {"func1", NULL}
    /\ proc \in {"running", "failed", "crashed", "ended", "success"}

(* Whenever a request is being served, and at every step of building the   *)
(* table, page_table leads through the pages written so far in ascending   *)
(* order, to the end; once built it holds every page, and no later request *)
(* changes it (malloc.c:746-774, 796-821).                                 *)
TableExact ==
    /\ \A k \in DOMAIN table :
          /\ k + 1 \in DOMAIN table => table[k].next = k + 1
          /\ k + 1 \notin DOMAIN table => table[k].next = NULL /\ k = NumPages - 1
          /\ table[k].page = PageAddr(k)
    /\ DOMAIN table # {} => first \in DOMAIN table /\ \A k \in DOMAIN table : first <= k
    /\ call.at \in {"find", "protect"} => DOMAIN table = 0..(NumPages - 1)

(* Building the page table never reaches the word behind it, where         *)
(* Master->tid is kept: the 15 pages are full to the last byte             *)
(* (malloc.h:36-40, malloc.c:892).                                         *)
MasterIntact == tid = 1

(* A memalign that fails goes unnoticed by its caller, which builds the     *)
(* table, creates the file and looks for space as if it had memory; but    *)
(* mprotect ends the process within the same call: no request is answered  *)
(* and no function goes on after it (malloc.c:123-133, 806-835).           *)
NoAnswerWithoutMemory ==
    memory = NULL => call.at \in {"table", "file", "file again", "find", "protect"}

(* main exits after both functions, and func1 only after func2, returned   *)
(* (malloc.c:858-928).                                                     *)
MainExitsLast ==
    /\ proc = "success" => at["func1"] = "done"
    /\ at["func1"] = "done" => at["func2"] = "done"

(* The steps that are left at most: of the call under way, of a function   *)
(* that has not made its call yet, and of every function after its call.   *)
CallSteps == NumPages + 6
CallLeft == CASE call.at = "entry" -> CallSteps
              [] call.at = "table" -> call.i + 6
              [] call.at = "file" -> 5
              [] call.at = "file again" -> 4
              [] call.at = "find" -> 3
              [] call.at = "protect" -> 2
              [] call.at = "return" -> 1
              [] call.at = "none" -> 0
Stage == [start |-> CallSteps + 4, asked |-> 3, served |-> 2, swapped |-> 1, done |-> 0]
StepsLeft ==
    IF proc # "running" THEN 0
    ELSE 1 + Stage[at["main"]] + Stage[at["func1"]] + Stage[at["func2"]] + CallLeft

(* No loop, no switch of contexts and no context that follows another      *)
(* brings back work that was done: with every step fewer are left          *)
(* (malloc.c:746-774, 858-932).                                            *)
RunsDown == [][StepsLeft' \in 0..(StepsLeft - 1)]_vars

(* The program ends (malloc.c:888-932). *)
ProgramEnds == <>(proc # "running")

=============================================================================
