------------------------- MODULE MemoryManagerProofs -------------------------
(***************************************************************************)
(* Proofs about MemoryManager, for every layout of the array in which the  *)
(* page table fits in its pages, and every set of requests.                *)
(***************************************************************************)
EXTENDS MemoryManager, TLAPS

(* Entry k of a page table that is being built or was built. *)
EntryOf(k) == [TID |-> -1, next |-> IF k = NumPages - 1 THEN NULL ELSE k + 1,
               page |-> PageAddr(k)]

(* The index of the first entry that was written: the table is absent,     *)
(* being built from its end, or complete.                                  *)
Low == IF call.at = "table" THEN call.i + 1
       ELSE IF initial = 0 THEN NumPages ELSE 0

(* What was built of the page table. *)
TableInv ==
    /\ DOMAIN table = Low..(NumPages - 1)
    /\ \A k \in DOMAIN table : table[k] = EntryOf(k)
    /\ first = IF Low = NumPages THEN NULL ELSE Low
    /\ tid = 1
    /\ call.at = "table" => call.i >= 0 /\ initial = 1
    /\ call.at \in {"file", "file again", "find", "protect"} => initial = 1

(* Where the functions are: only a function that asked is served, func1 is *)
(* first entered from func2's swap, goes on after func2 returned, and main *)
(* goes on after func1 did.                                                *)
OrderInv ==
    /\ call.at # "none" => ctx \in Worker /\ at[ctx] = "asked"
    /\ ctx = "func1" \/ at["func1"] # "start" => at["func2"] \in {"swapped", "done"}
    /\ ctx = "func1" /\ at["func1"] = "swapped" => at["func2"] = "done"
    /\ ctx = "main" /\ at["main"] = "swapped" => at["func1"] = "done"

IInv == TypeOK /\ TableInv /\ OrderInv /\ MainExitsLast

-----------------------------------------------------------------------------
(* An entry of the table ends before the word that follows the table. *)
LEMMA EntriesFit ==
    ASSUME NEW k \in 0..(NumPages - 1)
    PROVE  EntryAddr(k) + EntrySize <= MasterAddr
<1> DEFINE d == NumPages - 1 - k
<1>1. d \in Nat /\ EntrySize \in Nat /\ NumPages \in Nat
  BY LayoutAssumption
<1>2. d * EntrySize \in Nat
  BY <1>1
<1>3. NumPages = d + k + 1
  BY <1>1
<1>4. NumPages * EntrySize = d * EntrySize + k * EntrySize + EntrySize
  BY <1>1, <1>3
<1>5. k * EntrySize + EntrySize <= NumPages * EntrySize
  BY <1>1, <1>2, <1>4
<1>6. NumPages * EntrySize <= TablePages * PageSize
  BY LayoutAssumption
<1>7. k * EntrySize \in Int /\ NumPages * EntrySize \in Int /\ TablePages * PageSize \in Int
  BY <1>1, LayoutAssumption
<1>8. k * EntrySize + EntrySize <= TablePages * PageSize
  BY <1>1, <1>5, <1>6, <1>7
<1>9. QED
  BY <1>8 DEF EntryAddr, MasterAddr, TableSize

(* What most steps need of the layout. *)
LEMMA SomePages == NumPages \in Nat /\ NumPages > 0
BY LayoutAssumption

(* The type of call. *)
Calls == [at : {"none", "entry", "table", "file", "file again", "find",
                "protect", "return"},
          size : Int, i : (-1)..(NumPages - 1), ret : Int \cup {NULL}]

LEMMA InitInv == Init => IInv
BY SomePages
   DEF Init, IInv, TypeOK, TableInv, OrderInv, MainExitsLast, Low, Worker

(* The process may end at any point, with success only after func1. *)
LEMMA ExitInv ==
    ASSUME IInv, NEW how \in {"failed", "crashed", "success"}, Exit(how),
           how = "success" => at["func1"] = "done"
    PROVE  IInv'
<1>1. UNCHANGED <<table, first, tid, initial, memory, call, at, ctx, got, uc_link>>
  BY DEF Exit, manager, program
<1>2. proc' = how
  BY DEF Exit
<1>3. TypeOK'
  BY <1>1, <1>2 DEF IInv, TypeOK
<1>4. TableInv' /\ OrderInv' /\ MainExitsLast'
  BY <1>1, <1>2 DEF IInv, TableInv, Low, OrderInv, MainExitsLast
<1>5. QED
  BY <1>3, <1>4 DEF IInv

(* The steps of the program leave the page table alone. *)
LEMMA TableKept ==
    ASSUME TableInv, UNCHANGED manager,
           call'.at # "table", call.at # "table",
           call'.at \in {"file", "file again", "find", "protect"} =>
             call.at \in {"file", "file again", "find", "protect"}
    PROVE  TableInv'
BY DEF TableInv, Low, manager, EntryOf

LEMMA MainInv == ASSUME IInv, main PROVE IInv'
<1>1. CASE MayFail
  BY <1>1, ExitInv DEF MayFail
<1>2. CASE ~MayFail
  <2>1. /\ proc = "running" /\ call.at = "none" /\ ctx = "main" /\ at["main"] = "start"
        /\ uc_link' \in {"func1", NULL}
        /\ at' = [at EXCEPT !["main"] = "swapped"]
        /\ ctx' = "func2"
        /\ UNCHANGED <<manager, call, got, proc>>
    BY <1>2 DEF main, Runs, At
  <2>2. TypeOK'
    BY <2>1 DEF IInv, TypeOK, Worker, manager
  <2>3. TableInv'
    BY <2>1, TableKept DEF IInv
  <2>4. OrderInv' /\ MainExitsLast'
    BY <2>1 DEF IInv, TypeOK, OrderInv, MainExitsLast, Worker
  <2>5. QED
    BY <2>2, <2>3, <2>4 DEF IInv
<1>3. QED
  BY <1>1, <1>2

LEMMA RequestInv ==
    ASSUME IInv, NEW f \in Worker, NEW size \in Request, request(f, size)
    PROVE  IInv'
<1>1. /\ proc = "running" /\ call.at = "none" /\ ctx = f /\ at[f] = "start"
      /\ call' = [at |-> "entry", size |-> size, i |-> 0, ret |-> NULL]
      /\ at' = [at EXCEPT ![f] = "asked"]
      /\ UNCHANGED <<manager, ctx, got, uc_link, proc>>
  BY DEF request, Runs, At
<1>2. TypeOK'
  <2>1. size \in Int /\ 0 \in (-1)..(NumPages - 1)
    BY SomePages, RequestAssumption
  <2>2. call' \in Calls
    BY <1>1, <2>1 DEF Calls
  <2>3. at' \in [Worker \cup {"main"} -> {"start", "asked", "served", "swapped", "done"}]
    BY <1>1 DEF IInv, TypeOK
  <2>4. QED
    BY <1>1, <2>2, <2>3 DEF IInv, TypeOK, Calls, manager
<1>3. TableInv'
  BY <1>1, TableKept DEF IInv
<1>4. OrderInv' /\ MainExitsLast'
  BY <1>1 DEF IInv, TypeOK, OrderInv, MainExitsLast, Worker
<1>5. QED
  BY <1>2, <1>3, <1>4 DEF IInv

(* A step inside a call of myallocate: what is left to show is that the    *)
(* call and the page table have their types and their stage.               *)
LEMMA CallStep ==
    ASSUME IInv, At(call.at), call.at # "none", UNCHANGED <<program, proc>>,
           call'.at # "none"
    PROVE  OrderInv' /\ MainExitsLast'
BY DEF IInv, OrderInv, MainExitsLast, program, At

LEMMA MyallocateInv == ASSUME IInv, myallocate PROVE IInv'
<1>1. /\ call.at = "entry" /\ proc = "running"
      /\ UNCHANGED <<table, first, tid, program, proc>>
  BY DEF myallocate, At
<1>2. \/ /\ call' = [call EXCEPT !.at = "return", !.ret = NULL]
         /\ UNCHANGED <<initial, memory>>
      \/ /\ initial = 1
         /\ call' = [call EXCEPT !.at = "find"]
         /\ UNCHANGED <<initial, memory>>
      \/ /\ initial = 0 /\ initial' = 1
         /\ memory' \in {"heap", NULL}
         /\ call' = [call EXCEPT !.at = "table", !.i = NumPages - 1]
  BY DEF myallocate, Goto
<1>3. TypeOK'
  <2>1. NumPages - 1 \in (-1)..(NumPages - 1)
    BY SomePages
  <2>2. call \in Calls
    BY DEF IInv, TypeOK, Calls
  <2>3. call' \in Calls
    BY <1>2, <2>1, <2>2 DEF Calls
  <2>4. initial' \in {0, 1} /\ memory' \in {"array", "heap", NULL}
    BY <1>2 DEF IInv, TypeOK
  <2>5. QED
    BY <1>1, <2>3, <2>4 DEF IInv, TypeOK, Calls, program
<1>4. call'.at \in {"return", "find", "table"}
      /\ (call'.at = "find" => initial' = 1)
      /\ (call'.at = "table" => /\ initial' = 1 /\ initial = 0
                                /\ call'.i = NumPages - 1)
      /\ (call'.at # "table" => initial' = initial)
  BY <1>1, <1>2 DEF IInv, TypeOK
<1>5. Low' = Low
  BY <1>1, <1>4, LayoutAssumption DEF Low
<1>6. TableInv'
  <2>1. call'.at = "table" => call'.i >= 0 /\ initial' = 1
    BY <1>4, SomePages
  <2>2. call'.at \in {"file", "file again", "find", "protect"} => initial' = 1
    BY <1>4
  <2>3. QED
    BY <1>1, <1>5, <2>1, <2>2 DEF IInv, TableInv, EntryOf
<1>7. OrderInv' /\ MainExitsLast'
  BY <1>1, <1>4, CallStep DEF At
<1>8. QED
  BY <1>3, <1>6, <1>7 DEF IInv

LEMMA TableStepInv == ASSUME IInv, initialize_memory PROVE IInv'
<1> DEFINE k == call.i
<1>1. /\ call.at = "table" /\ proc = "running" /\ add_page(k)
      /\ call' = [call EXCEPT !.i = @ - 1, !.at = IF k = 0 THEN "file" ELSE @]
      /\ UNCHANGED <<initial, memory, program, proc>>
  BY DEF initialize_memory, At
<1>2. /\ k \in 0..(NumPages - 1) /\ initial = 1
      /\ DOMAIN table = (k + 1)..(NumPages - 1)
      /\ first = IF k = NumPages - 1 THEN NULL ELSE k + 1
  <2>1. k >= 0 /\ initial = 1 /\ k \in (-1)..(NumPages - 1)
    BY <1>1 DEF IInv, TypeOK, TableInv
  <2>2. Low = k + 1
    BY <1>1 DEF Low
  <2>3. Low = NumPages <=> k = NumPages - 1
    BY <2>1, <2>2, SomePages
  <2>4. QED
    BY <2>1, <2>2, <2>3, SomePages DEF IInv, TableInv
<1>3. call'.i = k - 1 /\ call'.at = IF k = 0 THEN "file" ELSE "table"
  BY <1>1 DEF IInv, TypeOK
<1>4. DOMAIN table' = k..(NumPages - 1) /\ first' = k
  <2>1. DOMAIN table' = ((k + 1)..(NumPages - 1)) \cup {k} /\ first' = k
    BY <1>1, <1>2 DEF add_page
  <2>2. ((k + 1)..(NumPages - 1)) \cup {k} = k..(NumPages - 1)
    BY <1>2, SomePages
  <2>3. QED
    BY <2>1, <2>2
<1>5. tid' = 1
  <2>1. EntryAddr(k) + EntrySize <= MasterAddr
    BY <1>2, EntriesFit
  <2>2. EntryAddr(k) + EntrySize \in Int /\ MasterAddr \in Int
    BY <1>2, LayoutAssumption DEF EntryAddr, MasterAddr, TableSize
  <2>3. ~(MasterAddr < EntryAddr(k) + EntrySize)
    BY <2>1, <2>2
  <2>4. QED
    BY <1>1, <2>3 DEF add_page, IInv, TableInv
<1>6. \A j \in DOMAIN table' : table'[j] = EntryOf(j)
  BY <1>1, <1>2, <1>4 DEF add_page, EntryOf, IInv, TableInv
<1>7. TableInv'
  <2>1. Low' = k
    BY <1>1, <1>2, <1>3, SomePages DEF Low
  <2>2. k # NumPages
    BY <1>2, SomePages
  <2>3. call'.at = "table" => call'.i >= 0 /\ initial' = 1
    BY <1>1, <1>2, <1>3, SomePages
  <2>4. \A j \in DOMAIN table' : table'[j] = EntryOf(j)'
    BY <1>6 DEF EntryOf, PageAddr, TableSize
  <2>5. QED
    BY <1>1, <1>2, <1>3, <1>4, <1>5, <2>1, <2>2, <2>3, <2>4 DEF TableInv
<1>8. TypeOK'
  <2>1. \A j \in DOMAIN table' : EntryOf(j) \in Entry
    <3> SUFFICES ASSUME NEW j \in 0..(NumPages - 1)
                 PROVE  EntryOf(j) \in Entry
      BY <1>2, <1>4, SomePages
    <3>1. j = NumPages - 1 \/ j + 1 \in 0..(NumPages - 1)
      BY SomePages
    <3>2. QED
      BY <3>1 DEF EntryOf, Entry
  <2>2. call' \in Calls
    <3>1. k - 1 \in (-1)..(NumPages - 1)
      BY <1>2, SomePages
    <3>2. call \in Calls
      BY DEF IInv, TypeOK, Calls
    <3>3. QED
      BY <1>1, <3>1, <3>2 DEF Calls
  <2>3. DOMAIN table' \subseteq 0..(NumPages - 1) /\ first' \in DOMAIN table'
    BY <1>2, <1>4, SomePages
  <2>4. \A j \in DOMAIN table' : table'[j] \in Entry
    BY <1>6, <2>1
  <2>5. /\ UNCHANGED <<initial, memory, at, ctx, got, uc_link, proc>>
        /\ tid' \in Int
    BY <1>1, <1>5 DEF program
  <2> HIDE DEF k
  <2>6. QED
    BY <2>2, <2>3, <2>4, <2>5 DEF IInv, TypeOK, Calls
<1>9. OrderInv' /\ MainExitsLast'
  BY <1>1, <1>3, CallStep DEF At
<1>10. QED
  BY <1>7, <1>8, <1>9 DEF IInv

(* The steps of a call after the table was built only move on. *)
LEMMA LaterStep ==
    ASSUME IInv, proc = "running",
           call.at \in {"file", "file again", "find", "protect"},
           NEW a \in {"file again", "find", "protect", "return"},
           NEW r \in Int \cup {NULL},
           call' = [call EXCEPT !.at = a, !.ret = r],
           UNCHANGED <<manager, program, proc>>
    PROVE  IInv'
<1>1. call'.at = a
  BY DEF IInv, TypeOK
<1>2. TypeOK'
  BY DEF IInv, TypeOK, manager, program
<1>3. TableInv'
  BY <1>1, TableKept DEF IInv
<1>4. OrderInv' /\ MainExitsLast'
  BY <1>1, CallStep DEF At
<1>5. QED
  BY <1>2, <1>3, <1>4 DEF IInv

(* Goto is such a step. *)
LEMMA GotoIsStep ==
    ASSUME IInv, NEW a, Goto(a)
    PROVE  call' = [call EXCEPT !.at = a, !.ret = call.ret] /\ call.ret \in Int \cup {NULL}
BY DEF IInv, TypeOK, Goto

LEMMA FileInv == ASSUME IInv, fileCreation PROVE IInv'
<1>1. CASE MayFail
  BY <1>1, ExitInv DEF MayFail
<1>2. CASE ~MayFail
  <2>1. /\ proc = "running" /\ call.at \in {"file", "file again"}
        /\ Goto(IF call.at = "file" THEN "file again" ELSE "find")
        /\ UNCHANGED <<manager, program, proc>>
    BY <1>2 DEF fileCreation, At
  <2>2. QED
    BY <2>1, GotoIsStep, LaterStep
<1>3. QED
  BY <1>1, <1>2

LEMMA FindInv == ASSUME IInv, findSpace PROVE IInv'
<1>1. proc = "running" /\ call.at = "find"
  BY DEF findSpace, At
<1>2. CASE give_allocation
  BY <1>2, ExitInv DEF give_allocation
<1>3. CASE ~give_allocation
  <2>1. /\ call' = [call EXCEPT !.at = "protect", !.ret = NULL]
        /\ UNCHANGED <<manager, program, proc>>
    BY <1>3 DEF findSpace, give_new_page
  <2>2. QED
    BY <1>1, <2>1, LaterStep
<1>4. QED
  BY <1>2, <1>3

LEMMA ProtectInv == ASSUME IInv, protectMem PROVE IInv'
<1>1. proc = "running" /\ call.at = "protect"
  BY DEF protectMem, At
<1>2. \/ \E how \in {"failed", "crashed"} : Exit(how)
      \/ Goto("return") /\ UNCHANGED <<manager, program, proc>>
  BY DEF protectMem, unProtectMem, MayFail
<1>3. CASE \E how \in {"failed", "crashed"} : Exit(how)
  BY <1>3, ExitInv
<1>4. CASE Goto("return") /\ UNCHANGED <<manager, program, proc>>
  BY <1>1, <1>4, GotoIsStep, LaterStep
<1>5. QED
  BY <1>2, <1>3, <1>4

LEMMA ReturnedInv == ASSUME IInv, return PROVE IInv'
<1>1. /\ proc = "running" /\ call.at = "return"
      /\ got' = [got EXCEPT ![ctx] = call.ret]
      /\ at' = [at EXCEPT ![ctx] = "served"]
      /\ call' = [call EXCEPT !.at = "none"]
      /\ UNCHANGED <<manager, ctx, uc_link, proc>>
  BY DEF return, At, Goto
<1>2. ctx \in Worker /\ at[ctx] = "asked" /\ call'.at = "none"
  BY <1>1 DEF IInv, OrderInv, TypeOK
<1>3. TypeOK'
  BY <1>1, <1>2 DEF IInv, TypeOK, manager
<1>4. TableInv'
  BY <1>1, <1>2, TableKept DEF IInv
<1>5. OrderInv' /\ MainExitsLast'
  BY <1>1, <1>2 DEF IInv, TypeOK, OrderInv, MainExitsLast, Worker
<1>6. QED
  BY <1>3, <1>4, <1>5 DEF IInv

LEMMA SwapInv ==
    ASSUME IInv, NEW f \in Worker, swapcontext(f)
    PROVE  IInv'
<1>1. CASE MayFail
  BY <1>1, ExitInv DEF MayFail
<1>2. CASE ~MayFail
  <2>1. /\ proc = "running" /\ call.at = "none" /\ ctx = f /\ at[f] = "served"
        /\ at' = [at EXCEPT ![f] = "swapped"]
        /\ ctx' \in Worker \ {f}
        /\ UNCHANGED <<manager, call, got, uc_link, proc>>
    BY <1>2 DEF swapcontext, Runs, At
  <2>2. TypeOK'
    BY <2>1 DEF IInv, TypeOK, manager
  <2>3. TableInv'
    BY <2>1, TableKept DEF IInv
  <2>4. OrderInv' /\ MainExitsLast'
    BY <2>1 DEF IInv, TypeOK, OrderInv, MainExitsLast, Worker
  <2>5. QED
    BY <2>2, <2>3, <2>4 DEF IInv
<1>3. QED
  BY <1>1, <1>2

LEMMA ReturnInv ==
    ASSUME IInv, NEW f \in Worker, Return(f)
    PROVE  IInv'
<1>1. /\ proc = "running" /\ call.at = "none" /\ ctx = f /\ at[f] = "swapped"
      /\ at' = [at EXCEPT ![f] = "done"]
      /\ \/ proc' = "ended" /\ UNCHANGED ctx
         \/ /\ ctx' = Follows(f) /\ Follows(f) # NULL
            /\ UNCHANGED proc
      /\ UNCHANGED <<manager, call, got, uc_link>>
  BY DEF Return, Runs, At
<1>2. Follows("func1") = "main" /\ Follows("func2") = uc_link
  BY DEF Follows
<1>3. uc_link \in {"func1", NULL}
  BY DEF IInv, TypeOK
<1>4. TypeOK'
  BY <1>1, <1>2, <1>3 DEF IInv, TypeOK, Worker, manager
<1>5. TableInv'
  BY <1>1, TableKept DEF IInv
<1>6. OrderInv' /\ MainExitsLast'
  BY <1>1, <1>2, <1>3 DEF IInv, TypeOK, OrderInv, MainExitsLast, Worker
<1>7. QED
  BY <1>4, <1>5, <1>6 DEF IInv

LEMMA MainExitsInv == ASSUME IInv, mainExits PROVE IInv'
<1>1. at["func1"] = "done"
  BY DEF IInv, OrderInv, mainExits, Runs
<1>2. QED
  BY <1>1, ExitInv DEF mainExits

(* The stages of the table make it exact. *)
LEMMA TableFacts == ASSUME IInv PROVE TableExact
<1>1. /\ Low \in Int /\ Low >= 0 /\ Low <= NumPages
      /\ call.at \in {"find", "protect"} => Low = 0
  <2>1. call.i \in (-1)..(NumPages - 1) /\ initial \in {0, 1}
    BY DEF IInv, TypeOK
  <2>2. /\ call.at = "table" => call.i >= 0
        /\ call.at \in {"find", "protect"} => initial = 1
    BY DEF IInv, TableInv
  <2>3. CASE call.at = "table"
    BY <2>1, <2>2, <2>3, SomePages DEF Low
  <2>4. CASE call.at # "table"
    BY <2>1, <2>2, <2>4, SomePages DEF Low
  <2>5. QED
    BY <2>3, <2>4
<1>2. /\ DOMAIN table = Low..(NumPages - 1)
      /\ \A k \in DOMAIN table : table[k] = EntryOf(k)
      /\ first = IF Low = NumPages THEN NULL ELSE Low
  BY DEF IInv, TableInv
<1>3. ASSUME NEW k \in DOMAIN table
      PROVE  /\ k + 1 \in DOMAIN table => table[k].next = k + 1
             /\ k + 1 \notin DOMAIN table => table[k].next = NULL /\ k = NumPages - 1
             /\ table[k].page = PageAddr(k)
  <2>1. k \in Int /\ (k + 1 \in DOMAIN table <=> k # NumPages - 1)
    BY <1>1, <1>2, SomePages
  <2>2. table[k] = EntryOf(k)
    BY <1>2
  <2>3. QED
    BY <2>1, <2>2 DEF EntryOf
<1>4. DOMAIN table # {} => first \in DOMAIN table /\ \A k \in DOMAIN table : first <= k
  BY <1>1, <1>2, SomePages
<1>5. call.at \in {"find", "protect"} => DOMAIN table = 0..(NumPages - 1)
  BY <1>1, <1>2
<1>6. QED
  BY <1>3, <1>4, <1>5 DEF TableExact

(* A step that changes nothing keeps it. *)
LEMMA StutterInv == ASSUME IInv, UNCHANGED vars PROVE IInv'
<1>1. /\ table' = table /\ first' = first /\ tid' = tid /\ initial' = initial
      /\ memory' = memory /\ call' = call /\ at' = at /\ ctx' = ctx
      /\ got' = got /\ uc_link' = uc_link /\ proc' = proc
  BY DEF vars
<1>2. TypeOK' = TypeOK
  BY <1>1 DEF TypeOK
<1>3. TableInv' /\ OrderInv' /\ MainExitsLast'
  BY <1>1 DEF IInv, TableInv, Low, OrderInv, MainExitsLast
<1>4. QED
  BY <1>2, <1>3 DEF IInv

(* Every step keeps the inductive invariant. *)
LEMMA StepInv == IInv /\ [Next]_vars => IInv'
<1> SUFFICES ASSUME IInv, [Next]_vars PROVE IInv'
  OBVIOUS
<1>1. CASE main
  BY <1>1, MainInv
<1>2. CASE \E f \in Worker, size \in Request : request(f, size)
  BY <1>2, RequestInv
<1>3. CASE myallocate
  BY <1>3, MyallocateInv
<1>4. CASE initialize_memory
  BY <1>4, TableStepInv
<1>5. CASE fileCreation
  BY <1>5, FileInv
<1>6. CASE findSpace
  BY <1>6, FindInv
<1>7. CASE protectMem
  BY <1>7, ProtectInv
<1>8. CASE return
  BY <1>8, ReturnedInv
<1>9. CASE \E f \in Worker : swapcontext(f)
  BY <1>9, SwapInv
<1>10. CASE \E f \in Worker : Return(f)
  BY <1>10, ReturnInv
<1>11. CASE mainExits
  BY <1>11, MainExitsInv
<1>12. CASE UNCHANGED vars
  BY <1>12, StutterInv
<1>13. QED
  BY <1>1, <1>2, <1>3, <1>4, <1>5, <1>6, <1>7, <1>8, <1>9, <1>10, <1>11, <1>12 DEF Next

-----------------------------------------------------------------------------
(* The steps that are left. *)

StageOf(c) == Stage[at[c]]

Counts ==
    /\ StageOf("main") \in Nat /\ StageOf("func1") \in Nat /\ StageOf("func2") \in Nat
    /\ CallLeft \in Nat /\ StepsLeft \in Nat

(* Every stage of a function, and every call, has some steps left. *)
LEMMA StepsCount == IInv => Counts
<1> SUFFICES ASSUME IInv PROVE Counts
  OBVIOUS
<1>1. CallSteps \in Nat
  BY SomePages DEF CallSteps
<1>2. ASSUME NEW c \in Worker \cup {"main"}
      PROVE  StageOf(c) \in Nat
  <2>1. at[c] \in {"start", "asked", "served", "swapped", "done"}
    BY DEF IInv, TypeOK
  <2>2. QED
    BY <1>1, <2>1 DEF StageOf, Stage
<1>3. CallLeft \in Nat
  <2>1. /\ call.at \in {"none", "entry", "table", "file", "file again", "find",
                        "protect", "return"}
        /\ call.i \in (-1)..(NumPages - 1)
    BY DEF IInv, TypeOK
  <2>2. CASE call.at = "table"
    BY <2>1, <2>2, SomePages DEF CallLeft
  <2>3. CASE call.at # "table"
    BY <1>1, <2>1, <2>3 DEF CallLeft
  <2>4. QED
    BY <2>2, <2>3
<1>4. StageOf("main") \in Nat /\ StageOf("func1") \in Nat /\ StageOf("func2") \in Nat
  BY <1>2 DEF Worker
<1>5. StepsLeft = 0
      \/ StepsLeft = 1 + StageOf("main") + StageOf("func1") + StageOf("func2") + CallLeft
  BY DEF StepsLeft, StageOf
<1>6. QED
  BY <1>3, <1>4, <1>5 DEF Counts

LEMMA StepsCountNext == IInv' => Counts'
BY StepsCount, PTL

Fewer == StepsLeft' \in 0..(StepsLeft - 1)

(* The end of the process leaves no steps. *)
LEMMA EndIsFewer ==
    ASSUME IInv, proc = "running", proc' # "running"
    PROVE  Fewer
<1>1. StepsLeft' = 0
  BY DEF StepsLeft
<1>2. StepsLeft \in Nat /\ StepsLeft >= 1
  <2>1. StepsLeft = 1 + StageOf("main") + StageOf("func1") + StageOf("func2") + CallLeft
    BY DEF StepsLeft, StageOf
  <2>2. QED
    BY <2>1, StepsCount DEF Counts
<1>3. QED
  BY <1>1, <1>2 DEF Fewer

LEMMA FailureIsFewer ==
    ASSUME IInv, proc = "running",
           MayFail \/ \E how \in {"failed", "crashed", "success"} : Exit(how)
    PROVE  Fewer
BY EndIsFewer DEF MayFail, Exit

(* A step inside a call of myallocate moves the call on. *)
LEMMA CallIsFewer ==
    ASSUME IInv, IInv', proc = "running", UNCHANGED <<at, proc>>, CallLeft' < CallLeft
    PROVE  Fewer
<1>1. Counts /\ Counts'
  BY StepsCount, StepsCountNext
<1>2. /\ StepsLeft = 1 + StageOf("main") + StageOf("func1") + StageOf("func2") + CallLeft
      /\ StepsLeft' = 1 + StageOf("main") + StageOf("func1") + StageOf("func2") + CallLeft'
  BY DEF StepsLeft, StageOf
<1>3. QED
  BY <1>1, <1>2 DEF Fewer, Counts

(* A step of a function moves it on by at least the length of the call it  *)
(* makes.                                                                  *)
LEMMA ProgramIsFewer ==
    ASSUME IInv, IInv', proc = "running", UNCHANGED proc,
           NEW f \in Worker \cup {"main"},
           NEW a \in {"start", "asked", "served", "swapped", "done"},
           at' = [at EXCEPT ![f] = a],
           Stage[a] + CallLeft' < Stage[at[f]] + CallLeft
    PROVE  Fewer
<1>1. Counts /\ Counts'
  BY StepsCount, StepsCountNext
<1>3. /\ StageOf(f)' = Stage[a]
      /\ \A c \in Worker \cup {"main"} : c # f => StageOf(c)' = StageOf(c)
  BY DEF StageOf, IInv, TypeOK
<1>4. /\ StepsLeft = 1 + StageOf("main") + StageOf("func1") + StageOf("func2") + CallLeft
      /\ StepsLeft' = 1 + StageOf("main")' + StageOf("func1")' + StageOf("func2")' + CallLeft'
  BY DEF StepsLeft, StageOf
<1>5. StageOf(f)' + CallLeft' < StageOf(f) + CallLeft
  BY <1>3 DEF StageOf
<1>6. CASE f = "main"
  BY <1>1, <1>3, <1>4, <1>5, <1>6 DEF Fewer, Counts, Worker
<1>7. CASE f = "func1"
  BY <1>1, <1>3, <1>4, <1>5, <1>7 DEF Fewer, Counts, Worker
<1>8. CASE f = "func2"
  BY <1>1, <1>3, <1>4, <1>5, <1>8 DEF Fewer, Counts, Worker
<1>9. QED
  BY <1>6, <1>7, <1>8 DEF Worker

(* The call has started with the longest way to go. *)
LEMMA MyallocateIsFewer == ASSUME IInv, myallocate PROVE Fewer
<1>1. proc = "running" /\ call.at = "entry" /\ UNCHANGED <<at, proc>>
  BY DEF myallocate, At, program
<1>2. /\ call'.at \in {"return", "find", "table"}
      /\ call'.at = "table" => call'.i = NumPages - 1
  BY DEF myallocate, Goto, IInv, TypeOK
<1>3. CallLeft = NumPages + 6
  BY <1>1 DEF CallLeft, CallSteps
<1>4. CallLeft' \in {1, 3, NumPages + 5}
  <2>1. CASE call'.at = "table"
    BY <1>2, <2>1, SomePages DEF CallLeft
  <2>2. CASE call'.at # "table"
    BY <1>2, <2>2 DEF CallLeft
  <2>3. QED
    BY <2>1, <2>2
<1>5. CallLeft' < CallLeft
  BY <1>3, <1>4, SomePages
<1>6. QED
  BY <1>1, <1>5, MyallocateInv, CallIsFewer

(* A round of the loop over the pages brings the first page nearer. *)
LEMMA RoundIsFewer == ASSUME IInv, initialize_memory PROVE Fewer
<1>1. proc = "running" /\ call.at = "table" /\ UNCHANGED <<at, proc>>
  BY DEF initialize_memory, At, program
<1>2. call.i \in 0..(NumPages - 1)
  <2>1. call.i \in (-1)..(NumPages - 1)
    BY DEF IInv, TypeOK
  <2>2. call.i >= 0
    BY <1>1 DEF IInv, TableInv
  <2>3. QED
    BY <2>1, <2>2, SomePages
<1>3. call'.i = call.i - 1 /\ call'.at = IF call.i = 0 THEN "file" ELSE "table"
  BY <1>1 DEF initialize_memory, IInv, TypeOK
<1>4. CallLeft = call.i + 6
  BY <1>1 DEF CallLeft
<1>5. CallLeft' = call.i + 5
  <2>1. CASE call.i = 0
    BY <1>3, <2>1 DEF CallLeft
  <2>2. CASE call.i # 0
    BY <1>2, <1>3, <2>2 DEF CallLeft
  <2>3. QED
    BY <2>1, <2>2
<1>6. CallLeft' < CallLeft
  BY <1>2, <1>4, <1>5
<1>7. QED
  BY <1>1, <1>6, TableStepInv, CallIsFewer

(* The steps after the table was built. *)
LEMMA LaterIsFewer ==
    ASSUME IInv, fileCreation \/ findSpace \/ protectMem
    PROVE  Fewer
<1>1. proc = "running" /\ call.at \in {"file", "file again", "find", "protect"}
  BY DEF fileCreation, findSpace, protectMem, At
<1>2. \/ MayFail \/ \E how \in {"failed", "crashed", "success"} : Exit(how)
      \/ /\ UNCHANGED <<manager, program, proc>>
         /\ \/ call.at = "file" /\ call' = [call EXCEPT !.at = "file again"]
            \/ call.at = "file again" /\ call' = [call EXCEPT !.at = "find"]
            \/ call.at = "find" /\ call' = [call EXCEPT !.at = "protect", !.ret = NULL]
            \/ call.at = "protect" /\ call' = [call EXCEPT !.at = "return"]
  BY <1>1 DEF fileCreation, findSpace, protectMem, At, Goto, give_allocation,
              give_new_page, unProtectMem
<1>3. CASE MayFail \/ \E how \in {"failed", "crashed", "success"} : Exit(how)
  BY <1>1, <1>3, FailureIsFewer
<1>4. CASE /\ UNCHANGED <<manager, program, proc>>
           /\ \/ call.at = "file" /\ call' = [call EXCEPT !.at = "file again"]
              \/ call.at = "file again" /\ call' = [call EXCEPT !.at = "find"]
              \/ call.at = "find" /\ call' = [call EXCEPT !.at = "protect", !.ret = NULL]
              \/ call.at = "protect" /\ call' = [call EXCEPT !.at = "return"]
  <2>1. \/ call.at = "file" /\ call'.at = "file again"
        \/ call.at = "file again" /\ call'.at = "find"
        \/ call.at = "find" /\ call'.at = "protect"
        \/ call.at = "protect" /\ call'.at = "return"
    BY <1>4 DEF IInv, TypeOK
  <2>2. CallLeft' < CallLeft
    <3>1. /\ call.at = "file" => CallLeft = 5
          /\ call.at = "file again" => CallLeft = 4
          /\ call.at = "find" => CallLeft = 3
          /\ call.at = "protect" => CallLeft = 2
      BY DEF CallLeft
    <3>2. /\ call'.at = "file again" => CallLeft' = 4
          /\ call'.at = "find" => CallLeft' = 3
          /\ call'.at = "protect" => CallLeft' = 2
          /\ call'.at = "return" => CallLeft' = 1
      BY DEF CallLeft
    <3>3. \/ CallLeft = 5 /\ CallLeft' = 4
          \/ CallLeft = 4 /\ CallLeft' = 3
          \/ CallLeft = 3 /\ CallLeft' = 2
          \/ CallLeft = 2 /\ CallLeft' = 1
      BY <2>1, <3>1, <3>2
    <3>4. QED
      BY <3>3
  <2>3. IInv'
    BY FileInv, FindInv, ProtectInv
  <2>4. UNCHANGED <<at, proc>>
    BY <1>4 DEF program
  <2>5. QED
    BY <1>1, <2>2, <2>3, <2>4, CallIsFewer
<1>5. QED
  BY <1>2, <1>3, <1>4

(* The number at the start. *)
LEMMA StepsAtFirst == Init => StepsLeft = 3 * NumPages + 31
<1> SUFFICES ASSUME Init PROVE StepsLeft = 3 * NumPages + 31
  OBVIOUS
<1>1. \A c \in Worker \cup {"main"} : Stage[at[c]] = NumPages + 10
  BY SomePages DEF Init, Stage, CallSteps
<1>2. CallLeft = 0 /\ proc = "running"
  BY DEF Init, CallLeft
<1>3. QED
  BY <1>1, <1>2, SomePages DEF StepsLeft, Worker

(* Every step leaves fewer. *)
LEMMA StepIsFewer == ASSUME IInv, Next PROVE Fewer
<1>1. ASSUME main PROVE Fewer
  <2>1. CASE MayFail
    BY <1>1, <2>1, FailureIsFewer DEF main, Runs, At
  <2>2. CASE ~MayFail
    <3>1. /\ proc = "running" /\ at["main"] = "start" /\ UNCHANGED <<call, proc>>
          /\ at' = [at EXCEPT !["main"] = "swapped"]
      BY <1>1, <2>2 DEF main, Runs, At
    <3>2. CallLeft' = CallLeft /\ CallLeft \in Nat
      BY <3>1, StepsCount DEF CallLeft, Counts
    <3>3. Stage["swapped"] = 1 /\ Stage[at["main"]] = NumPages + 10
      BY <3>1, SomePages DEF Stage, CallSteps
    <3>4. Stage["swapped"] + CallLeft' < Stage[at["main"]] + CallLeft
      BY <3>2, <3>3, SomePages
    <3>5. QED
      BY <1>1, <3>1, <3>4, MainInv, ProgramIsFewer
  <2>3. QED
    BY <2>1, <2>2
<1>2. ASSUME NEW f \in Worker, NEW size \in Request, request(f, size) PROVE Fewer
  <2>1. /\ proc = "running" /\ at[f] = "start" /\ call.at = "none" /\ UNCHANGED proc
        /\ call'.at = "entry"
        /\ at' = [at EXCEPT ![f] = "asked"]
    BY <1>2 DEF request, Runs, At
  <2>2. CallLeft = 0 /\ CallLeft' = NumPages + 6
    BY <2>1 DEF CallLeft, CallSteps
  <2>3. Stage["asked"] = 3 /\ Stage[at[f]] = NumPages + 10
    BY <2>1, SomePages DEF Stage, CallSteps
  <2>4. Stage["asked"] + CallLeft' < Stage[at[f]] + CallLeft
    BY <2>2, <2>3, SomePages
  <2>5. IInv'
    BY <1>2, RequestInv
  <2>6. QED
    BY <2>1, <2>4, <2>5, ProgramIsFewer
<1>3. ASSUME return PROVE Fewer
  <2>1. /\ proc = "running" /\ call.at = "return" /\ UNCHANGED proc
        /\ call'.at = "none"
        /\ at' = [at EXCEPT ![ctx] = "served"]
    BY <1>3 DEF return, At, Goto, IInv, TypeOK
  <2>2. ctx \in Worker /\ at[ctx] = "asked"
    BY <2>1 DEF IInv, OrderInv
  <2>3. CallLeft = 1 /\ CallLeft' = 0
    BY <2>1 DEF CallLeft
  <2>4. Stage["served"] + CallLeft' < Stage[at[ctx]] + CallLeft
    BY <2>2, <2>3 DEF Stage
  <2>5. IInv'
    BY <1>3, ReturnedInv
  <2>6. QED
    BY <2>1, <2>2, <2>4, <2>5, ProgramIsFewer
<1>4. ASSUME NEW f \in Worker, swapcontext(f) PROVE Fewer
  <2>1. CASE MayFail
    BY <1>4, <2>1, FailureIsFewer DEF swapcontext, Runs, At
  <2>2. CASE ~MayFail
    <3>1. /\ proc = "running" /\ at[f] = "served" /\ UNCHANGED <<call, proc>>
          /\ at' = [at EXCEPT ![f] = "swapped"]
      BY <1>4, <2>2 DEF swapcontext, Runs, At
    <3>2. CallLeft' = CallLeft /\ CallLeft \in Nat
      BY <3>1, StepsCount DEF CallLeft, Counts
    <3>3. Stage["swapped"] + CallLeft' < Stage[at[f]] + CallLeft
      BY <3>1, <3>2 DEF Stage
    <3>4. IInv'
      BY <1>4, SwapInv
    <3>5. QED
      BY <3>1, <3>3, <3>4, ProgramIsFewer
  <2>3. QED
    BY <2>1, <2>2
<1>5. ASSUME NEW f \in Worker, Return(f) PROVE Fewer
  <2>1. /\ proc = "running" /\ at[f] = "swapped" /\ UNCHANGED call
        /\ at' = [at EXCEPT ![f] = "done"]
        /\ proc' = "ended" \/ UNCHANGED proc
    BY <1>5 DEF Return, Runs, At
  <2>2. CASE proc' = "ended"
    BY <2>1, <2>2, EndIsFewer
  <2>3. CASE UNCHANGED proc
    <3>1. CallLeft' = CallLeft /\ CallLeft \in Nat
      BY <2>1, StepsCount DEF CallLeft, Counts
    <3>2. Stage["done"] + CallLeft' < Stage[at[f]] + CallLeft
      BY <2>1, <3>1 DEF Stage
    <3>3. IInv'
      BY <1>5, ReturnInv
    <3>4. QED
      BY <2>1, <2>3, <3>2, <3>3, ProgramIsFewer
  <2>4. QED
    BY <2>1, <2>2, <2>3
<1>6. ASSUME mainExits PROVE Fewer
  BY <1>6, FailureIsFewer DEF mainExits, Runs, At
<1>7. QED
  BY <1>1, <1>2, <1>3, <1>4, <1>5, <1>6, MyallocateIsFewer, RoundIsFewer,
     LaterIsFewer DEF Next

-----------------------------------------------------------------------------
(* The inductive invariant holds in every reachable state, for every       *)
(* layout and every set of requests.                                       *)
THEOREM Invariance == Spec => []IInv
<1>1. Init => IInv
  BY InitInv
<1>2. IInv /\ [Next]_vars => IInv'
  BY StepInv
<1>3. QED
  BY <1>1, <1>2, PTL DEF Spec

(* The variables have their types: every index of the page table is that   *)
(* of a page (malloc.c:746-774).                                           *)
THEOREM TypeCorrect == Spec => []TypeOK
<1>1. IInv => TypeOK
  BY DEF IInv
<1>2. QED
  BY <1>1, Invariance, PTL

(* The page table is exact at every step of its construction and complete  *)
(* when it is searched (malloc.c:746-774, 796-821).                        *)
THEOREM TableIsExact == Spec => []TableExact
<1>1. IInv => TableExact
  BY TableFacts
<1>2. QED
  BY <1>1, Invariance, PTL

(* No layout in which the entries fit in the table's pages lets the        *)
(* construction of the table reach Master->tid (malloc.h:36-40).           *)
THEOREM MasterIsIntact == Spec => []MasterIntact
<1>1. IInv => MasterIntact
  BY DEF IInv, TableInv, MasterIntact
<1>2. QED
  BY <1>1, Invariance, PTL

(* A failed memalign ends the process in the call that made it, before the *)
(* request is answered (malloc.c:123-133, 806-835).                        *)
THEOREM FailedMemalignEnds == Spec => []NoAnswerWithoutMemory
<1>1. Init => NoAnswerWithoutMemory
  BY RequestAssumption DEF Init, NoAnswerWithoutMemory
<1>2. TypeOK /\ NoAnswerWithoutMemory /\ [Next]_vars => NoAnswerWithoutMemory'
  <2> SUFFICES ASSUME TypeOK, NoAnswerWithoutMemory, [Next]_vars
               PROVE  NoAnswerWithoutMemory'
    OBVIOUS
  <2> DEFINE Building == {"table", "file", "file again", "find", "protect"}
  <2>1. CASE UNCHANGED <<memory, call>>
    BY <2>1 DEF NoAnswerWithoutMemory
  <2>2. CASE myallocate
    BY <2>2, RequestAssumption DEF myallocate, NoAnswerWithoutMemory, At, Goto, TypeOK
  <2>3. CASE initialize_memory
    BY <2>3 DEF initialize_memory, NoAnswerWithoutMemory, At, TypeOK
  <2>4. CASE fileCreation
    BY <2>4 DEF fileCreation, MayFail, Exit, NoAnswerWithoutMemory, At, Goto, TypeOK, manager
  <2>5. CASE findSpace
    BY <2>5 DEF findSpace, give_allocation, Exit, NoAnswerWithoutMemory, At, TypeOK, manager
  <2>6. CASE protectMem
    BY <2>6 DEF protectMem, unProtectMem, MayFail, Exit, NoAnswerWithoutMemory, manager
  <2>7. CASE return \/ \E f \in Worker, size \in Request : request(f, size)
    BY <2>7 DEF return, request, Runs, At, NoAnswerWithoutMemory, manager
  <2>8. QED
    BY <2>1, <2>2, <2>3, <2>4, <2>5, <2>6, <2>7
    DEF Next, main, swapcontext, Return, mainExits, MayFail, Exit, manager, vars
<1>3. QED
  BY <1>1, <1>2, TypeCorrect, PTL DEF Spec

(* main exits after func1 returned and func1 returned after func2          *)
(* (malloc.c:858-928).                                                     *)
THEOREM MainIsLast == Spec => []MainExitsLast
<1>1. IInv => MainExitsLast
  BY DEF IInv
<1>2. QED
  BY <1>1, Invariance, PTL

(* No behaviour of the program has more than 3 NumPages + 31 steps, the    *)
(* number at the start: each step leaves fewer (malloc.c:746-774,          *)
(* 858-932).                                                               *)
THEOREM StepsRunOut == Spec => RunsDown /\ StepsLeft = 3 * NumPages + 31
<1>1. ASSUME IInv, [Next]_vars PROVE [StepsLeft' \in 0..(StepsLeft - 1)]_vars
  BY <1>1, StepIsFewer DEF Fewer
<1>2. QED
  BY <1>1, Invariance, StepsAtFirst, PTL DEF Spec, RunsDown

=============================================================================
