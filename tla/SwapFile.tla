------------------------------ MODULE SwapFile ------------------------------
(***************************************************************************)
(* The swap file of malloc.c:100-326, down to the system calls, and the    *)
(* exchange of two pages in memory (malloc.c:383-407), which shares the    *)
(* temporary page with it.  A step is one call of lseek, read or write, or *)
(* one memcpy: read and write move at least one unit of a page and may     *)
(* move fewer than they were asked for, or fail.                           *)
(*                                                                         *)
(* Addresses count from the temporary page, which the page frames follow;  *)
(* the addresses below it are the end of the page table.                   *)
(***************************************************************************)
EXTENDS Integers

CONSTANTS
    PageSize,   \* units in a page
    RamPages,   \* page frames
    DiskPages,  \* pages of the swap file
    segSwap,    \* pages that one swap exchanges
    swapStart,  \* the offset of the first page in the file
    BlockSize,  \* sizeof(block)
    Unit,       \* what a unit may hold
    Zero,       \* what a new file is filled with
    Memories,   \* what memory may hold at first
    MaxErrors,  \* a bound on the reads and writes of pages that fail
    LengthFails, \* whether the write that gives the file its length may fail
    SeekFails   \* whether open and lseek may fail

ASSUME SizeAssumption ==
    /\ PageSize \in Nat \ {0} /\ swapStart \in Nat /\ MaxErrors \in Nat
    /\ segSwap \in Nat \ {0} /\ RamPages \in Nat /\ DiskPages \in Nat
    /\ BlockSize \in 1..(PageSize - 1)

addrTemp == 0
MasterAddr == addrTemp
PageAddr(r) == (r + 1) * PageSize
Address == (-MaxErrors)..(PageAddr(RamPages) - 1)

ASSUME UnitAssumption ==
    /\ Zero \in Unit /\ Memories \subseteq [Address -> Unit]
    /\ SeekFails \in BOOLEAN /\ LengthFails \in BOOLEAN

FilePage(d) == swapStart + d * PageSize
FileEnd == FilePage(DiskPages)

VARIABLES
    mem,     \* the temporary page and the page frames
    file,    \* the units of the file, by offset
    length,  \* the length of the file
    pos,     \* the file offset that lseek, read and write move
    proc,    \* whether the process runs
    page,    \* the page table: the frame of each entry, by index
    call,    \* the call that is under way
    errors   \* reads and writes that failed so far

vars == <<mem, file, length, pos, proc, page, call, errors>>
content == <<mem, file, length, page, errors>>

At(a) == proc = "running" /\ call.at = a

Goto(a) == call' = [call EXCEPT !.at = a]

Exit ==
    /\ SeekFails
    /\ proc' = "exited"
    /\ UNCHANGED <<content, pos, call>>

(* lseek to offset p, and on to a. *)
Seek(p, a) ==
    \/ /\ pos' = p
       /\ Goto(a)
       /\ UNCHANGED <<content, proc>>
    \/ Exit

-----------------------------------------------------------------------------
(* The file is created: the write at its end gives it its length, and the  *)
(* result of that write is not looked at.                                  *)
fileCreate ==
    /\ At("start")
    /\ \/ /\ length' \in {FileEnd + 1} \cup (IF LengthFails THEN {0} ELSE {})
          /\ file' = [o \in 0..(length' - 1) |-> Zero]
          /\ Goto("idle")
          /\ UNCHANGED <<mem, pos, proc, page, errors>>
       \/ Exit

-----------------------------------------------------------------------------
(* Transfers. *)

Least(a, b) == IF a < b THEN a ELSE b

(* What read or write may return when `asked' units are asked for and      *)
(* `there' are at hand: -1 is a failure.                                   *)
Results(asked, there) ==
    (IF Least(asked, there) = 0 THEN {0} ELSE 1..Least(asked, there))
      \cup (IF errors < MaxErrors THEN {-1} ELSE {})

(* Faulty Remainings: the last unit of a page is forgotten; a whole page   *)
(* is asked for in every round.                                            *)
Remaining_OffByOne(off, amount) == amount - 1 - off
Remaining_Whole(off, amount) == amount

Remaining(off, amount) == amount - off

(* The units of the file from the offset on. *)
Ahead == IF pos < length THEN length - pos ELSE 0

(* read(Fd, base + off, ...) returned n. *)
Fetch(base, n) ==
    LET to == base + call.off
    IN  mem' = [a \in Address |->
                   IF a \in to..(to + n - 1) THEN file[pos + a - to] ELSE mem[a]]

(* write(Fd, base + off, ...) returned n. *)
Store(base, n) ==
    LET from == base + call.off
    IN  /\ length' = IF pos + n > length THEN pos + n ELSE length
        /\ file' = [o \in 0..(length' - 1) |->
                       IF o \in pos..(pos + n - 1) THEN mem[from + o - pos]
                       ELSE IF o < length THEN file[o] ELSE Zero]

(* Faulty loops: the end of the file ends the page as well. *)
Moved_EndOfFile(n, back) ==
    /\ pos' = IF n = -1 THEN pos ELSE pos + n
    /\ errors' = IF n = -1 THEN errors + 1 ELSE errors
    /\ call' = [call EXCEPT !.off = @ + n,
                            !.at = IF n # 0 /\ call.off + n < PageSize THEN @ ELSE back]

(* The loops add the result to `off', a failure too, and end at a page.    *)
Moved(n, back) ==
    /\ pos' = IF n = -1 THEN pos ELSE pos + n
    /\ errors' = IF n = -1 THEN errors + 1 ELSE errors
    /\ call' = [call EXCEPT !.off = @ + n,
                            !.at = IF call.off + n < PageSize THEN @ ELSE back]

-----------------------------------------------------------------------------
(* swap(Fd, addrRec, addrTemp, swapFDist). *)

swap(rec, dist) ==
    /\ At("idle")
    /\ call' = [at |-> "reset", rec |-> rec, dist |-> dist, i |-> 0, off |-> 0,
                page1 |-> 0, page2 |-> 0]
    /\ UNCHANGED <<content, pos, proc>>

(* A faulty reset: the pages are counted from the start of the file. *)
resetFilePointer_Zero == At("reset") /\ Seek(0, "skip")

resetFilePointer == At("reset") /\ Seek(swapStart, "skip")

moveCur == At("skip") /\ Seek(pos + call.dist * PageSize, "read")

readPage ==
    /\ At("read")
    /\ \E n \in Results(Remaining(call.off, PageSize), Ahead) :
          Fetch(addrTemp, n) /\ Moved(n, "readBack")
    /\ UNCHANGED <<file, length, page, proc>>

(* The end of readPage and of writePage: the offset goes back a page. *)
Back_Stays(p) == p

Back(p) == p - PageSize

readBack ==
    /\ At("readBack")
    /\ \/ /\ pos' = Back(pos)
          /\ call' = [call EXCEPT !.at = "write", !.off = 0]
          /\ UNCHANGED <<content, proc>>
       \/ Exit

writePage ==
    /\ At("write")
    /\ \E n \in LET r == Remaining(call.off, PageSize) IN Results(r, r) :
          Store(PageAddr(call.rec + call.i), n) /\ Moved(n, "writeBack")
    /\ UNCHANGED <<mem, page, proc>>

writeBack == At("writeBack") /\ Seek(Back(pos), "copy")

(* A faulty memcpy: the block at the start of the page stays. *)
Copied_NoBlock(to, from) ==
    [a \in Address |-> IF a \in (to + BlockSize)..(to + PageSize - 1)
                       THEN mem[from + a - to] ELSE mem[a]]

(* Memory after memcpy of a page. *)
Copied(to, from) ==
    [a \in Address |-> IF a \in to..(to + PageSize - 1) THEN mem[from + a - to] ELSE mem[a]]

memcpy ==
    /\ At("copy")
    /\ mem' = Copied(PageAddr(call.rec + call.i), addrTemp)
    /\ Goto("next")
    /\ UNCHANGED <<file, length, pos, proc, page, errors>>

(* A faulty movePage: the loop of swap does not count its rounds.          *)
movePage_NotCounted ==
    /\ At("next")
    /\ \/ /\ pos' = pos + PageSize
          /\ call' = [call EXCEPT !.off = 0,
                                  !.at = IF call.i + 1 < segSwap THEN "read" ELSE "idle"]
          /\ UNCHANGED <<content, proc>>
       \/ Exit

movePage ==
    /\ At("next")
    /\ \/ /\ pos' = pos + PageSize
          /\ call' = [call EXCEPT !.i = @ + 1, !.off = 0,
                                  !.at = IF call.i + 1 < segSwap THEN "read" ELSE "idle"]
          /\ UNCHANGED <<content, proc>>
       \/ Exit

-----------------------------------------------------------------------------
(* findFreeSwap and findPageSwap read the first block of a page with       *)
(* readAmount, whose loop ends at a page too: it asks for what is left of  *)
(* the block, then for nothing.  What follows the loop is never reached    *)
(* and has no action.                                                      *)

findSwap ==
    /\ At("idle")
    /\ call' = [call EXCEPT !.at = "amount", !.off = 0]
    /\ UNCHANGED <<content, pos, proc>>

readAmount ==
    /\ At("amount")
    /\ \E n \in Results(Remaining(call.off, BlockSize), Ahead) :
          Fetch(addrTemp, n) /\ Moved(n, "found")
    /\ UNCHANGED <<file, length, page, proc>>

-----------------------------------------------------------------------------
(* The cursor functions that leave the offset where the caller asked. *)

moveCurABS(dist) == At("idle") /\ Seek(dist, "idle")

resetABS == At("idle") /\ Seek(0, "idle")

-----------------------------------------------------------------------------
(* swap_in_memory(page1, page2), which takes two pages through the         *)
(* temporary one and then looks for them in the page table.                *)

swap_in_memory(page1, page2) ==
    /\ At("idle")
    /\ call' = [at |-> "to temp", rec |-> 0, dist |-> 0, i |-> 0, off |-> 0,
                page1 |-> page1, page2 |-> page2]
    /\ UNCHANGED <<content, pos, proc>>

(* The three copies. *)
copyPages ==
    /\ \/ /\ At("to temp")
          /\ mem' = Copied(addrTemp, PageAddr(call.page2))
          /\ Goto("to page2")
       \/ /\ At("to page2")
          /\ mem' = Copied(PageAddr(call.page2), PageAddr(call.page1))
          /\ Goto("to page1")
       \/ /\ At("to page1")
          /\ mem' = Copied(PageAddr(call.page1), addrTemp)
          /\ Goto("entries")
    /\ UNCHANGED <<file, length, pos, proc, page, errors>>

(* The page of entry e after one round of the loop. *)
Exchanged(frames, e) ==
    [frames EXCEPT ![e] = IF @ = call.page1 THEN call.page2
                          ELSE IF @ = call.page2 THEN call.page1
                          ELSE @]

(* One round of the loop over the page table.  The loop starts at the      *)
(* first entry, i = 0, and has no step to the next.                        *)
exchangeEntry ==
    /\ At("entries")
    /\ page' = Exchanged(page, call.i)
    /\ UNCHANGED <<mem, file, length, pos, proc, call, errors>>

-----------------------------------------------------------------------------
Init ==
    /\ mem \in Memories
    /\ file = [o \in {} |-> Zero]
    /\ length = 0
    /\ pos = 0
    /\ proc = "running"
    /\ page = [e \in 0..(RamPages - 1) |-> e]
    /\ call = [at |-> "start", rec |-> 0, dist |-> 0, i |-> 0, off |-> 0,
               page1 |-> 0, page2 |-> 0]
    /\ errors = 0

(* The steps of a call that is under way. *)
Step ==
    \/ resetFilePointer
    \/ moveCur
    \/ readPage
    \/ readBack
    \/ writePage
    \/ writeBack
    \/ memcpy
    \/ movePage
    \/ readAmount
    \/ copyPages
    \/ exchangeEntry

Next ==
    \/ fileCreate
    \/ \E rec \in 0..(RamPages - segSwap), dist \in 0..(DiskPages - segSwap) :
          swap(rec, dist)
    \/ findSwap
    \/ \E dist \in 0..FileEnd : moveCurABS(dist)
    \/ resetABS
    \/ \E page1, page2 \in 0..(RamPages - 1) : swap_in_memory(page1, page2)
    \/ Step

Spec == Init /\ [][Next]_vars

(* The process runs: it does not stop in the middle of a call while a      *)
(* system call that does not fail, or a memcpy, takes it further.  Nothing *)
(* says that a transfer ever fails.                                        *)
FairSpec == Spec /\ WF_vars(Step /\ UNCHANGED errors)

-----------------------------------------------------------------------------
(* Properties. *)

Places == {"start", "idle", "reset", "skip", "read", "readBack", "write",
           "writeBack", "copy", "next", "amount", "found", "to temp", "to page2",
           "to page1", "entries"}

(* The types of the variables.  The ranges of off, i and rec say that no   *)
(* transfer leaves its page and no swap its segment, and that the offset   *)
(* is never set back before the start of the file.                         *)
TypeOK ==
    /\ mem \in [Address -> Unit]
    /\ length \in Nat /\ file \in [0..(length - 1) -> Unit]
    /\ pos \in Nat
    /\ proc \in {"running", "exited"}
    /\ page \in [0..(RamPages - 1) -> 0..(RamPages - 1)]
    /\ call \in [at : Places, rec : 0..RamPages, dist : 0..DiskPages,
                 i : 0..segSwap, off : (-errors)..PageSize,
                 page1 : 0..RamPages, page2 : 0..RamPages]
    /\ errors \in 0..MaxErrors

PageIn(base) == [k \in 0..(PageSize - 1) |-> mem[base + k]]
PageOf(d) == [k \in 0..(PageSize - 1) |-> file[FilePage(d) + k]]
ZeroPage == [k \in 0..(PageSize - 1) |-> Zero]

(* The page of the file that is being overwritten, and the frame in        *)
(* memory; both are in the temporary page until the last memcpy, while the *)
(* process runs: it never ends with a frame saved there.                   *)
Saved(d) ==
    /\ proc = "running"
    /\ d = call.dist + call.i /\ call.at \in {"write", "writeBack", "copy"}
SavedFrame(r) == r = call.page2 /\ call.at = "to page1"

Abstract == INSTANCE SegmentSwap WITH
    Ram <- 0..(RamPages - 1),
    Disk <- 0..(DiskPages - 1),
    Page <- [0..(PageSize - 1) -> Unit],
    ram <- [r \in 0..(RamPages - 1) |->
               IF SavedFrame(r) THEN PageIn(addrTemp) ELSE PageIn(PageAddr(r))],
    disk <- [d \in 0..(DiskPages - 1) |->
                IF length = 0 THEN ZeroPage
                ELSE IF Saved(d) THEN PageIn(addrTemp)
                ELSE PageOf(d)],
    stopped <- (proc = "exited")

(* While no read and no write of a page fails, however short they are and  *)
(* wherever a caller left the offset, swap exchanges the pages of its two  *)
(* segments one by one, swap_in_memory exchanges two frames, and neither   *)
(* changes anything else; an lseek that fails after a page was written out *)
(* ends the process and loses that one page of the file, and no other      *)
(* (malloc.c:157-190, 262-284, 387-391).                                   *)
SwapIsExchange == Abstract!Spec

(* How far the file offset is ahead of where the loops over a page count   *)
(* themselves: a read or write that fails takes `off' one unit back and    *)
(* leaves the offset where it is.                                          *)
Drift ==
    LET start == FilePage(call.dist + call.i)
    IN  IF call.at \in {"read", "readBack", "write", "writeBack"} THEN pos - (start + call.off)
        ELSE IF call.at \in {"copy", "next"} THEN pos - start
        ELSE 0

(* A failure spoils no swap but the one it happens in.  As long as nothing *)
(* has failed every step moves pages as SegmentSwap says, and after a      *)
(* failure so does every step of a swap in which no read and no write of a *)
(* page has failed so far, and every step of another call                  *)
(* (malloc.c:222-284).                                                     *)
FailureSpoilsOneSwap ==
    /\ Abstract!Init
    /\ [][(errors' = 0 /\ errors = 0) \/ (Drift = 0 /\ Drift' = 0)
             => Abstract!Next]_(Abstract!vars)

(* The units of memory, and of the file, that a step may change. *)
PageUnits(from, more) == from..(from + PageSize - 1 + more)
MemWritten ==
    (-errors)..(PageSize - 1)
      \cup (IF call.at = "copy" THEN PageUnits(PageAddr(call.rec + call.i), 0)
            ELSE IF call.at = "to page2" THEN PageUnits(PageAddr(call.page2), 0)
            ELSE IF call.at = "to page1" THEN PageUnits(PageAddr(call.page1), 0)
            ELSE {})
FileWritten ==
    IF call.at = "write" THEN PageUnits(FilePage(call.dist + call.i), errors) ELSE {}

(* However short the transfers are and however many fail, no step changes  *)
(* a page frame but the one it brings a page to, more units below the      *)
(* temporary page than transfers have failed, a unit of the file in front  *)
(* of the page it writes, or more units behind that page than transfers    *)
(* have failed (malloc.c:222-284, 383-391).                                *)
TransfersStayNear ==
    [][/\ \A a \in Address \ MemWritten : mem'[a] = mem[a]
       /\ call.at # "start" =>
             /\ length <= length'
             /\ \A o \in 0..(length' - 1) \ FileWritten :
                   o < length /\ file'[o] = file[o]]_vars

(* When the file never got its length, a swap stays at its first read: no  *)
(* page is written out or replaced by what the temporary page happens to   *)
(* hold (malloc.c:150, 229-232, 278-280).                                  *)
EmptyFileKeepsPages ==
    length = 0 =>
        call.at \notin {"readBack", "write", "writeBack", "copy", "next"}

(* Master->tid is the first unit of the temporary page: after a swap it is *)
(* that of the last page brought in, and after swap_in_memory that of      *)
(* page1, whatever thread runs (malloc.h:40-41, malloc.c:278-280,          *)
(* 389-391).                                                               *)
MasterHoldsLastPage ==
    /\ call.at = "idle" /\ call.i = segSwap =>
          mem[MasterAddr] = mem[PageAddr(call.rec + segSwap - 1)]
    /\ call.at = "entries" => mem[MasterAddr] = mem[PageAddr(call.page1)]

(* A bound on the steps that are left of a swap: a round for each page,    *)
(* with a transfer of each unit of it from the file and to the file.       *)
RoundSteps == 2 * PageSize + 4
UnitsLeft == IF call.at \in {"read", "write"} THEN PageSize - call.off ELSE 0
RoundLeft ==
    CASE call.at \in {"reset", "skip"} -> RoundSteps + (IF call.at = "reset" THEN 2 ELSE 1)
      [] call.at \in {"read", "readBack"} -> UnitsLeft + PageSize + 4
      [] call.at \in {"write", "writeBack"} -> UnitsLeft + 3
      [] call.at = "copy" -> 2
      [] call.at = "next" -> 1
      [] OTHER -> 0
SwapLeft ==
    IF RoundLeft = 0 THEN 0 ELSE RoundLeft + (segSwap - 1 - call.i) * RoundSteps

(* Every step of a swap brings its end nearer: it takes the swap further,  *)
(* or ends the process, or is a transfer that fails, which costs one more  *)
(* step.  The one exception is a read that finds nothing, on a file        *)
(* without length or, behind its end, after a failure in the same swap     *)
(* (malloc.c:222-284).                                                     *)
SwapRunsDown ==
    [][SwapLeft # 0 =>
          \/ SwapLeft' \in 0..(SwapLeft - 1)
          \/ proc' = "exited"
          \/ errors' = errors + 1 /\ SwapLeft' = SwapLeft + 1
          \/ call.at = "read" /\ Ahead = 0 /\ (length = 0 \/ Drift # 0)]_vars

(* A swap that was called ends, with the exchange or with the process,     *)
(* unless the file has no length or one of its transfers failed            *)
(* (malloc.c:150, 222-284).                                                *)
SwapEnds ==
    At("reset") /\ length # 0 ~> At("idle") \/ proc = "exited" \/ Drift # 0

-----------------------------------------------------------------------------
(* What comments of the repository say and the code does not do. *)

(* After readPage the temporary page holds the page of the file            *)
(* ("Read swap to temp", malloc.c:278), though a read failed and was       *)
(* repeated.                                                               *)
ReadFillsTemp == At("readBack") => PageIn(addrTemp) = PageOf(call.dist + call.i)

(* findFreeSwap locates a free page of the swap file and returns its       *)
(* distance (malloc.c:286-287): a search that was called ends.             *)
SearchEnds == At("amount") ~> ~At("amount")

(* swap_in_memory swaps two pages and changes their pointers in the page   *)
(* table (malloc.c:383, 393): asked for the page of the first entry and    *)
(* another one, it returns.                                                *)
ExchangeReturns ==
    At("to temp") /\ call.page1 = page[0] /\ call.page2 # call.page1 ~> At("idle")

=============================================================================
