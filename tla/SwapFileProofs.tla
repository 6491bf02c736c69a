--------------------------- MODULE SwapFileProofs ---------------------------
(***************************************************************************)
(* Proofs about SwapFile, for every size of a page, of memory, of the file *)
(* and of a segment, every number of failed transfers, and whether or not  *)
(* the file gets its length and lseek works.                               *)
(***************************************************************************)
EXTENDS SwapFile, TLAPS

(* Where a swap and an exchange in memory are. *)
Swapping == {"reset", "skip", "read", "readBack", "write", "writeBack", "copy", "next"}
Exchanging == {"to temp", "to page2", "to page1", "entries"}

(* The calls, when e transfers have failed. *)
Calls(e) == [at : Places, rec : 0..RamPages, dist : 0..DiskPages, i : 0..segSwap,
             off : (-e)..PageSize, page1 : 0..RamPages, page2 : 0..RamPages]

(* The pages a call works on exist. *)
Placed ==
    /\ call.at \in Swapping =>
          /\ call.rec + segSwap <= RamPages
          /\ call.dist + segSwap <= DiskPages
          /\ call.i < segSwap
    /\ call.at \in Exchanging =>
          /\ call.page1 \in 0..(RamPages - 1) /\ call.page2 \in 0..(RamPages - 1)
          /\ call.i = 0
    /\ call.at = "start" => call.i = 0 /\ length = 0

(* How far a transfer is.  A failure takes `off' back and leaves the file  *)
(* offset, so the file offset never falls behind it.                       *)
Advanced ==
    /\ call.at \in {"reset", "skip"} => call.off = 0 /\ call.i = 0
    /\ call.at \in {"read", "write"} => call.off < PageSize /\ call.off <= pos
    /\ call.at \in {"readBack", "writeBack"} => call.off = PageSize /\ PageSize <= pos
    /\ call.at = "amount" => call.off <= BlockSize

(* The last page that was brought in is the one in the temporary page. *)
Fetched ==
    /\ call.at = "next" => mem[addrTemp] = mem[PageAddr(call.rec + call.i)]
    /\ MasterHoldsLastPage

IInv ==
    /\ TypeOK
    /\ Placed
    /\ Advanced
    /\ Fetched
    /\ EmptyFileKeepsPages

-----------------------------------------------------------------------------
(* Where pages are. *)

(* A multiple of a page is no smaller than nothing and grows by pages. *)
LEMMA Multiples ==
    ASSUME NEW a \in Nat, NEW b \in Nat, a < b
    PROVE  /\ a * PageSize \in Nat
           /\ (a + 1) * PageSize = a * PageSize + PageSize
           /\ a * PageSize + PageSize <= b * PageSize
<1> PageSize \in Nat
  BY SizeAssumption
<1>1. /\ a * PageSize \in Nat /\ (b - (a + 1)) * PageSize \in Nat
      /\ (a + 1) * PageSize = a * PageSize + PageSize
  OBVIOUS
<1>2. b * PageSize = (a + 1) * PageSize + (b - (a + 1)) * PageSize
  OBVIOUS
<1>3. a * PageSize \in Nat /\ b * PageSize \in Nat
  OBVIOUS
<1>4. QED
  BY <1>1, <1>2, <1>3

(* Page frames follow the temporary page and each other. *)
LEMMA Frames ==
    /\ \A r \in Nat : /\ PageAddr(r) \in Nat
                      /\ PageAddr(r + 1) = PageAddr(r) + PageSize
                      /\ PageSize <= PageAddr(r)
    /\ \A r, s \in Nat : r < s => PageAddr(r) + PageSize <= PageAddr(s)
<1>1. ASSUME NEW r \in Nat, NEW s \in Nat, r < s
      PROVE  PageAddr(r) + PageSize <= PageAddr(s)
  BY <1>1, Multiples, r + 1 \in Nat, s + 1 \in Nat, r + 1 < s + 1 DEF PageAddr
<1>2. ASSUME NEW r \in Nat
      PROVE  /\ PageAddr(r) \in Nat
             /\ PageAddr(r + 1) = PageAddr(r) + PageSize
             /\ PageSize <= PageAddr(r)
  <2>1. /\ (r + 1) * PageSize \in Nat
        /\ (r + 1 + 1) * PageSize = (r + 1) * PageSize + PageSize
    BY Multiples, r + 1 \in Nat, r + 2 \in Nat, r + 1 < r + 2
  <2>2. 0 * PageSize + PageSize <= (r + 1) * PageSize /\ 0 * PageSize = 0
    BY Multiples, r + 1 \in Nat, 0 < r + 1, SizeAssumption
  <2>3. QED
    BY <2>1, <2>2, SizeAssumption DEF PageAddr
<1>3. QED
  BY <1>1, <1>2

(* Pages of the file follow each other up to the end of the file. *)
LEMMA FilePages ==
    /\ \A d \in Nat : /\ FilePage(d) \in Nat
                      /\ FilePage(d + 1) = FilePage(d) + PageSize
    /\ \A d, e \in Nat : d < e => FilePage(d) + PageSize <= FilePage(e)
    /\ \A d \in Nat : d < DiskPages => FilePage(d) + PageSize <= FileEnd
<1>1. ASSUME NEW d \in Nat, NEW e \in Nat, d < e
      PROVE  FilePage(d) + PageSize <= FilePage(e)
  BY <1>1, Multiples, SizeAssumption DEF FilePage
<1>2. ASSUME NEW d \in Nat
      PROVE  FilePage(d) \in Nat /\ FilePage(d + 1) = FilePage(d) + PageSize
  BY Multiples, d + 1 \in Nat, d < d + 1, SizeAssumption DEF FilePage
<1>3. QED
  BY <1>1, <1>2, SizeAssumption DEF FileEnd

(* A page frame is in memory, below it only the temporary page. *)
LEMMA FrameFits ==
    ASSUME NEW r \in Nat, r < RamPages
    PROVE  /\ PageAddr(r)..(PageAddr(r) + PageSize - 1) \subseteq Address
           /\ 0..(PageSize - 1) \subseteq Address
           /\ PageSize <= PageAddr(r) /\ PageAddr(r) \in Nat
           /\ PageSize \in Nat /\ MaxErrors \in Nat
           /\ \A k \in (-MaxErrors)..(PageSize - 1) : PageAddr(r) + k \in Address
<1>1. /\ PageAddr(r) + PageSize <= PageAddr(RamPages)
      /\ PageAddr(r) \in Nat /\ PageAddr(RamPages) \in Nat /\ PageSize <= PageAddr(r)
      /\ PageSize \in Nat \ {0} /\ MaxErrors \in Nat
  BY Frames, SizeAssumption
<1>2. QED
  BY <1>1 DEF Address

(* The temporary page is in memory, with no page frame as well. *)
LEMMA TempFits ==
    /\ (-MaxErrors)..(PageSize - 1) \subseteq Address
    /\ addrTemp \in Address
    /\ MaxErrors \in Nat /\ PageSize \in Nat \ {0}
<1>1. PageSize <= PageAddr(RamPages) /\ PageAddr(RamPages) \in Nat
  BY Frames, SizeAssumption
<1>2. QED
  BY <1>1, SizeAssumption DEF Address, addrTemp

-----------------------------------------------------------------------------
(* Transfers. *)

(* What read and write return. *)
LEMMA Returned ==
    ASSUME TypeOK, NEW asked \in Nat, NEW there \in Nat, NEW n \in Results(asked, there)
    PROVE  \/ n = -1 /\ errors < MaxErrors
           \/ n \in 0..asked /\ n <= there
<1>1. Least(asked, there) \in Nat /\ Least(asked, there) <= asked
      /\ Least(asked, there) <= there
  BY DEF Least
<1> HIDE DEF Least
<1>2. QED
  BY <1>1 DEF Results

(* The variables that count. *)
LEMMA Counts ==
    ASSUME TypeOK
    PROVE  /\ call.off \in Int /\ -MaxErrors <= call.off /\ call.off <= PageSize
           /\ call.rec \in Nat /\ call.dist \in Nat /\ call.i \in Nat
           /\ call.page1 \in Nat /\ call.page2 \in Nat
           /\ errors \in Nat /\ pos \in Nat /\ length \in Nat
<1>1. /\ call.off \in (-errors)..PageSize /\ errors \in 0..MaxErrors
      /\ call.rec \in 0..RamPages /\ call.dist \in 0..DiskPages /\ call.i \in 0..segSwap
      /\ call.page1 \in 0..RamPages /\ call.page2 \in 0..RamPages
      /\ pos \in Nat /\ length \in Nat
  BY DEF TypeOK
<1>2. QED
  BY <1>1, SizeAssumption

(* What is ahead of the offset. *)
LEMMA AheadIsCount ==
    ASSUME TypeOK
    PROVE  Ahead \in Nat /\ (Ahead > 0 => Ahead = length - pos)
BY DEF TypeOK, Ahead

(* The loops keep within their page; a failure takes them one unit back. *)
LEMMA Moves ==
    ASSUME TypeOK, call.off < PageSize, NEW back \in Places,
           NEW n, \/ n = -1 /\ errors < MaxErrors
                  \/ n \in 0..(PageSize - call.off),
           Moved(n, back)
    PROVE  /\ call' \in Calls(errors')
           /\ errors' \in 0..MaxErrors /\ pos' \in Nat
           /\ call'.off = call.off + n
           /\ call'.at = IF call.off + n < PageSize THEN call.at ELSE back
           /\ call'.rec = call.rec /\ call'.dist = call.dist /\ call'.i = call.i
           /\ call'.page1 = call.page1 /\ call'.page2 = call.page2
           /\ pos' = IF n = -1 THEN pos ELSE pos + n
<1> PageSize \in Nat /\ MaxErrors \in Nat /\ segSwap \in Nat
    /\ RamPages \in Nat /\ DiskPages \in Nat
  BY SizeAssumption
<1> DEFINE to == IF call.off + n < PageSize THEN call.at ELSE back
<1> DEFINE errs == IF n = -1 THEN errors + 1 ELSE errors
<1>1. /\ pos' = IF n = -1 THEN pos ELSE pos + n
      /\ errors' = errs
      /\ call' = [call EXCEPT !.off = call.off + n, !.at = to]
  BY DEF Moved
<1>2. /\ call \in Calls(errors) /\ errors \in 0..MaxErrors /\ pos \in Nat
      /\ n \in Int /\ call.off \in (-errors)..PageSize /\ call.at \in Places
  BY DEF TypeOK, Calls
<1>3. /\ errs \in 0..MaxErrors /\ call.off + n \in (-errs)..PageSize
      /\ to \in Places /\ pos' \in Nat
  BY <1>1, <1>2
<1> HIDE DEF to, errs
<1>4. /\ call' \in Calls(errs)
      /\ call'.off = call.off + n /\ call'.at = to
      /\ call'.rec = call.rec /\ call'.dist = call.dist /\ call'.i = call.i
      /\ call'.page1 = call.page1 /\ call'.page2 = call.page2
  BY <1>1, <1>2, <1>3 DEF Calls
<1>5. QED
  BY <1>1, <1>3, <1>4 DEF to

(* Goto changes where the call is, and nothing else of it. *)
LEMMA Goes ==
    ASSUME TypeOK, NEW a \in Places, Goto(a), errors' = errors
    PROVE  /\ call' \in Calls(errors')
           /\ call'.at = a /\ call'.off = call.off
           /\ call'.rec = call.rec /\ call'.dist = call.dist /\ call'.i = call.i
           /\ call'.page1 = call.page1 /\ call'.page2 = call.page2
BY DEF TypeOK, Goto, Calls

(* A call starts with its transfers at 0. *)
LEMMA NewCalls ==
    ASSUME NEW e \in 0..MaxErrors, NEW a \in Places, NEW r \in 0..RamPages,
           NEW d \in 0..DiskPages, NEW p \in 0..RamPages, NEW q \in 0..RamPages
    PROVE  [at |-> a, rec |-> r, dist |-> d, i |-> 0, off |-> 0,
            page1 |-> p, page2 |-> q] \in Calls(e)
<1>1. 0 \in (-e)..PageSize /\ 0 \in 0..segSwap
  BY SizeAssumption
<1>2. QED
  BY <1>1 DEF Calls

(* read brings units of the file to the temporary page. *)
LEMMA Fetches ==
    ASSUME TypeOK, NEW asked \in Nat, NEW n \in Results(asked, Ahead), Fetch(addrTemp, n)
    PROVE  /\ mem' \in [Address -> Unit]
           /\ \A a \in Address :
                 mem'[a] = IF a \in call.off..(call.off + n - 1)
                           THEN file[pos + a - call.off] ELSE mem[a]
<1>1. /\ call.off \in Int /\ pos \in Nat /\ length \in Nat
      /\ file \in [0..(length - 1) -> Unit] /\ mem \in [Address -> Unit]
      /\ n \in Int /\ (n > 0 => n <= length - pos)
  <2>1. Ahead \in Nat /\ (Ahead > 0 => Ahead = length - pos)
    BY AheadIsCount
  <2>2. n = -1 \/ (n \in 0..asked /\ n <= Ahead)
    BY <2>1, Returned
  <2>3. QED
    BY <2>1, <2>2 DEF TypeOK
<1> DEFINE new(a) == IF a \in call.off..(call.off + n - 1)
                     THEN file[pos + a - call.off] ELSE mem[a]
<1>2. mem' = [a \in Address |-> new(a)]
  BY <1>1 DEF Fetch, addrTemp
<1>3. ASSUME NEW a \in Address PROVE new(a) \in Unit
  <2>1. CASE a \in call.off..(call.off + n - 1)
    <3>1. pos + a - call.off \in 0..(length - 1)
      BY <2>1, <1>1
    <3>2. QED
      BY <2>1, <3>1, <1>1
  <2>2. CASE a \notin call.off..(call.off + n - 1)
    BY <2>2, <1>1
  <2>3. QED
    BY <2>1, <2>2
<1>4. QED
  BY <1>2, <1>3

(* write brings units of a page frame to the file, which may grow. *)
LEMMA Stores ==
    ASSUME TypeOK, NEW r \in Nat, r < RamPages,
           NEW n, n = -1 \/ n \in 0..(PageSize - call.off),
           Store(PageAddr(r), n)
    PROVE  /\ length' = IF pos + n > length THEN pos + n ELSE length
           /\ length' \in Nat /\ file' \in [0..(length' - 1) -> Unit]
           /\ \A o \in 0..(length' - 1) :
                 file'[o] = IF o \in pos..(pos + n - 1)
                            THEN mem[PageAddr(r) + call.off + o - pos]
                            ELSE IF o < length THEN file[o] ELSE Zero
<1>1. /\ call.off \in Int /\ -MaxErrors <= call.off /\ call.off <= PageSize
      /\ pos \in Nat /\ length \in Nat
      /\ file \in [0..(length - 1) -> Unit] /\ mem \in [Address -> Unit]
      /\ Zero \in Unit
      /\ n \in Int /\ n <= PageSize - call.off /\ MaxErrors \in Nat /\ PageSize \in Nat
  <2>1. MaxErrors \in Nat /\ PageSize \in Nat /\ Zero \in Unit
    BY UnitAssumption, SizeAssumption
  <2>2. /\ call.off \in Int /\ -MaxErrors <= call.off /\ call.off <= PageSize
        /\ pos \in Nat /\ length \in Nat
    BY Counts
  <2>3. n \in Int /\ n <= PageSize - call.off
    BY <2>1, <2>2
  <2>4. QED
    BY <2>1, <2>2, <2>3 DEF TypeOK
<1>2. /\ PageAddr(r) \in Nat /\ PageSize \in Nat
      /\ \A k \in (-MaxErrors)..(PageSize - 1) : PageAddr(r) + k \in Address
  BY FrameFits
<1> DEFINE new(o) == IF o \in pos..(pos + n - 1)
                     THEN mem[PageAddr(r) + call.off + o - pos]
                     ELSE IF o < length THEN file[o] ELSE Zero
<1>3. /\ length' = IF pos + n > length THEN pos + n ELSE length
      /\ file' = [o \in 0..(length' - 1) |-> new(o)]
  BY DEF Store
<1>4. length' \in Nat
  BY <1>1, <1>3
<1>5. ASSUME NEW o \in 0..(length' - 1) PROVE new(o) \in Unit
  <2>1. CASE o \in pos..(pos + n - 1)
    <3>1. /\ call.off + (o - pos) \in (-MaxErrors)..(PageSize - 1)
          /\ PageAddr(r) + (call.off + (o - pos)) = PageAddr(r) + call.off + o - pos
      BY <2>1, <1>1, <1>2
    <3>2. PageAddr(r) + call.off + o - pos \in Address
      BY <3>1, <1>2
    <3>3. QED
      BY <2>1, <3>2, <1>1
  <2>2. CASE o \notin pos..(pos + n - 1)
    BY <2>2, <1>1, <1>4
  <2>3. QED
    BY <2>1, <2>2
<1>6. QED
  BY <1>3, <1>4, <1>5

(* memcpy of a page that is in memory. *)
LEMMA Copies ==
    ASSUME TypeOK, NEW to \in Int, NEW from \in Int,
           \A k \in 0..(PageSize - 1) : to + k \in Address /\ from + k \in Address
    PROVE  mem' = Copied(to, from) =>
              /\ mem' \in [Address -> Unit]
              /\ \A k \in 0..(PageSize - 1) : mem'[to + k] = mem[from + k]
              /\ \A a \in Address : a \notin to..(to + PageSize - 1) => mem'[a] = mem[a]
<1> PageSize \in Nat
  BY SizeAssumption
<1> DEFINE new(a) == IF a \in to..(to + PageSize - 1) THEN mem[from + a - to] ELSE mem[a]
<1>1. \A a \in Address : new(a) \in Unit
  <2> SUFFICES ASSUME NEW a \in Address PROVE new(a) \in Unit
    OBVIOUS
  <2> a \in Int
    BY SizeAssumption, Frames DEF Address
  <2>1. CASE a \in to..(to + PageSize - 1)
    <3>1. a - to \in 0..(PageSize - 1) /\ from + (a - to) = from + a - to
      BY <2>1
    <3>2. QED
      BY <3>1, <2>1 DEF TypeOK
  <2>2. QED
    BY <2>1 DEF TypeOK
<1>2. \A k \in 0..(PageSize - 1) :
         to + k \in to..(to + PageSize - 1) /\ from + (to + k) - to = from + k
  OBVIOUS
<1>3. Copied(to, from) = [a \in Address |-> new(a)]
  BY DEF Copied
<1>4. QED
  BY <1>1, <1>2, <1>3

-----------------------------------------------------------------------------
(* Steps. *)

(* A step that ends the process changes nothing else. *)
LEMMA ExitKeeps ==
    ASSUME IInv, Exit
    PROVE  IInv'
BY DEF Exit, content, IInv, TypeOK, Placed, Advanced, Fetched,
       MasterHoldsLastPage, EmptyFileKeepsPages

LEMMA InitHolds == Init => IInv
<1> SUFFICES ASSUME Init PROVE IInv
  OBVIOUS
<1> RamPages \in Nat /\ DiskPages \in Nat /\ segSwap \in Nat \ {0}
    /\ PageSize \in Nat \ {0}
  BY SizeAssumption
<1>1. TypeOK
  BY UnitAssumption, SizeAssumption DEF Init, TypeOK, Places
<1>2. Placed /\ Advanced
  BY SizeAssumption DEF Init, Placed, Advanced, Swapping, Exchanging
<1>3. Fetched /\ EmptyFileKeepsPages
  BY SizeAssumption DEF Init, Fetched, MasterHoldsLastPage, EmptyFileKeepsPages
<1>4. QED
  BY <1>1, <1>2, <1>3 DEF IInv

LEMMA fileCreateKeeps ==
    ASSUME IInv, fileCreate
    PROVE  IInv'
<1>1. CASE Exit
  BY <1>1, ExitKeeps
<1>2. CASE /\ length' \in {FileEnd + 1} \cup (IF LengthFails THEN {0} ELSE {})
           /\ file' = [o \in 0..(length' - 1) |-> Zero]
           /\ Goto("idle")
           /\ UNCHANGED <<mem, pos, proc, page, errors>>
  <2>1. At("start") /\ call.at = "start" /\ call.i = 0
    BY DEF fileCreate, At, IInv, Placed
  <2>2. FileEnd \in Nat
    BY FilePages, SizeAssumption DEF FileEnd
  <2>3. TypeOK'
    <3>1. TypeOK /\ "idle" \in Places /\ length' \in Nat
      BY <1>2, <2>2 DEF IInv, Places
    <3>4. call' \in Calls(errors')
      BY <1>2, <3>1, Goes
    <3>2. file' \in [0..(length' - 1) -> Unit]
      BY <1>2, UnitAssumption
    <3>3. QED
      BY <1>2, <3>1, <3>2, <3>4 DEF TypeOK, Calls
  <2>4. call'.at = "idle" /\ call'.i = 0
    BY <1>2, <2>1, Goes DEF IInv, Places
  <2>5. Placed' /\ Advanced' /\ Fetched' /\ EmptyFileKeepsPages'
    BY <1>2, <2>1, <2>4, SizeAssumption
    DEF IInv, Placed, Advanced, Fetched, MasterHoldsLastPage,
        EmptyFileKeepsPages, Swapping, Exchanging
  <2>6. QED
    BY <2>3, <2>5 DEF IInv
<1>3. QED
  BY <1>1, <1>2 DEF fileCreate

LEMMA swapKeeps ==
    ASSUME IInv, NEW rec \in 0..(RamPages - segSwap), NEW dist \in 0..(DiskPages - segSwap),
           swap(rec, dist)
    PROVE  IInv'
<1> RamPages \in Nat /\ DiskPages \in Nat /\ segSwap \in Nat \ {0} /\ PageSize \in Nat
  BY SizeAssumption
<1>1. /\ call' = [at |-> "reset", rec |-> rec, dist |-> dist, i |-> 0, off |-> 0,
                  page1 |-> 0, page2 |-> 0]
      /\ UNCHANGED <<content, pos, proc>> /\ call.at = "idle"
  BY DEF swap, At
<1>2. TypeOK'
  <2>1. call' \in Calls(errors')
    <3>1. errors' \in 0..MaxErrors
      BY <1>1 DEF IInv, TypeOK, content
    <3>2. /\ rec \in 0..RamPages /\ dist \in 0..DiskPages
          /\ 0 \in 0..segSwap /\ 0 \in 0..RamPages
      OBVIOUS
    <3>3. "reset" \in Places
      BY DEF Places
    <3>4. QED
      BY <1>1, <3>1, <3>2, <3>3, NewCalls
  <2>2. QED
    BY <1>1, <2>1 DEF IInv, TypeOK, content, Calls
<1>3. Placed' /\ Advanced' /\ Fetched' /\ EmptyFileKeepsPages'
  BY <1>1 DEF IInv, content, Placed, Advanced, Fetched, MasterHoldsLastPage,
              EmptyFileKeepsPages, Swapping, Exchanging
<1>4. QED
  BY <1>2, <1>3 DEF IInv

(* The positions lseek is asked for. *)
LEMMA SeekKeeps ==
    ASSUME IInv, NEW p \in Nat, NEW a \in Places,
           \/ call.at = "reset" /\ a = "skip"
           \/ call.at = "skip" /\ a = "read"
           \/ call.at = "writeBack" /\ a = "copy"
           \/ call.at = "idle" /\ a = "idle",
           Seek(p, a)
    PROVE  IInv'
<1>1. CASE Exit
  BY <1>1, ExitKeeps
<1>2. CASE pos' = p /\ Goto(a) /\ UNCHANGED <<content, proc>>
  <2>1. /\ UNCHANGED <<mem, file, length, page, errors, proc>> /\ TypeOK
        /\ PageSize \in Nat \ {0}
    BY <1>2, SizeAssumption DEF content, IInv
  <2>2. TypeOK'
    BY <1>2, <2>1, Goes DEF TypeOK, Calls
  <2>3. /\ call'.at = a /\ call'.off = call.off
        /\ call'.rec = call.rec /\ call'.dist = call.dist /\ call'.i = call.i
        /\ call'.page1 = call.page1 /\ call'.page2 = call.page2
    BY <1>2, <2>1, Goes
  <2>4. Placed'
    BY <2>1, <2>3 DEF IInv, Placed, Swapping, Exchanging
  <2>7. Advanced'
    BY <1>2, <2>1, <2>3 DEF IInv, Advanced
  <2>5. Fetched' /\ EmptyFileKeepsPages'
    BY <1>2, <2>1, <2>3 DEF IInv, Fetched, MasterHoldsLastPage,
                            EmptyFileKeepsPages
  <2>6. QED
    BY <2>2, <2>4, <2>5, <2>7 DEF IInv
<1>3. QED
  BY <1>1, <1>2 DEF Seek

LEMMA readPageKeeps ==
    ASSUME IInv, readPage
    PROVE  IInv'
<1>1. PICK n \in Results(Remaining(call.off, PageSize), Ahead) :
         Fetch(addrTemp, n) /\ Moved(n, "readBack")
  BY DEF readPage
<1>2. /\ TypeOK /\ call.at = "read" /\ UNCHANGED <<file, length, page, proc>>
      /\ call.off < PageSize /\ call.off <= pos /\ call.off \in Int /\ pos \in Nat
      /\ PageSize \in Nat /\ "readBack" \in Places
  BY SizeAssumption, Counts DEF readPage, At, IInv, Advanced, Places
<1>3. Remaining(call.off, PageSize) \in Nat
      /\ Remaining(call.off, PageSize) = PageSize - call.off
  BY <1>2 DEF Remaining
<1>4. Ahead \in Nat /\ (length = 0 => Ahead = 0)
  BY <1>2, AheadIsCount DEF Ahead, TypeOK
<1>5. /\ (n = -1 /\ errors < MaxErrors) \/ n \in 0..(PageSize - call.off)
      /\ length = 0 => n <= 0
  BY <1>2, <1>3, <1>4, Returned
<1>6. /\ call' \in Calls(errors') /\ errors' \in 0..MaxErrors /\ pos' \in Nat
      /\ call'.off = call.off + n
      /\ call'.at = IF call.off + n < PageSize THEN call.at ELSE "readBack"
      /\ call'.rec = call.rec /\ call'.dist = call.dist /\ call'.i = call.i
      /\ call'.page1 = call.page1 /\ call'.page2 = call.page2
      /\ pos' = IF n = -1 THEN pos ELSE pos + n
  BY <1>1, <1>2, <1>5, Moves
<1>7. mem' \in [Address -> Unit]
  BY <1>1, <1>2, <1>3, Fetches
<1>8. TypeOK'
  BY <1>2, <1>6, <1>7 DEF TypeOK, Calls
<1>9. Placed' /\ Advanced'
  <2>1. Placed'
    BY <1>2, <1>6 DEF IInv, Placed, Swapping, Exchanging
  <2>2. Advanced'
    BY <1>2, <1>5, <1>6 DEF IInv, Advanced
  <2>3. QED
    BY <2>1, <2>2
<1>10. Fetched' /\ EmptyFileKeepsPages'
  BY <1>2, <1>5, <1>6 DEF IInv, Fetched, MasterHoldsLastPage, EmptyFileKeepsPages
<1>11. QED
  BY <1>8, <1>9, <1>10 DEF IInv

LEMMA readBackKeeps ==
    ASSUME IInv, readBack
    PROVE  IInv'
<1>1. CASE Exit
  BY <1>1, ExitKeeps
<1>2. CASE /\ pos' = Back(pos)
           /\ call' = [call EXCEPT !.at = "write", !.off = 0]
           /\ UNCHANGED <<content, proc>>
  <2>1. /\ TypeOK /\ call.at = "readBack" /\ PageSize <= pos /\ pos \in Nat
        /\ UNCHANGED <<mem, file, length, page, errors, proc>>
        /\ PageSize \in Nat \ {0}
    BY <1>2, SizeAssumption, Counts DEF readBack, At, IInv, Advanced, content
  <2>2. 0 \in (-errors)..PageSize
    BY <2>1 DEF TypeOK
  <2>3. /\ call' \in Calls(errors') /\ call'.at = "write" /\ call'.off = 0
        /\ call'.rec = call.rec /\ call'.dist = call.dist /\ call'.i = call.i
        /\ call'.page1 = call.page1 /\ call'.page2 = call.page2
    BY <1>2, <2>1, <2>2 DEF TypeOK, Calls, Places
  <2>4. pos' \in Nat
    BY <1>2, <2>1 DEF Back
  <2>5. TypeOK'
    BY <2>1, <2>3, <2>4 DEF TypeOK, Calls
  <2>6. Placed'
    BY <2>1, <2>3 DEF IInv, Placed, Swapping, Exchanging
  <2>7. Advanced' /\ Fetched' /\ EmptyFileKeepsPages'
    BY <2>1, <2>3, <2>4
    DEF IInv, Advanced, Fetched, MasterHoldsLastPage, EmptyFileKeepsPages
  <2>8. QED
    BY <2>5, <2>6, <2>7 DEF IInv
<1>3. QED
  BY <1>1, <1>2 DEF readBack

LEMMA writePageKeeps ==
    ASSUME IInv, writePage
    PROVE  IInv'
<1> DEFINE asked == Remaining(call.off, PageSize)
<1>1. PICK n \in Results(asked, asked) :
         Store(PageAddr(call.rec + call.i), n) /\ Moved(n, "writeBack")
  BY DEF writePage
<1>2. /\ TypeOK /\ call.at = "write" /\ UNCHANGED <<mem, page, proc>>
      /\ call.off < PageSize /\ call.off <= pos /\ call.off \in Int /\ pos \in Nat
      /\ PageSize \in Nat /\ "writeBack" \in Places
  BY SizeAssumption, Counts DEF writePage, At, IInv, Advanced, Places
<1>3. call.rec + call.i \in Nat /\ call.rec + call.i < RamPages
  BY <1>2, Counts, SizeAssumption DEF IInv, Placed, Swapping
<1>4. asked \in Nat /\ asked = PageSize - call.off
  BY <1>2 DEF Remaining
<1> HIDE DEF asked
<1>5. (n = -1 /\ errors < MaxErrors) \/ n \in 0..(PageSize - call.off)
  BY <1>2, <1>4, Returned
<1>6. /\ call' \in Calls(errors') /\ errors' \in 0..MaxErrors /\ pos' \in Nat
      /\ call'.off = call.off + n
      /\ call'.at = IF call.off + n < PageSize THEN call.at ELSE "writeBack"
      /\ call'.rec = call.rec /\ call'.dist = call.dist /\ call'.i = call.i
      /\ call'.page1 = call.page1 /\ call'.page2 = call.page2
      /\ pos' = IF n = -1 THEN pos ELSE pos + n
  BY <1>1, <1>2, <1>5, Moves
<1>7. /\ length' \in Nat /\ file' \in [0..(length' - 1) -> Unit]
      /\ length' >= length
  <2>1. /\ length' \in Nat /\ file' \in [0..(length' - 1) -> Unit]
        /\ length' = IF pos + n > length THEN pos + n ELSE length
    <3>1. n = -1 \/ n \in 0..(PageSize - call.off)
      BY <1>5
    <3>2. QED
      BY <1>1, <1>2, <1>3, <3>1, Stores
  <2>2. QED
    BY <1>2, <1>5, <2>1, Counts
<1>8. TypeOK'
  BY <1>2, <1>6, <1>7 DEF TypeOK, Calls
<1>9. Placed'
  BY <1>2, <1>6 DEF IInv, Placed, Swapping, Exchanging
<1>10. Advanced'
  BY <1>2, <1>5, <1>6 DEF IInv, Advanced
<1>11. length' # 0
  BY <1>2, <1>7, Counts DEF IInv, EmptyFileKeepsPages
<1>12. Fetched' /\ EmptyFileKeepsPages'
  BY <1>2, <1>6, <1>11 DEF IInv, Fetched, MasterHoldsLastPage, EmptyFileKeepsPages
<1>13. QED
  BY <1>8, <1>9, <1>10, <1>12 DEF IInv

LEMMA memcpyKeeps ==
    ASSUME IInv, memcpy
    PROVE  IInv'
<1> DEFINE to == PageAddr(call.rec + call.i)
<1>1. /\ TypeOK /\ call.at = "copy" /\ mem' = Copied(to, addrTemp) /\ Goto("next")
      /\ UNCHANGED <<file, length, pos, proc, page, errors>> /\ "next" \in Places
  BY DEF memcpy, At, IInv, Places
<1>2. call.rec + call.i \in Nat /\ call.rec + call.i < RamPages
  BY <1>1, Counts, SizeAssumption DEF IInv, Placed, Swapping
<1>3. /\ call' \in Calls(errors') /\ call'.at = "next" /\ call'.off = call.off
      /\ call'.rec = call.rec /\ call'.dist = call.dist /\ call'.i = call.i
      /\ call'.page1 = call.page1 /\ call'.page2 = call.page2
  BY <1>1, Goes
<1>4. /\ mem' \in [Address -> Unit] /\ mem'[to] = mem[addrTemp]
      /\ mem'[addrTemp] = mem[addrTemp]
  <2>1. /\ to \in Nat /\ PageSize <= to /\ PageSize \in Nat \ {0} /\ addrTemp = 0
        /\ \A k \in 0..(PageSize - 1) : to + k \in Address /\ addrTemp + k \in Address
    BY <1>2, FrameFits, SizeAssumption DEF addrTemp
  <2> HIDE DEF to
  <2>2. /\ mem' \in [Address -> Unit]
        /\ \A k \in 0..(PageSize - 1) : mem'[to + k] = mem[addrTemp + k]
        /\ \A a \in Address : a \notin to..(to + PageSize - 1) => mem'[a] = mem[a]
    <3>1. to \in Int /\ addrTemp \in Int
      BY <2>1
    <3>2. QED
      BY <1>1, <2>1, <3>1, Copies
  <2>3. 0 \in 0..(PageSize - 1) /\ to + 0 = to /\ addrTemp + 0 = addrTemp
        /\ addrTemp \notin to..(to + PageSize - 1)
    BY <2>1
  <2>5. addrTemp \in Address
    BY TempFits
  <2>4. QED
    BY <1>1, <2>2, <2>3, <2>5
<1>5. TypeOK'
  BY <1>1, <1>3, <1>4 DEF TypeOK, Calls
<1>6. Placed'
  BY <1>1, <1>3 DEF IInv, Placed, Swapping, Exchanging
<1>7. Advanced' /\ EmptyFileKeepsPages'
  BY <1>1, <1>3 DEF IInv, Advanced, EmptyFileKeepsPages
<1>8. Fetched'
  BY <1>1, <1>3, <1>4 DEF Fetched, MasterHoldsLastPage
<1>9. QED
  BY <1>5, <1>6, <1>7, <1>8 DEF IInv

LEMMA movePageKeeps ==
    ASSUME IInv, movePage
    PROVE  IInv'
<1>1. CASE Exit
  BY <1>1, ExitKeeps
<1> DEFINE to == IF call.i + 1 < segSwap THEN "read" ELSE "idle"
<1>2. CASE /\ pos' = pos + PageSize
           /\ call' = [call EXCEPT !.i = @ + 1, !.off = 0, !.at = to]
           /\ UNCHANGED <<content, proc>>
  <2>1. /\ TypeOK /\ call.at = "next" /\ pos \in Nat /\ call.i \in Nat
        /\ UNCHANGED <<mem, file, length, page, errors, proc>>
        /\ PageSize \in Nat \ {0} /\ segSwap \in Nat \ {0}
        /\ call.rec \in Nat /\ call.i < segSwap
    BY <1>2, SizeAssumption, Counts DEF movePage, At, IInv, Placed, Swapping, content
  <2>2. /\ 0 \in (-errors)..PageSize /\ call.i + 1 \in 0..segSwap /\ to \in Places
    <3>1. errors \in Nat
      BY <2>1, Counts
    <3>2. 0 \in (-errors)..PageSize /\ call.i + 1 \in 0..segSwap
      BY <2>1, <3>1
    <3>3. QED
      BY <3>2 DEF Places
  <2> HIDE DEF to
  <2>3. /\ call' \in Calls(errors') /\ call'.at = to /\ call'.off = 0
        /\ call'.rec = call.rec /\ call'.dist = call.dist /\ call'.i = call.i + 1
        /\ call'.page1 = call.page1 /\ call'.page2 = call.page2
    BY <1>2, <2>1, <2>2 DEF TypeOK, Calls
  <2>4. pos' \in Nat
    BY <1>2, <2>1
  <2>5. TypeOK'
    BY <2>1, <2>3, <2>4 DEF TypeOK, Calls
  <2>6. Placed' /\ Advanced' /\ EmptyFileKeepsPages'
    BY <2>1, <2>3, <2>4
    DEF to, IInv, Placed, Advanced, EmptyFileKeepsPages, Swapping, Exchanging
  <2>7. Fetched'
    <3>1. call'.i = segSwap => call.rec + segSwap - 1 = call.rec + call.i
      BY <2>1, <2>3
    <3>2. mem[MasterAddr] = mem[PageAddr(call.rec + call.i)]
      BY <2>1 DEF IInv, Fetched, MasterAddr
    <3>3. call'.at \in {"read", "idle"}
      BY <2>3 DEF to
    <3>4. QED
      BY <2>1, <2>3, <3>1, <3>2, <3>3 DEF Fetched, MasterHoldsLastPage
  <2>8. QED
    BY <2>5, <2>6, <2>7 DEF IInv
<1>3. QED
  BY <1>1, <1>2 DEF movePage

LEMMA findSwapKeeps ==
    ASSUME IInv, findSwap
    PROVE  IInv'
<1>1. /\ TypeOK /\ call.at = "idle" /\ call' = [call EXCEPT !.at = "amount", !.off = 0]
      /\ UNCHANGED <<mem, file, length, pos, proc, page, errors>>
      /\ BlockSize \in Nat /\ PageSize \in Nat /\ errors \in Nat
  BY SizeAssumption, Counts DEF findSwap, At, IInv, content
<1>2. 0 \in (-errors)..PageSize
  BY <1>1
<1>3. /\ call' \in Calls(errors') /\ call'.at = "amount" /\ call'.off = 0
      /\ call'.rec = call.rec /\ call'.dist = call.dist /\ call'.i = call.i
      /\ call'.page1 = call.page1 /\ call'.page2 = call.page2
  BY <1>1, <1>2 DEF TypeOK, Calls, Places
<1>4. TypeOK'
  BY <1>1, <1>3 DEF TypeOK, Calls
<1>5. Placed' /\ Advanced' /\ Fetched' /\ EmptyFileKeepsPages'
  BY <1>1, <1>3
  DEF IInv, Placed, Advanced, Fetched, MasterHoldsLastPage, EmptyFileKeepsPages,
      Swapping, Exchanging
<1>6. QED
  BY <1>4, <1>5 DEF IInv

LEMMA readAmountKeeps ==
    ASSUME IInv, readAmount
    PROVE  IInv'
<1>1. PICK n \in Results(Remaining(call.off, BlockSize), Ahead) :
         Fetch(addrTemp, n) /\ Moved(n, "found")
  BY DEF readAmount
<1>2. /\ TypeOK /\ call.at = "amount" /\ UNCHANGED <<file, length, page, proc>>
      /\ call.off <= BlockSize /\ call.off \in Int /\ pos \in Nat
      /\ PageSize \in Nat /\ BlockSize \in Nat /\ BlockSize < PageSize
      /\ "found" \in Places
  BY SizeAssumption, Counts DEF readAmount, At, IInv, Advanced, Places
<1>3. /\ Remaining(call.off, BlockSize) \in Nat
      /\ Remaining(call.off, BlockSize) = BlockSize - call.off
  BY <1>2 DEF Remaining
<1>4. (n = -1 /\ errors < MaxErrors) \/ n \in 0..(BlockSize - call.off)
  BY <1>2, <1>3, AheadIsCount, Returned
<1>5. /\ (n = -1 /\ errors < MaxErrors) \/ n \in 0..(PageSize - call.off)
      /\ call.off < PageSize
  BY <1>2, <1>4
<1>6. /\ call' \in Calls(errors') /\ errors' \in 0..MaxErrors /\ pos' \in Nat
      /\ call'.off = call.off + n
      /\ call'.at = IF call.off + n < PageSize THEN call.at ELSE "found"
      /\ call'.rec = call.rec /\ call'.dist = call.dist /\ call'.i = call.i
      /\ call'.page1 = call.page1 /\ call'.page2 = call.page2
  BY <1>1, <1>2, <1>5, Moves
<1>7. mem' \in [Address -> Unit]
  BY <1>1, <1>2, <1>3, Fetches
<1>8. call'.at = "amount" /\ call'.off <= BlockSize
  BY <1>2, <1>4, <1>6
<1>9. TypeOK'
  BY <1>2, <1>6, <1>7 DEF TypeOK, Calls
<1>10. Placed' /\ Advanced' /\ Fetched' /\ EmptyFileKeepsPages'
  BY <1>2, <1>6, <1>8
  DEF IInv, Placed, Advanced, Fetched, MasterHoldsLastPage, EmptyFileKeepsPages,
      Swapping, Exchanging
<1>11. QED
  BY <1>9, <1>10 DEF IInv

LEMMA swap_in_memoryKeeps ==
    ASSUME IInv, NEW page1 \in 0..(RamPages - 1), NEW page2 \in 0..(RamPages - 1),
           swap_in_memory(page1, page2)
    PROVE  IInv'
<1>1. /\ TypeOK /\ call.at = "idle"
      /\ call' = [at |-> "to temp", rec |-> 0, dist |-> 0, i |-> 0, off |-> 0,
                  page1 |-> page1, page2 |-> page2]
      /\ UNCHANGED <<mem, file, length, pos, proc, page, errors>>
  BY DEF swap_in_memory, At, IInv, content
<1>2. /\ "to temp" \in Places /\ 0 \in 0..RamPages /\ 0 \in 0..DiskPages
      /\ page1 \in 0..RamPages /\ page2 \in 0..RamPages
  BY SizeAssumption DEF Places
<1>3. call' \in Calls(errors')
  BY <1>1, <1>2, NewCalls DEF TypeOK
<1>4. TypeOK'
  BY <1>1, <1>3 DEF TypeOK, Calls
<1>5. /\ call'.at = "to temp" /\ call'.page1 = page1 /\ call'.page2 = page2
  BY <1>1
<1>6. Placed' /\ Advanced' /\ Fetched' /\ EmptyFileKeepsPages'
  BY <1>1, <1>5
  DEF IInv, Placed, Advanced, Fetched, MasterHoldsLastPage, EmptyFileKeepsPages,
      Swapping, Exchanging
<1>7. QED
  BY <1>4, <1>6 DEF IInv

LEMMA copyPagesKeeps ==
    ASSUME IInv, copyPages
    PROVE  IInv'
<1>1. /\ TypeOK /\ call.at \in {"to temp", "to page2", "to page1"}
      /\ UNCHANGED <<file, length, pos, proc, page, errors>>
  BY DEF copyPages, At, IInv
<1>2. /\ call.page1 \in Nat /\ call.page1 < RamPages
      /\ call.page2 \in Nat /\ call.page2 < RamPages
  <2>1. call.page1 \in 0..(RamPages - 1) /\ call.page2 \in 0..(RamPages - 1)
    BY <1>1 DEF IInv, Placed, Exchanging
  <2>2. RamPages \in Nat
    BY SizeAssumption
  <2>3. QED
    BY <2>1, <2>2
<1> DEFINE temp == addrTemp
<1> DEFINE one == PageAddr(call.page1)
<1> DEFINE two == PageAddr(call.page2)
<1>3. /\ one \in Nat /\ two \in Nat /\ temp \in Nat /\ temp = 0
      /\ PageSize <= one /\ PageSize \in Nat \ {0}
      /\ \A k \in 0..(PageSize - 1) :
            one + k \in Address /\ two + k \in Address /\ temp + k \in Address
      /\ one \in Int /\ two \in Int /\ temp \in Int
      /\ 0 \in 0..(PageSize - 1) /\ one + 0 = one /\ temp + 0 = temp
      /\ temp \notin one..(one + PageSize - 1)
  <2>1. /\ one \in Nat /\ PageSize <= one
        /\ \A k \in 0..(PageSize - 1) : one + k \in Address /\ temp + k \in Address
    BY <1>2, FrameFits, SizeAssumption DEF addrTemp
  <2>2. two \in Nat /\ \A k \in 0..(PageSize - 1) : two + k \in Address
    BY <1>2, FrameFits, SizeAssumption
  <2>3. temp = 0 /\ PageSize \in Nat \ {0}
    BY SizeAssumption DEF addrTemp
  <2> HIDE DEF one, two, temp
  <2>4. /\ one \in Int /\ two \in Int /\ temp \in Int /\ temp \in Nat
        /\ 0 \in 0..(PageSize - 1) /\ one + 0 = one /\ temp + 0 = temp
        /\ temp \notin one..(one + PageSize - 1)
    <3>1. one \in Nat /\ two \in Nat /\ PageSize <= one
      BY <2>1, <2>2
    <3>2. QED
      BY <3>1, <2>3
  <2>5. QED
    BY <2>1, <2>2, <2>3, <2>4, Zenon
<1>4. PICK a \in {"to page2", "to page1", "entries"} :
         /\ Goto(a)
         /\ \/ mem' = Copied(temp, two) /\ a # "entries"
            \/ mem' = Copied(two, one) /\ a # "entries"
            \/ mem' = Copied(one, temp)
  BY DEF copyPages
<1> HIDE DEF temp, one, two
<1>5. /\ mem' \in [Address -> Unit]
      /\ a = "entries" => mem'[temp] = mem'[one]
  <2>2. CASE mem' = Copied(temp, two) /\ a # "entries"
    BY <2>2, <1>1, <1>3, Copies
  <2>3. CASE mem' = Copied(two, one) /\ a # "entries"
    BY <2>3, <1>1, <1>3, Copies
  <2>4. CASE mem' = Copied(one, temp)
    <3>1. /\ mem' \in [Address -> Unit]
          /\ \A k \in 0..(PageSize - 1) : mem'[one + k] = mem[temp + k]
          /\ \A b \in Address : b \notin one..(one + PageSize - 1) => mem'[b] = mem[b]
      BY <2>4, <1>1, <1>3, Copies
    <3>2. temp \in Address
      BY TempFits DEF temp
    <3>3. QED
      BY <1>3, <3>1, <3>2
  <2>5. QED
    BY <1>4, <2>2, <2>3, <2>4
<1>6. /\ call' \in Calls(errors') /\ call'.at = a /\ call'.off = call.off
      /\ call'.rec = call.rec /\ call'.dist = call.dist /\ call'.i = call.i
      /\ call'.page1 = call.page1 /\ call'.page2 = call.page2
  <2>1. a \in Places
    BY DEF Places
  <2>2. QED
    BY <1>1, <1>4, <2>1, Goes
<1>7. TypeOK'
  BY <1>1, <1>5, <1>6 DEF TypeOK, Calls
<1>8. Advanced' /\ EmptyFileKeepsPages'
  BY <1>1, <1>6 DEF IInv, Advanced, EmptyFileKeepsPages
<1>9. Placed'
  BY <1>1, <1>6 DEF IInv, Placed, Swapping, Exchanging
<1>10. Fetched'
  BY <1>5, <1>6 DEF Fetched, MasterHoldsLastPage, MasterAddr, temp, one
<1>11. QED
  BY <1>7, <1>8, <1>9, <1>10 DEF IInv

LEMMA exchangeEntryKeeps ==
    ASSUME IInv, exchangeEntry
    PROVE  IInv'
<1>1. /\ TypeOK /\ page' = Exchanged(page, call.i)
      /\ UNCHANGED <<mem, file, length, pos, proc, call, errors>>
      /\ call.page1 \in 0..(RamPages - 1) /\ call.page2 \in 0..(RamPages - 1)
  BY DEF exchangeEntry, At, IInv, Placed, Exchanging
<1>2. page' \in [0..(RamPages - 1) -> 0..(RamPages - 1)]
  BY <1>1 DEF Exchanged, TypeOK
<1>3. TypeOK'
  BY <1>1, <1>2 DEF TypeOK
<1>4. Placed' /\ Advanced' /\ Fetched' /\ EmptyFileKeepsPages'
  BY <1>1 DEF IInv, Placed, Advanced, Fetched, MasterHoldsLastPage, EmptyFileKeepsPages
<1>5. QED
  BY <1>3, <1>4 DEF IInv

(* Every step keeps the invariant. *)
LEMMA NextKeeps ==
    ASSUME IInv, [Next]_vars
    PROVE  IInv'
<1>1. CASE UNCHANGED vars
  BY <1>1 DEF vars, IInv, TypeOK, Placed, Advanced, Fetched,
              MasterHoldsLastPage, EmptyFileKeepsPages
<1>2. CASE fileCreate
  BY <1>2, fileCreateKeeps
<1>3. CASE \E rec \in 0..(RamPages - segSwap), dist \in 0..(DiskPages - segSwap) :
              swap(rec, dist)
  BY <1>3, swapKeeps
<1>4. CASE findSwap
  BY <1>4, findSwapKeeps
<1>5. CASE \E dist \in 0..FileEnd : moveCurABS(dist)
  <2>1. PICK dist \in 0..FileEnd : moveCurABS(dist)
    BY <1>5
  <2>2. dist \in Nat /\ "idle" \in Places
    BY FilePages, SizeAssumption DEF FileEnd, Places
  <2>3. QED
    BY <2>1, <2>2, SeekKeeps DEF moveCurABS, At
<1>6. CASE resetABS
  BY <1>6, SeekKeeps DEF resetABS, At, Places
<1>7. CASE \E page1, page2 \in 0..(RamPages - 1) : swap_in_memory(page1, page2)
  BY <1>7, swap_in_memoryKeeps
<1>8. CASE resetFilePointer
  <2>1. swapStart \in Nat /\ "skip" \in Places
    BY SizeAssumption DEF Places
  <2>2. QED
    BY <1>8, <2>1, SeekKeeps DEF resetFilePointer, At
<1>9. CASE moveCur
  <2>1. call.dist \in Nat /\ pos \in Nat /\ "read" \in Places
    BY Counts DEF IInv, Places
  <2>2. call.dist * PageSize \in Nat
    BY <2>1, Multiples, call.dist + 1 \in Nat, call.dist < call.dist + 1
  <2>3. pos + call.dist * PageSize \in Nat
    BY <2>1, <2>2
  <2>4. QED
    BY <1>9, <2>1, <2>3, SeekKeeps DEF moveCur, At
<1>10. CASE readPage
  BY <1>10, readPageKeeps
<1>11. CASE readBack
  BY <1>11, readBackKeeps
<1>12. CASE writePage
  BY <1>12, writePageKeeps
<1>13. CASE writeBack
  <2>1. call.at = "writeBack" /\ PageSize <= pos /\ pos \in Nat /\ PageSize \in Nat
    BY <1>13, Counts, SizeAssumption DEF writeBack, At, IInv, Advanced
  <2>2. Back(pos) \in Nat /\ "copy" \in Places
    BY <2>1 DEF Back, Places
  <2>3. QED
    BY <1>13, <2>1, <2>2, SeekKeeps DEF writeBack
<1>14. CASE memcpy
  BY <1>14, memcpyKeeps
<1>15. CASE movePage
  BY <1>15, movePageKeeps
<1>16. CASE readAmount
  BY <1>16, readAmountKeeps
<1>17. CASE copyPages
  BY <1>17, copyPagesKeeps
<1>18. CASE exchangeEntry
  BY <1>18, exchangeEntryKeeps
<1>19. QED
  BY <1>1, <1>2, <1>3, <1>4, <1>5, <1>6, <1>7, <1>8, <1>9, <1>10, <1>11, <1>12, <1>13,
     <1>14, <1>15, <1>16, <1>17, <1>18
  DEF Next, Step

LEMMA Invariance == Spec => []IInv
<1>1. Init => IInv
  BY InitHolds
<1>2. IInv /\ [Next]_vars => IInv'
  BY NextKeeps
<1>3. QED
  BY <1>1, <1>2, PTL DEF Spec

(* The types of the variables: no transfer leaves its page, no swap its    *)
(* segment, and the offset is never set back before the start of the file, *)
(* however many transfers fail (malloc.c:157-284).                         *)
THEOREM TypeCorrect == Spec => []TypeOK
<1>1. IInv => TypeOK
  BY DEF IInv
<1>2. QED
  BY <1>1, Invariance, PTL

(* When the file never got its length, no page is written out or replaced  *)
(* (malloc.c:150, 229-232, 278-280).                                       *)
THEOREM EmptyFileIsHarmless == Spec => []EmptyFileKeepsPages
<1>1. IInv => EmptyFileKeepsPages
  BY DEF IInv
<1>2. QED
  BY <1>1, Invariance, PTL

(* A move of pages leaves the first unit of the last page in the Master    *)
(* block (malloc.h:40-41, malloc.c:278-280, 389-391).                      *)
THEOREM MasterIsOverwritten == Spec => []MasterHoldsLastPage
<1>1. IInv => MasterHoldsLastPage
  BY DEF IInv, Fetched
<1>2. QED
  BY <1>1, Invariance, PTL

-----------------------------------------------------------------------------
(* The drift of the file offset, and the units that a step changes.        *)

Dist == call.dist + call.i
Rec == call.rec + call.i

(* Where a transfer is in the file: past the start of its page, and ahead  *)
(* of its own count by the failures of the swap.                           *)
Driven ==
    /\ length = 0 \/ FileEnd < length
    /\ Drift \in 0..errors
    /\ call.at = "skip" => pos = swapStart
    /\ call.at \in {"read", "write"} => FilePage(Dist) <= pos

(* What a step does to the drift: it never goes back within a swap. *)
DrivenOn == Driven' /\ (Drift' = 0 => Drift = 0 \/ call'.at = "idle")

(* Where a swap is. *)
LEMMA SwapPlace ==
    ASSUME IInv, call.at \in Swapping
    PROVE  /\ Rec \in Nat /\ Rec < RamPages
           /\ Dist \in Nat /\ Dist < DiskPages
           /\ FilePage(Dist) \in Nat /\ FilePage(Dist) + PageSize <= FileEnd
           /\ PageAddr(Rec) \in Nat /\ PageSize <= PageAddr(Rec)
           /\ FileEnd \in Nat /\ PageSize \in Nat \ {0}
<1>1. /\ call.rec + segSwap <= RamPages /\ call.dist + segSwap <= DiskPages
      /\ call.i < segSwap
  BY DEF IInv, Placed
<1>2. call.rec \in Nat /\ call.dist \in Nat /\ call.i \in Nat
  BY Counts DEF IInv
<1>3. Rec \in Nat /\ Rec < RamPages /\ Dist \in Nat /\ Dist < DiskPages
  BY <1>1, <1>2, SizeAssumption DEF Rec, Dist
<1>4. QED
  BY <1>3, FilePages, Frames, SizeAssumption DEF FileEnd

(* Where no page is being transferred. *)
Resting == {"idle", "reset", "amount", "found", "to temp", "to page2", "to page1", "entries"}

(* A step outside the transfers of a swap. *)
LEMMA QuietDrive ==
    ASSUME IInv, Driven, UNCHANGED length, errors' \in Nat,
           call.at \in Resting,
           call'.at \in Resting \/ (call'.at = "skip" /\ pos' = swapStart)
    PROVE  DrivenOn
<1>1. Drift = 0 /\ Drift' = 0
  BY DEF Drift, Resting
<1>2. FileEnd' = FileEnd
  BY DEF FileEnd, FilePage
<1>3. Drift' \in 0..errors'
  BY <1>1
<1>4. call'.at \notin {"read", "write"} /\ (call'.at = "skip" => pos' = swapStart)
  BY DEF Resting
<1>5. QED
  BY <1>1, <1>2, <1>3, <1>4 DEF DrivenOn, Driven

LEMMA ExitDrives ==
    ASSUME IInv, Driven, Exit
    PROVE  DrivenOn
<1>1. UNCHANGED <<length, pos, call, errors>>
  BY DEF Exit, content
<1>2. QED
  BY <1>1 DEF DrivenOn, Driven, Drift, Dist, FilePage, FileEnd

LEMMA fileCreateDrives ==
    ASSUME IInv, Driven, fileCreate
    PROVE  DrivenOn
<1>1. CASE Exit
  BY <1>1, ExitDrives
<1>2. CASE ~Exit
  <2>1. /\ length' \in {0, FileEnd + 1} /\ call.at = "start" /\ Goto("idle")
        /\ UNCHANGED errors /\ TypeOK /\ "idle" \in Places
    BY <1>2 DEF fileCreate, At, IInv, Places
  <2>2. call'.at = "idle" /\ errors \in Nat
    BY <2>1, Goes, Counts
  <2>3. Drift = 0 /\ Drift' = 0
    BY <2>1, <2>2 DEF Drift
  <2>4. FileEnd \in Nat
    BY FilePages, SizeAssumption DEF FileEnd
  <2>5. length' = 0 \/ FileEnd < length'
    BY <2>1, <2>4
  <2>6. QED
    BY <2>1, <2>2, <2>3, <2>5 DEF DrivenOn, Driven, FileEnd, FilePage
<1>3. QED
  BY <1>1, <1>2

LEMMA resetFilePointerDrives ==
    ASSUME IInv, Driven, resetFilePointer
    PROVE  DrivenOn
<1>1. CASE Exit
  BY <1>1, ExitDrives
<1>2. CASE pos' = swapStart /\ Goto("skip") /\ UNCHANGED <<content, proc>>
  <2>1. /\ UNCHANGED <<length, errors>> /\ call.at = "reset" /\ TypeOK /\ "skip" \in Places
    BY <1>2 DEF resetFilePointer, At, content, IInv, Places
  <2>2. call'.at = "skip" /\ errors \in Nat /\ "reset" \in Resting
    BY <1>2, <2>1, Goes, Counts DEF Resting
  <2>3. QED
    BY <1>2, <2>1, <2>2, QuietDrive
<1>3. QED
  BY <1>1, <1>2 DEF resetFilePointer, Seek

LEMMA moveCurDrives ==
    ASSUME IInv, Driven, moveCur
    PROVE  DrivenOn
<1>1. CASE Exit
  BY <1>1, ExitDrives
<1>2. CASE pos' = pos + call.dist * PageSize /\ Goto("read") /\ UNCHANGED <<content, proc>>
  <2>1. /\ UNCHANGED <<length, errors>> /\ call.at = "skip" /\ TypeOK /\ "read" \in Places
    BY <1>2 DEF moveCur, At, content, IInv, Places
  <2>2. /\ call'.at = "read" /\ call'.off = call.off
        /\ call'.dist = call.dist /\ call'.i = call.i
    BY <1>2, <2>1, Goes
  <2>3. call.off = 0 /\ call.i = 0 /\ call.dist \in Nat /\ errors \in Nat
    BY <2>1, Counts DEF IInv, Advanced
  <2>4. Dist' = call.dist /\ pos' = FilePage(call.dist) /\ FilePage(call.dist) \in Nat
    <3>1. call.dist * PageSize \in Nat
      BY <2>3, Multiples, call.dist + 1 \in Nat, call.dist < call.dist + 1
    <3>2. pos = swapStart /\ swapStart \in Nat
      BY <2>1, SizeAssumption DEF Driven
    <3>3. QED
      BY <1>2, <2>2, <2>3, <3>1, <3>2 DEF Dist, FilePage
  <2>5. FilePage(Dist)' = FilePage(call.dist) /\ FileEnd' = FileEnd
    BY <2>4 DEF FilePage, FileEnd
  <2>6. Drift = 0 /\ Drift' = 0
    BY <2>1, <2>2, <2>3, <2>4, <2>5 DEF Drift, Dist
  <2>7. FilePage(Dist)' <= pos'
    BY <2>4, <2>5
  <2>8. QED
    BY <2>1, <2>2, <2>3, <2>5, <2>6, <2>7 DEF DrivenOn, Driven
<1>3. QED
  BY <1>1, <1>2 DEF moveCur, Seek

(* A failure takes the offset one unit ahead of the loop, and nothing else *)
(* does.                                                                   *)
LEMMA Drifts ==
    ASSUME IInv, call.at \in {"read", "write"},
           NEW back \in {"readBack", "writeBack"},
           NEW n, \/ n = -1 /\ errors < MaxErrors
                  \/ n \in 0..(PageSize - call.off),
           Moved(n, back)
    PROVE  /\ Drift' = IF n = -1 THEN Drift + 1 ELSE Drift
           /\ pos' = IF n = -1 THEN pos ELSE pos + n
           /\ call'.at \in {call.at, back}
           /\ FilePage(Dist)' = FilePage(Dist)
           /\ FilePage(Dist) \in Nat /\ pos \in Nat /\ errors \in Nat /\ n \in Int
<1>1. TypeOK /\ call.off < PageSize /\ back \in Places
  BY DEF IInv, Advanced, Places
<1>2. /\ call'.off = call.off + n
      /\ call'.at \in {call.at, back}
      /\ call'.dist = call.dist /\ call'.i = call.i
      /\ pos' = IF n = -1 THEN pos ELSE pos + n
  BY <1>1, Moves
<1>3. FilePage(Dist) \in Nat /\ pos \in Nat /\ errors \in Nat /\ call.off \in Int /\ n \in Int
  <2>1. FilePage(Dist) \in Nat /\ PageSize \in Nat
    BY SwapPlace DEF Swapping
  <2>2. QED
    BY <1>1, <2>1, Counts
<1>4. FilePage(Dist)' = FilePage(Dist)
  BY <1>2 DEF Dist, FilePage
<1>5. Drift = pos - (FilePage(Dist) + call.off)
  BY DEF Drift, Dist
<1>6. Drift' = pos' - (FilePage(Dist) + call'.off)
  BY <1>2, <1>4 DEF Drift, Dist
<1>7. Drift' = IF n = -1 THEN Drift + 1 ELSE Drift
  BY <1>2, <1>3, <1>5, <1>6
<1>8. QED
  BY <1>2, <1>3, <1>4, <1>7

(* A transfer that moves n units, and one that fails. *)
LEMMA MovingDrives ==
    ASSUME IInv, Driven, call.at \in {"read", "write"},
           NEW back \in {"readBack", "writeBack"},
           NEW n, \/ n = -1 /\ errors < MaxErrors
                  \/ n \in 0..(PageSize - call.off),
           Moved(n, back),
           length' = 0 \/ FileEnd < length'
    PROVE  DrivenOn
<1>1. /\ Drift' = IF n = -1 THEN Drift + 1 ELSE Drift
      /\ pos' = IF n = -1 THEN pos ELSE pos + n
      /\ call'.at \in {call.at, back}
      /\ FilePage(Dist)' = FilePage(Dist)
      /\ FilePage(Dist) \in Nat /\ pos \in Nat /\ errors \in Nat /\ n \in Int
  BY Drifts
<1>2. errors' = IF n = -1 THEN errors + 1 ELSE errors
  BY DEF Moved
<1>3. Drift \in 0..errors /\ FilePage(Dist) <= pos
  BY DEF Driven
<1>4. n = -1 \/ n >= 0
  <2>1. call.off \in Int /\ PageSize \in Nat
    BY Counts, SizeAssumption DEF IInv
  <2>2. QED
    BY <2>1
<1>5. Drift' \in 0..errors' /\ FilePage(Dist)' <= pos' /\ (Drift' = 0 => Drift = 0)
  BY <1>1, <1>2, <1>3, <1>4
<1>6. call'.at # "skip" /\ FileEnd' = FileEnd
  BY <1>1 DEF FileEnd, FilePage
<1>7. QED
  BY <1>5, <1>6 DEF DrivenOn, Driven

LEMMA readPageDrives ==
    ASSUME IInv, Driven, readPage
    PROVE  DrivenOn
<1>1. PICK n \in Results(Remaining(call.off, PageSize), Ahead) :
         Fetch(addrTemp, n) /\ Moved(n, "readBack")
  BY DEF readPage
<1>2. /\ TypeOK /\ call.at = "read" /\ UNCHANGED length /\ call.off < PageSize
      /\ call.off \in Int /\ PageSize \in Nat
  BY Counts, SizeAssumption DEF readPage, At, IInv, Advanced
<1>3. Remaining(call.off, PageSize) \in Nat /\ Remaining(call.off, PageSize) = PageSize - call.off
  BY <1>2 DEF Remaining
<1>4. (n = -1 /\ errors < MaxErrors) \/ n \in 0..(PageSize - call.off)
  BY <1>2, <1>3, AheadIsCount, Returned
<1>5. length' = 0 \/ FileEnd < length'
  BY <1>2 DEF Driven
<1>6. QED
  BY <1>1, <1>2, <1>4, <1>5, MovingDrives

LEMMA writePageDrives ==
    ASSUME IInv, Driven, writePage
    PROVE  DrivenOn
<1> DEFINE asked == Remaining(call.off, PageSize)
<1>1. PICK n \in Results(asked, asked) :
         Store(PageAddr(Rec), n) /\ Moved(n, "writeBack")
  BY DEF writePage, Rec
<1>2. /\ TypeOK /\ call.at = "write" /\ call.off < PageSize
      /\ call.off \in Int /\ PageSize \in Nat
  BY Counts, SizeAssumption DEF writePage, At, IInv, Advanced
<1>3. asked \in Nat /\ asked = PageSize - call.off
  BY <1>2 DEF Remaining
<1> HIDE DEF asked
<1>4. (n = -1 /\ errors < MaxErrors) \/ n \in 0..(PageSize - call.off)
  BY <1>2, <1>3, Returned
<1>5. /\ length' = IF pos + n > length THEN pos + n ELSE length
      /\ pos \in Nat /\ length \in Nat /\ n \in Int
  BY <1>1, <1>2, <1>4, Counts DEF Store
<1>6. FileEnd < length /\ FileEnd \in Nat
  BY <1>2, SwapPlace DEF Driven, Swapping, IInv, EmptyFileKeepsPages
<1>7. FileEnd < length'
  BY <1>5, <1>6
<1>8. QED
  BY <1>1, <1>2, <1>4, <1>7, MovingDrives

(* The end of a page takes the offset back, however far it is ahead. *)
LEMMA BackDrives ==
    ASSUME IInv, Driven, pos' = Back(pos), UNCHANGED <<length, errors>>,
           \/ call.at = "readBack" /\ call' = [call EXCEPT !.at = "write", !.off = 0]
           \/ call.at = "writeBack" /\ Goto("copy")
    PROVE  DrivenOn
<1>1. /\ call'.dist = call.dist /\ call'.i = call.i
      /\ \/ call'.at = "write" /\ call'.off = 0
         \/ call'.at = "copy"
  BY DEF Goto, IInv, TypeOK
<1>2. /\ FilePage(Dist) \in Nat /\ PageSize \in Nat /\ call.off = PageSize
      /\ pos \in Nat
  BY SwapPlace, Counts DEF Swapping, IInv, Advanced
<1>3. FilePage(Dist)' = FilePage(Dist) /\ FileEnd' = FileEnd
  BY <1>1 DEF Dist, FilePage, FileEnd
<1>4. Drift = pos - (FilePage(Dist) + PageSize)
  BY <1>2 DEF Drift, Dist
<1>5. Drift' = pos' - FilePage(Dist)
  <2>1. FilePage(Dist) + 0 = FilePage(Dist)
    BY <1>2
  <2>2. QED
    BY <1>1, <1>3, <2>1 DEF Drift, Dist
<1>6. Drift' = Drift /\ Drift \in 0..errors
  BY <1>2, <1>4, <1>5 DEF Back, Driven
<1>7. FilePage(Dist)' <= pos'
  <2>1. pos' \in Int
    BY <1>2 DEF Back
  <2>2. errors \in Nat
    BY Counts DEF IInv
  <2>3. QED
    BY <1>2, <1>3, <1>5, <1>6, <2>1, <2>2
<1>8. QED
  BY <1>1, <1>3, <1>6, <1>7 DEF DrivenOn, Driven

LEMMA memcpyDrives ==
    ASSUME IInv, Driven, memcpy
    PROVE  DrivenOn
<1>1. /\ TypeOK /\ call.at = "copy" /\ Goto("next") /\ "next" \in Places
      /\ UNCHANGED <<length, pos, errors>>
  BY DEF memcpy, At, IInv, Places
<1>2. call'.at = "next" /\ call'.dist = call.dist /\ call'.i = call.i
  BY <1>1, Goes
<1>3. Drift' = Drift /\ FileEnd' = FileEnd
  BY <1>1, <1>2 DEF Drift, FilePage, FileEnd
<1>4. QED
  BY <1>1, <1>2, <1>3 DEF DrivenOn, Driven

LEMMA movePageDrives ==
    ASSUME IInv, Driven, movePage
    PROVE  DrivenOn
<1>1. CASE Exit
  BY <1>1, ExitDrives
<1> DEFINE to == IF call.i + 1 < segSwap THEN "read" ELSE "idle"
<1>2. CASE /\ pos' = pos + PageSize
           /\ call' = [call EXCEPT !.i = @ + 1, !.off = 0, !.at = to]
           /\ UNCHANGED <<content, proc>>
  <2>1. /\ TypeOK /\ call.at = "next" /\ UNCHANGED <<length, errors>>
        /\ pos \in Nat /\ PageSize \in Nat /\ errors \in Nat
    BY <1>2, Counts, SizeAssumption DEF movePage, At, IInv, content
  <2>2. /\ call'.at = to /\ call'.off = 0 /\ call'.i = call.i + 1
        /\ call'.dist = call.dist
    BY <1>2, <2>1 DEF TypeOK
  <2>3. /\ FilePage(Dist) \in Nat /\ FilePage(Dist)' = FilePage(Dist) + PageSize
        /\ FileEnd' = FileEnd
    <3>1. Dist' = Dist + 1 /\ Dist \in Nat
      BY <2>1, <2>2, Counts DEF Dist
    <3>2. FilePage(Dist) \in Nat /\ FilePage(Dist + 1) = FilePage(Dist) + PageSize
      BY <3>1, FilePages
    <3>3. QED
      BY <3>1, <3>2 DEF FilePage, FileEnd
  <2>4. Drift = pos - FilePage(Dist) /\ Drift \in 0..errors
    BY <2>1 DEF Drift, Dist, Driven
  <2>5. CASE to = "read"
    <3>1. Drift' = pos' - (FilePage(Dist)' + 0)
      BY <2>2, <2>5 DEF Drift, Dist
    <3>2. Drift' = Drift
      BY <1>2, <2>1, <2>3, <2>4, <3>1
    <3>3. FilePage(Dist)' <= pos'
      BY <1>2, <2>1, <2>3, <2>4
    <3>4. QED
      BY <2>1, <2>2, <2>3, <2>4, <2>5, <3>2, <3>3 DEF DrivenOn, Driven
  <2>6. CASE to = "idle"
    <3>1. Drift' = 0
      BY <2>2, <2>6 DEF Drift
    <3>2. QED
      BY <2>1, <2>2, <2>3, <2>6, <3>1 DEF DrivenOn, Driven
  <2>7. QED
    BY <2>5, <2>6
<1>3. QED
  BY <1>1, <1>2 DEF movePage

(* The calls, cursors, searches and copies in memory have no drift. *)
LEMMA OthersDrive ==
    ASSUME IInv, IInv', Driven,
           \/ \E rec, dist : swap(rec, dist)
           \/ findSwap \/ readAmount \/ resetABS \/ copyPages \/ exchangeEntry
           \/ \E dist : moveCurABS(dist)
           \/ \E page1, page2 : swap_in_memory(page1, page2)
    PROVE  DrivenOn
<1>1. errors' \in Nat
  BY SizeAssumption DEF IInv, TypeOK
<1>2. UNCHANGED length /\ call.at \in Resting /\ call'.at \in Resting
  <2>1. TypeOK
    BY DEF IInv
  <2>2. CASE \E rec, dist : swap(rec, dist)
    BY <2>2 DEF swap, At, content, Resting
  <2>3. CASE \E page1, page2 : swap_in_memory(page1, page2)
    <3>1. PICK page1, page2 : swap_in_memory(page1, page2)
      BY <2>3
    <3>2. QED
      BY <3>1 DEF swap_in_memory, At, content, Resting
  <2>4. CASE findSwap
    BY <2>1, <2>4 DEF findSwap, At, content, TypeOK, Resting
  <2>5. CASE readAmount
    BY <2>1, <2>5 DEF readAmount, Moved, At, TypeOK, Resting
  <2>6. ASSUME NEW p, call.at = "idle", Seek(p, "idle")
        PROVE  UNCHANGED length /\ call'.at = "idle"
    BY <2>1, <2>6 DEF Seek, Exit, Goto, content, TypeOK
  <2>7. CASE resetABS \/ \E dist : moveCurABS(dist)
    BY <2>6, <2>7 DEF resetABS, moveCurABS, At, Resting
  <2>8. CASE copyPages
    BY <2>1, <2>8 DEF copyPages, At, Goto, TypeOK, Resting
  <2>9. CASE exchangeEntry
    BY <2>9 DEF exchangeEntry, At, Resting
  <2>10. QED
    BY <2>2, <2>3, <2>4, <2>5, <2>7, <2>8, <2>9
<1>3. QED
  BY <1>1, <1>2, QuietDrive

(* Every step keeps the file offset of a swap where its failures took it. *)
LEMMA NextDrives ==
    ASSUME IInv, IInv', Driven, [Next]_vars
    PROVE  DrivenOn
<1>1. CASE UNCHANGED vars
  BY <1>1 DEF vars, DrivenOn, Driven, Drift, Dist, FilePage, FileEnd
<1>2. CASE readBack
  <2>1. CASE Exit
    BY <2>1, ExitDrives
  <2>2. CASE ~Exit
    BY <1>2, <2>2, BackDrives DEF readBack, At, content
  <2>3. QED
    BY <2>1, <2>2
<1>3. CASE writeBack
  <2>1. CASE Exit
    BY <2>1, ExitDrives
  <2>2. CASE ~Exit
    BY <1>3, <2>2, BackDrives DEF writeBack, Seek, At, content
  <2>3. QED
    BY <2>1, <2>2
<1>4. QED
  BY <1>1, <1>2, <1>3, fileCreateDrives, resetFilePointerDrives, moveCurDrives,
     readPageDrives, writePageDrives, memcpyDrives, movePageDrives, OthersDrive
  DEF Next, Step

LEMMA InitDrives == Init => Driven
BY DEF Init, Driven, Drift

LEMMA OffsetIsDriven == Spec => []Driven
<1>1. IInv /\ IInv' /\ Driven /\ [Next]_vars => Driven'
  BY NextDrives DEF DrivenOn
<1>2. QED
  BY <1>1, InitDrives, Invariance, PTL DEF Spec

-----------------------------------------------------------------------------
(* The refinement: while no transfer of a swap fails, the pages change     *)
(* places as SegmentSwap says.                                             *)

(* The first n units of the temporary page are those of page d of the      *)
(* file; those of page d are those of frame r; those of memory at a are    *)
(* those at b.                                                             *)
TempHolds(d, n) == \A k \in 0..(n - 1) : mem[addrTemp + k] = file[FilePage(d) + k]
FileHolds(d, r, n) == \A k \in 0..(n - 1) : file[FilePage(d) + k] = mem[PageAddr(r) + k]
SameIn(a, b) == \A k \in 0..(PageSize - 1) : mem[a + k] = mem[b + k]

(* What the transfers have brought about, if none of this swap has failed. *)
Exact ==
    /\ call.at = "read" =>
          pos = FilePage(Dist) + call.off /\ call.off >= 0 /\ TempHolds(Dist, call.off)
    /\ call.at = "readBack" =>
          pos = FilePage(Dist) + PageSize /\ TempHolds(Dist, PageSize)
    /\ call.at = "write" =>
          pos = FilePage(Dist) + call.off /\ call.off >= 0 /\ FileHolds(Dist, Rec, call.off)
    /\ call.at = "writeBack" =>
          pos = FilePage(Dist) + PageSize /\ FileHolds(Dist, Rec, PageSize)
    /\ call.at = "copy" => pos = FilePage(Dist) /\ FileHolds(Dist, Rec, PageSize)
    /\ call.at = "next" => pos = FilePage(Dist)
    /\ call.at = "to page2" => SameIn(addrTemp, PageAddr(call.page2))
    /\ call.at = "to page1" => SameIn(PageAddr(call.page2), PageAddr(call.page1))

(* The frames and the pages of the file that SegmentSwap sees. *)
FrameAt(r) == IF SavedFrame(r) THEN PageIn(addrTemp) ELSE PageIn(PageAddr(r))
DiskAt(d) ==
    IF length = 0 THEN ZeroPage
    ELSE IF Saved(d) THEN PageIn(addrTemp)
    ELSE PageOf(d)

ram == [r \in 0..(RamPages - 1) |-> FrameAt(r)]
disk == [d \in 0..(DiskPages - 1) |-> DiskAt(d)]

(* No frame and no page of the file seems to change. *)
Stutters ==
    /\ \A r \in 0..(RamPages - 1) : FrameAt(r)' = FrameAt(r)
    /\ \A d \in 0..(DiskPages - 1) : DiskAt(d)' = DiskAt(d)

LEMMA StutteringStep == Stutters => ram' = ram /\ disk' = disk
BY DEF Stutters, ram, disk

(* Pages of the file, and page frames, do not overlap. *)
LEMMA PagesApart ==
    ASSUME NEW d \in Nat, NEW e \in Nat, d # e, NEW k \in 0..(PageSize - 1)
    PROVE  /\ FilePage(d) + k \notin FilePage(e)..(FilePage(e) + PageSize - 1)
           /\ PageAddr(d) + k \notin PageAddr(e)..(PageAddr(e) + PageSize - 1)
<1>1. /\ FilePage(d) \in Nat /\ FilePage(e) \in Nat
      /\ PageAddr(d) \in Nat /\ PageAddr(e) \in Nat /\ PageSize \in Nat
  BY FilePages, Frames, SizeAssumption
<1>2. CASE d < e
  <2>1. /\ FilePage(d) + PageSize <= FilePage(e)
        /\ PageAddr(d) + PageSize <= PageAddr(e)
    BY <1>2, FilePages, Frames
  <2>2. QED
    BY <1>1, <2>1
<1>3. CASE e < d
  <2>1. /\ FilePage(e) + PageSize <= FilePage(d)
        /\ PageAddr(e) + PageSize <= PageAddr(d)
    BY <1>3, FilePages, Frames
  <2>2. QED
    BY <1>1, <2>1
<1>4. QED
  BY <1>2, <1>3

(* A step that does not end the process. *)
Running == proc = "running" /\ proc' = "running"

(* A step that leaves memory and the file alone and goes from one place    *)
(* to another where the same page is saved.                                *)
LEMMA QuietStep ==
    ASSUME UNCHANGED <<mem, file, length>>,
           call.at \notin {"write", "writeBack", "copy", "to page1"},
           call'.at \notin {"write", "writeBack", "copy", "to page1"}
    PROVE  Stutters
<1>1. ASSUME NEW r PROVE FrameAt(r)' = FrameAt(r)
  BY DEF FrameAt, SavedFrame, PageIn
<1>2. ASSUME NEW d PROVE DiskAt(d)' = DiskAt(d)
  BY DEF DiskAt, Saved, PageIn, PageOf, ZeroPage
<1>3. QED
  BY <1>1, <1>2 DEF Stutters

(* The units of a frame are in memory, past the temporary page. *)
LEMMA FrameUnits ==
    ASSUME NEW r \in 0..(RamPages - 1), NEW k \in 0..(PageSize - 1)
    PROVE  PageAddr(r) + k \in Address /\ PageSize <= PageAddr(r) + k
<1>1. r \in Nat /\ r < RamPages
  BY SizeAssumption
<1>2. /\ PageAddr(r) \in Nat /\ PageSize <= PageAddr(r) /\ PageSize \in Nat
      /\ MaxErrors \in Nat
      /\ \A j \in (-MaxErrors)..(PageSize - 1) : PageAddr(r) + j \in Address
  BY <1>1, FrameFits
<1>3. k \in (-MaxErrors)..(PageSize - 1) /\ PageSize <= PageAddr(r) + k
  BY <1>2
<1>4. QED
  BY <1>2, <1>3

(* Reading into the temporary page, while nothing is saved there. *)
LEMMA ReadingStep ==
    ASSUME IInv, UNCHANGED <<file, length>>,
           call.at \notin {"write", "writeBack", "copy", "to page1"},
           call'.at \notin {"write", "writeBack", "copy", "to page1"},
           \A a \in Address : PageSize <= a => mem'[a] = mem[a]
    PROVE  Stutters
<1>1. ASSUME NEW r \in 0..(RamPages - 1) PROVE FrameAt(r)' = FrameAt(r)
  <2>1. PageIn(PageAddr(r))' = PageIn(PageAddr(r))
    BY FrameUnits DEF PageIn
  <2>2. QED
    BY <2>1 DEF FrameAt, SavedFrame
<1>2. ASSUME NEW d PROVE DiskAt(d)' = DiskAt(d)
  BY DEF DiskAt, Saved, PageIn, PageOf, ZeroPage
<1>3. QED
  BY <1>1, <1>2 DEF Stutters

(* The end of the process loses at most the page of the file that a swap   *)
(* has just overwritten.                                                   *)
Ends ==
    /\ ram' = ram
    /\ \/ disk' = disk
       \/ \E r \in 0..(RamPages - 1), d \in 0..(DiskPages - 1) :
             disk' = [disk EXCEPT ![d] = ram[r]]

LEMMA NextRuns ==
    ASSUME Next
    PROVE  proc = "running" /\ proc' \in {"running", "exited"}
BY DEF Next, Step, fileCreate, swap, findSwap, moveCurABS, resetABS, swap_in_memory,
       resetFilePointer, moveCur, readPage, readBack, writePage, writeBack, memcpy,
       movePage, readAmount, copyPages, exchangeEntry, At, Seek, Exit

LEMMA EndExact ==
    ASSUME IInv, Exact, Next, proc' # "running"
    PROVE  Exact' /\ Ends
<1>1. /\ Exit /\ TypeOK
      /\ call.at \in {"start", "idle", "reset", "skip", "readBack", "writeBack", "next"}
  BY NextRuns
  DEF IInv, Next, Step, fileCreate, swap, findSwap, moveCurABS, resetABS, swap_in_memory,
      resetFilePointer, moveCur, readPage, readBack, writePage, writeBack, memcpy,
      movePage, readAmount, copyPages, exchangeEntry, At, Seek
<1>2. UNCHANGED <<mem, file, length, pos, call>> /\ proc' = "exited"
  BY <1>1 DEF Exit, content
<1>3. Exact'
  BY <1>2 DEF Exact, Dist, Rec, TempHolds, FileHolds, SameIn
<1>4. ram' = ram
  BY <1>2 DEF ram, FrameAt, SavedFrame, PageIn
<1>5. \A d \in 0..(DiskPages - 1) : DiskAt(d)' = IF length = 0 THEN ZeroPage ELSE PageOf(d)
  BY <1>2 DEF DiskAt, Saved, PageOf, ZeroPage
<1>6. CASE call.at # "writeBack"
  <2>1. \A d \in 0..(DiskPages - 1) : DiskAt(d)' = DiskAt(d)
    BY <1>1, <1>5, <1>6 DEF DiskAt, Saved
  <2>2. QED
    BY <1>3, <1>4, <2>1 DEF Ends, disk
<1>7. CASE call.at = "writeBack"
  <2>1. Rec \in 0..(RamPages - 1) /\ Dist \in 0..(DiskPages - 1)
    <3>1. /\ Rec \in Nat /\ Rec < RamPages /\ Dist \in Nat /\ Dist < DiskPages
      BY <1>7, SwapPlace DEF Swapping
    <3>2. QED
      BY <3>1, SizeAssumption
  <2>2. length # 0 /\ FileHolds(Dist, Rec, PageSize)
    BY <1>7 DEF IInv, EmptyFileKeepsPages, Exact
  <2>3. FrameAt(Rec) = PageIn(PageAddr(Rec))
    BY <1>7 DEF FrameAt, SavedFrame
  <2>4. PageOf(Dist) = FrameAt(Rec)
    BY <2>2, <2>3 DEF FileHolds, PageOf, PageIn
  <2>5. \A d \in 0..(DiskPages - 1) :
           DiskAt(d)' = IF d = Dist THEN FrameAt(Rec) ELSE DiskAt(d)
    BY <1>5, <2>2, <2>4 DEF DiskAt, Saved, Dist
  <2>6. disk' = [disk EXCEPT ![Dist] = ram[Rec]]
    BY <2>1, <2>5 DEF disk, ram
  <2>7. QED
    BY <1>3, <1>4, <2>1, <2>6 DEF Ends
<1>8. QED
  BY <1>6, <1>7

(* The steps that only go on: calls and cursors. *)
LEMMA GoingExact ==
    ASSUME Running, Exact, UNCHANGED <<mem, file, length>>,
           call.at \in {"idle", "next"},
           call'.at \in {"idle", "reset", "amount", "to temp"}
    PROVE  Exact' /\ Stutters
<1>1. Exact'
  BY DEF Exact
<1>2. Stutters
  BY QuietStep
<1>3. QED
  BY <1>1, <1>2

LEMMA resetFilePointerExact ==
    ASSUME Running, IInv, Exact, resetFilePointer
    PROVE  Exact' /\ Stutters
<1>1. CASE Exit
  BY <1>1 DEF Exit, Running
<1>2. CASE pos' = swapStart /\ Goto("skip") /\ UNCHANGED <<content, proc>>
  <2>1. /\ UNCHANGED <<mem, file, length>> /\ call.at = "reset" /\ call'.at = "skip"
    BY <1>2, Goes DEF resetFilePointer, At, content, IInv, Places
  <2>2. Exact'
    BY <1>2, <2>1 DEF Exact
  <2>3. QED
    BY <2>1, <2>2, QuietStep
<1>3. QED
  BY <1>1, <1>2 DEF resetFilePointer, Seek

LEMMA moveCurExact ==
    ASSUME Running, IInv, Driven, Exact, moveCur
    PROVE  Exact' /\ Stutters
<1>1. CASE Exit
  BY <1>1 DEF Exit, Running
<1>2. CASE pos' = pos + call.dist * PageSize /\ Goto("read") /\ UNCHANGED <<content, proc>>
  <2>1. /\ UNCHANGED <<mem, file, length, errors>> /\ call.at = "skip"
        /\ TypeOK /\ "read" \in Places
    BY <1>2 DEF moveCur, At, content, IInv, Places
  <2>2. /\ call'.at = "read" /\ call'.off = call.off
        /\ call'.dist = call.dist /\ call'.i = call.i
    BY <1>2, <2>1, Goes
  <2>3. call.off = 0 /\ call.i = 0 /\ call.dist \in Nat
    BY <2>1, Counts DEF IInv, Advanced
  <2>4. Dist' = call.dist /\ pos' = FilePage(call.dist) + 0
    <3>1. call.dist * PageSize \in Nat
      BY <2>3, Multiples, call.dist + 1 \in Nat, call.dist < call.dist + 1
    <3>2. pos = swapStart /\ swapStart \in Nat
      BY <2>1, SizeAssumption DEF Driven
    <3>3. QED
      BY <1>2, <2>2, <2>3, <3>1, <3>2 DEF Dist, FilePage
  <2>5. TempHolds(call.dist, 0)'
    BY DEF TempHolds
  <2>6. Exact'
    BY <2>1, <2>2, <2>3, <2>4, <2>5 DEF Exact
  <2>7. QED
    BY <2>1, <2>2, <2>6, QuietStep
<1>3. QED
  BY <1>1, <1>2 DEF moveCur, Seek

LEMMA readPageExact ==
    ASSUME Running, IInv, Drift = 0, Drift' = 0, Exact, readPage
    PROVE  Exact' /\ Stutters
<1>1. PICK n \in Results(Remaining(call.off, PageSize), Ahead) :
         Fetch(addrTemp, n) /\ Moved(n, "readBack")
  BY DEF readPage
<1> DEFINE off == call.off
<1>2. /\ TypeOK /\ call.at = "read" /\ UNCHANGED <<file, length, page, proc>>
      /\ "readBack" \in Places
  BY DEF readPage, At, IInv, Places
<1>3. /\ off \in Nat /\ off < PageSize /\ PageSize \in Nat
      /\ pos = FilePage(Dist) + off /\ FilePage(Dist) \in Nat
      /\ TempHolds(Dist, off)
  <2>1. off < PageSize /\ pos = FilePage(Dist) + off /\ off >= 0 /\ TempHolds(Dist, off)
    BY <1>2 DEF Exact, IInv, Advanced
  <2>2. off \in Int
    BY <1>2, Counts
  <2>3. FilePage(Dist) \in Nat /\ PageSize \in Nat
    BY <1>2, SwapPlace DEF Swapping
  <2>4. QED
    BY <2>1, <2>2, <2>3
<1>4. n \in 0..(PageSize - off)
  <2>1. Remaining(off, PageSize) \in Nat /\ Remaining(off, PageSize) = PageSize - off
    BY <1>3 DEF Remaining
  <2>2. \/ n = -1 /\ errors < MaxErrors
        \/ n \in 0..(PageSize - off)
    BY <1>2, <2>1, AheadIsCount, Returned
  <2>3. n # -1
    BY <1>1, <1>2, <2>2, Drifts
  <2>4. QED
    BY <2>2, <2>3
<1>5. /\ call'.off = off + n
      /\ call'.at = IF off + n < PageSize THEN "read" ELSE "readBack"
      /\ Dist' = Dist /\ Rec' = Rec
      /\ pos' = pos + n
  <2>1. /\ call'.off = off + n
        /\ call'.at = IF off + n < PageSize THEN call.at ELSE "readBack"
        /\ call'.rec = call.rec /\ call'.dist = call.dist /\ call'.i = call.i
        /\ pos' = IF n = -1 THEN pos ELSE pos + n
    BY <1>1, <1>2, <1>3, <1>4, Moves
  <2>2. QED
    BY <2>1, <1>2, <1>4 DEF Dist, Rec
<1>6. \A a \in Address :
         mem'[a] = IF a \in off..(off + n - 1) THEN file[pos + a - off] ELSE mem[a]
  <2>1. Remaining(off, PageSize) \in Nat
    BY <1>3 DEF Remaining
  <2>2. QED
    BY <1>1, <1>2, <2>1, Fetches
<1> HIDE DEF off
<1>7. \A a \in Address : PageSize <= a => mem'[a] = mem[a]
  <2>1. \A a \in Int : PageSize <= a => a \notin off..(off + n - 1)
    BY <1>3, <1>4
  <2>2. Address \subseteq Int
    BY DEF Address
  <2>3. QED
    BY <1>6, <2>1, <2>2
<1>8. ASSUME NEW k \in 0..(off + n - 1)
      PROVE  mem'[addrTemp + k] = file[FilePage(Dist) + k]
  <2>1. /\ addrTemp + k = k /\ k \in (-MaxErrors)..(PageSize - 1) /\ k \in Nat
    BY <1>3, <1>4, SizeAssumption DEF addrTemp
  <2>2. k \in Address
    BY <2>1, TempFits
  <2>3. CASE k < off
    <3>1. k \notin off..(off + n - 1) /\ k \in 0..(off - 1)
      BY <1>3, <2>1, <2>3
    <3>2. QED
      BY <1>3, <1>6, <2>1, <2>2, <3>1 DEF TempHolds
  <2>4. CASE ~(k < off)
    <3>1. k \in off..(off + n - 1) /\ pos + k - off = FilePage(Dist) + k
      BY <1>3, <1>4, <2>1, <2>4
    <3>2. QED
      BY <1>6, <2>1, <2>2, <3>1
  <2>5. QED
    BY <2>3, <2>4
<1>9. \A k \in 0..(call'.off - 1) : mem'[addrTemp + k] = file'[FilePage(Dist') + k]
  <2> DEFINE Equal(k) == mem'[addrTemp + k] = file'[FilePage(Dist') + k]
  <2>3. call'.off = off + n /\ off \in Int /\ n \in Int
    BY <1>3, <1>4, <1>5
  <2>1. FilePage(Dist') = FilePage(Dist)
    BY <1>5 DEF FilePage
  <2>2. \A k \in 0..(off + n - 1) : Equal(k)
    BY <1>2, <1>8, <2>1
  <2> HIDE DEF Equal
  <2>4. \A k \in 0..(call'.off - 1) : Equal(k)
    BY <2>2, <2>3
  <2>5. QED
    BY <2>4 DEF Equal
<1>10. /\ call'.off >= 0 /\ pos' = FilePage(Dist') + call'.off
       /\ call'.at = "readBack" => call'.off = PageSize
       /\ call'.at \in {"read", "readBack"}
  BY <1>3, <1>4, <1>5
<1>11. Exact'
  <2>1. CASE call'.at = "read"
    <3>1. TempHolds(Dist, call.off)'
      BY <1>9 DEF TempHolds
    <3>2. QED
      BY <2>1, <3>1, <1>10 DEF Exact
  <2>2. CASE call'.at = "readBack"
    <3>1. TempHolds(Dist, PageSize)' /\ pos' = FilePage(Dist') + PageSize
      BY <1>9, <1>10, <2>2 DEF TempHolds
    <3>2. QED
      BY <2>2, <3>1 DEF Exact
  <2>3. QED
    BY <1>10, <2>1, <2>2
<1>12. Stutters
  BY <1>2, <1>7, <1>10, ReadingStep
<1>13. QED
  BY <1>11, <1>12

LEMMA readAmountExact ==
    ASSUME Running, IInv, Exact, readAmount
    PROVE  Exact' /\ Stutters
<1>1. PICK n \in Results(Remaining(call.off, BlockSize), Ahead) :
         Fetch(addrTemp, n) /\ Moved(n, "found")
  BY DEF readAmount
<1>2. /\ TypeOK /\ call.at = "amount" /\ UNCHANGED <<file, length>> /\ "found" \in Places
  BY DEF readAmount, At, IInv, Places
<1>3. /\ call.off \in Int /\ call.off <= BlockSize /\ BlockSize \in Nat
      /\ PageSize \in Nat /\ BlockSize < PageSize
  BY <1>2, Counts, SizeAssumption DEF IInv, Advanced
<1>4. /\ Remaining(call.off, BlockSize) \in Nat
      /\ (n = -1 /\ errors < MaxErrors) \/ n \in 0..(BlockSize - call.off)
  <2>1. /\ Remaining(call.off, BlockSize) \in Nat
        /\ Remaining(call.off, BlockSize) = BlockSize - call.off
    BY <1>3 DEF Remaining
  <2>2. QED
    BY <1>2, <2>1, AheadIsCount, Returned
<1>5. call'.at = "amount"
  <2>1. /\ call.off < PageSize /\ call.off + n < PageSize
        /\ (n = -1 /\ errors < MaxErrors) \/ n \in 0..(PageSize - call.off)
    BY <1>3, <1>4
  <2>2. call'.at = IF call.off + n < PageSize THEN call.at ELSE "found"
    BY <1>1, <1>2, <2>1, Moves
  <2>3. QED
    BY <1>2, <2>1, <2>2
<1>6. \A a \in Address : PageSize <= a => mem'[a] = mem[a]
  <2>1. \A a \in Int : PageSize <= a => a \notin call.off..(call.off + n - 1)
    BY <1>3, <1>4
  <2>2. Address \subseteq Int
    BY DEF Address
  <2>3. \A a \in Address :
           mem'[a] = IF a \in call.off..(call.off + n - 1)
                     THEN file[pos + a - call.off] ELSE mem[a]
    BY <1>1, <1>2, <1>4, Fetches
  <2>4. QED
    BY <2>1, <2>2, <2>3
<1>7. Exact'
  BY <1>2, <1>5 DEF Exact
<1>8. Stutters
  BY <1>2, <1>5, <1>6, ReadingStep
<1>9. QED
  BY <1>7, <1>8

LEMMA readBackExact ==
    ASSUME Running, IInv, Exact, readBack
    PROVE  Exact' /\ Stutters
<1>1. CASE Exit
  BY <1>1 DEF Exit, Running
<1>2. CASE /\ pos' = Back(pos)
           /\ call' = [call EXCEPT !.at = "write", !.off = 0]
           /\ UNCHANGED <<content, proc>>
  <2>1. /\ TypeOK /\ call.at = "readBack" /\ UNCHANGED <<mem, file, length>>
        /\ pos = FilePage(Dist) + PageSize /\ TempHolds(Dist, PageSize)
        /\ length # 0
    BY <1>2 DEF readBack, At, IInv, content, Exact, EmptyFileKeepsPages
  <2>2. /\ call'.at = "write" /\ call'.off = 0 /\ Dist' = Dist /\ Rec' = Rec
        /\ call'.dist = call.dist /\ call'.i = call.i
    BY <1>2, <2>1 DEF TypeOK, Dist, Rec
  <2>3. pos' = FilePage(Dist) + 0
    <3>1. FilePage(Dist) \in Nat /\ PageSize \in Nat
      BY <2>1, SwapPlace DEF Swapping
    <3>2. QED
      BY <1>2, <2>1, <3>1 DEF Back
  <2>4. Exact'
    <3>1. FileHolds(Dist, Rec, call.off)'
      BY <2>2 DEF FileHolds
    <3>2. QED
      BY <2>1, <2>2, <2>3, <3>1 DEF Exact
  <2>5. PageIn(addrTemp) = PageOf(Dist)
    BY <2>1 DEF TempHolds, PageIn, PageOf
  <2>6. ASSUME NEW r PROVE FrameAt(r)' = FrameAt(r)
    BY <2>1, <2>2 DEF FrameAt, SavedFrame, PageIn
  <2>7. ASSUME NEW d PROVE DiskAt(d)' = DiskAt(d)
    <3>1. DiskAt(d) = PageOf(d)
      BY <2>1 DEF DiskAt, Saved, Running
    <3>2. DiskAt(d)' = IF d = Dist THEN PageIn(addrTemp) ELSE PageOf(d)
      BY <2>1, <2>2 DEF DiskAt, Saved, Running, Dist, PageIn, PageOf
    <3>3. QED
      BY <2>5, <3>1, <3>2
  <2>8. QED
    BY <2>4, <2>6, <2>7 DEF Stutters
<1>3. QED
  BY <1>1, <1>2 DEF readBack

LEMMA writePageExact ==
    ASSUME Running, IInv, Driven, Drift = 0, Drift' = 0, Exact, writePage
    PROVE  Exact' /\ Stutters
<1> DEFINE asked == Remaining(call.off, PageSize)
<1>1. PICK n \in Results(asked, asked) :
         Store(PageAddr(Rec), n) /\ Moved(n, "writeBack")
  BY DEF writePage, Rec
<1> DEFINE off == call.off
<1>2. /\ TypeOK /\ call.at = "write" /\ UNCHANGED <<mem, page, proc>>
      /\ "writeBack" \in Places /\ FileEnd < length /\ length \in Nat
  BY DEF writePage, At, IInv, Places, Driven, EmptyFileKeepsPages, TypeOK
<1>3. /\ Rec \in Nat /\ Rec < RamPages /\ Dist \in Nat /\ Dist < DiskPages
      /\ FilePage(Dist) \in Nat /\ FilePage(Dist) + PageSize <= FileEnd
      /\ PageAddr(Rec) \in Nat /\ FileEnd \in Nat /\ PageSize \in Nat
  BY <1>2, SwapPlace DEF Swapping
<1>4. /\ off \in Nat /\ off < PageSize
      /\ pos = FilePage(Dist) + off /\ FileHolds(Dist, Rec, off)
  <2>1. off < PageSize /\ pos = FilePage(Dist) + off /\ off >= 0 /\ FileHolds(Dist, Rec, off)
    BY <1>2 DEF Exact, IInv, Advanced
  <2>2. off \in Int
    BY <1>2, Counts
  <2>3. QED
    BY <2>1, <2>2
<1>5. n \in 0..(PageSize - off)
  <2>1. asked \in Nat /\ asked = PageSize - off
    BY <1>3, <1>4 DEF Remaining
  <2> HIDE DEF asked
  <2>2. (n = -1 /\ errors < MaxErrors) \/ n \in 0..(PageSize - off)
    BY <1>2, <2>1, Returned
  <2>3. n # -1
    BY <1>1, <1>2, <2>2, Drifts
  <2>4. QED
    BY <2>2, <2>3
<1> HIDE DEF asked
<1>6. /\ call'.off = off + n
      /\ call'.at = IF off + n < PageSize THEN "write" ELSE "writeBack"
      /\ Dist' = Dist /\ Rec' = Rec /\ call'.dist = call.dist /\ call'.i = call.i
      /\ pos' = pos + n
  <2>1. /\ call'.off = off + n
        /\ call'.at = IF off + n < PageSize THEN call.at ELSE "writeBack"
        /\ call'.rec = call.rec /\ call'.dist = call.dist /\ call'.i = call.i
        /\ pos' = IF n = -1 THEN pos ELSE pos + n
    BY <1>1, <1>2, <1>4, <1>5, Moves
  <2>2. QED
    BY <2>1, <1>2, <1>5 DEF Dist, Rec
<1>7. /\ length' = length
      /\ \A o \in 0..(length - 1) :
            file'[o] = IF o \in pos..(pos + n - 1)
                       THEN mem[PageAddr(Rec) + off + o - pos] ELSE file[o]
  <2>1. /\ length' = IF pos + n > length THEN pos + n ELSE length
        /\ \A o \in 0..(length' - 1) :
              file'[o] = IF o \in pos..(pos + n - 1)
                         THEN mem[PageAddr(Rec) + off + o - pos]
                         ELSE IF o < length THEN file[o] ELSE Zero
    BY <1>1, <1>2, <1>3, <1>5, Stores
  <2>2. pos + n <= length /\ length \in Nat
    BY <1>2, <1>3, <1>4, <1>5
  <2>3. length' = length
    BY <2>1, <2>2, <1>4, <1>3, <1>5
  <2>4. QED
    BY <2>1, <2>2, <2>3
<1> HIDE DEF off
<1>8. ASSUME NEW k \in 0..(off + n - 1)
      PROVE  file'[FilePage(Dist) + k] = mem[PageAddr(Rec) + k]
  <2>1. FilePage(Dist) + k \in 0..(length - 1) /\ k \in Nat
    BY <1>2, <1>3, <1>4, <1>5
  <2>2. CASE k < off
    <3>1. FilePage(Dist) + k \notin pos..(pos + n - 1) /\ k \in 0..(off - 1)
      BY <1>3, <1>4, <2>1, <2>2
    <3>2. QED
      BY <1>4, <1>7, <2>1, <3>1 DEF FileHolds
  <2>3. CASE ~(k < off)
    <3>1. /\ FilePage(Dist) + k \in pos..(pos + n - 1)
          /\ PageAddr(Rec) + off + (FilePage(Dist) + k) - pos = PageAddr(Rec) + k
      BY <1>3, <1>4, <1>5, <2>1, <2>3
    <3>2. QED
      BY <1>7, <2>1, <3>1
  <2>4. QED
    BY <2>2, <2>3
<1>9. \A k \in 0..(call'.off - 1) :
         file'[FilePage(Dist') + k] = mem'[PageAddr(Rec') + k]
  <2> DEFINE Equal(k) == file'[FilePage(Dist') + k] = mem'[PageAddr(Rec') + k]
  <2>3. call'.off = off + n /\ off \in Int /\ n \in Int
    BY <1>4, <1>5, <1>6
  <2>1. FilePage(Dist') = FilePage(Dist) /\ PageAddr(Rec') = PageAddr(Rec)
    BY <1>6 DEF FilePage, PageAddr
  <2>2. \A k \in 0..(off + n - 1) : Equal(k)
    BY <1>2, <1>8, <2>1
  <2> HIDE DEF Equal
  <2>4. \A k \in 0..(call'.off - 1) : Equal(k)
    BY <2>2, <2>3
  <2>5. QED
    BY <2>4 DEF Equal
<1>10. /\ call'.off >= 0 /\ pos' = FilePage(Dist') + call'.off
       /\ call'.at = "writeBack" => call'.off = PageSize
       /\ call'.at \in {"write", "writeBack"}
  BY <1>3, <1>4, <1>5, <1>6
<1>11. Exact'
  <2>1. CASE call'.at = "write"
    <3>1. FileHolds(Dist, Rec, call.off)'
      BY <1>9 DEF FileHolds
    <3>2. QED
      BY <2>1, <3>1, <1>10 DEF Exact
  <2>2. CASE call'.at = "writeBack"
    <3>1. FileHolds(Dist, Rec, PageSize)' /\ pos' = FilePage(Dist') + PageSize
      BY <1>9, <1>10, <2>2 DEF FileHolds
    <3>2. QED
      BY <2>2, <3>1 DEF Exact
  <2>3. QED
    BY <1>10, <2>1, <2>2
<1>12. ASSUME NEW d \in 0..(DiskPages - 1), d # Dist PROVE PageOf(d)' = PageOf(d)
  <2>1. d \in Nat /\ d < DiskPages
    BY SizeAssumption
  <2>2. FilePage(d) \in Nat /\ FilePage(d) + PageSize <= FileEnd
    BY <2>1, FilePages
  <2>3. ASSUME NEW k \in 0..(PageSize - 1)
        PROVE  file'[FilePage(d) + k] = file[FilePage(d) + k]
    <3>1. FilePage(d) + k \in 0..(length - 1) /\ FilePage(d) + k \in Nat
      BY <1>2, <1>3, <2>2
    <3>2. FilePage(d) + k \notin FilePage(Dist)..(FilePage(Dist) + PageSize - 1)
      BY <1>3, <1>12, <2>1, PagesApart
    <3>3. FilePage(d) + k \notin pos..(pos + n - 1)
      BY <1>3, <1>4, <1>5, <3>1, <3>2
    <3>4. QED
      BY <1>7, <3>1, <3>3
  <2>4. QED
    BY <2>3 DEF PageOf
<1>13. ASSUME NEW r PROVE FrameAt(r)' = FrameAt(r)
  BY <1>2, <1>10 DEF FrameAt, SavedFrame, PageIn
<1>14. ASSUME NEW d \in 0..(DiskPages - 1) PROVE DiskAt(d)' = DiskAt(d)
  <2>1. Saved(d)' = (d = Dist) /\ Saved(d) = (d = Dist)
    BY <1>2, <1>6, <1>10 DEF Saved, Running, Dist
  <2>2. length # 0 /\ length' # 0
    BY <1>2, <1>3, <1>7
  <2>3. PageIn(addrTemp)' = PageIn(addrTemp)
    BY <1>2 DEF PageIn
  <2>4. QED
    BY <1>12, <2>1, <2>2, <2>3 DEF DiskAt
<1>15. QED
  BY <1>11, <1>13, <1>14 DEF Stutters

LEMMA writeBackExact ==
    ASSUME Running, IInv, Exact, writeBack
    PROVE  Exact' /\ Stutters
<1>1. CASE Exit
  BY <1>1 DEF Exit, Running
<1>2. CASE pos' = Back(pos) /\ Goto("copy") /\ UNCHANGED <<content, proc>>
  <2>1. /\ TypeOK /\ call.at = "writeBack" /\ UNCHANGED <<mem, file, length, errors>>
        /\ pos = FilePage(Dist) + PageSize /\ FileHolds(Dist, Rec, PageSize)
        /\ "copy" \in Places
    BY <1>2 DEF writeBack, At, IInv, content, Exact, Places
  <2>2. /\ call'.at = "copy" /\ Dist' = Dist /\ Rec' = Rec
        /\ call'.dist = call.dist /\ call'.i = call.i
    BY <1>2, <2>1, Goes DEF Dist, Rec
  <2>3. pos' = FilePage(Dist)
    <3>1. FilePage(Dist) \in Nat /\ PageSize \in Nat
      BY <2>1, SwapPlace DEF Swapping
    <3>2. QED
      BY <1>2, <2>1, <3>1 DEF Back
  <2>4. Exact'
    <3>1. FileHolds(Dist, Rec, PageSize)'
      BY <2>1, <2>2 DEF FileHolds, FilePage, PageAddr
    <3>2. pos' = FilePage(Dist)'
      BY <2>2, <2>3 DEF FilePage
    <3>3. QED
      BY <2>1, <2>2, <3>1, <3>2 DEF Exact
  <2>5. ASSUME NEW r PROVE FrameAt(r)' = FrameAt(r)
    BY <2>1, <2>2 DEF FrameAt, SavedFrame, PageIn
  <2>6. ASSUME NEW d PROVE DiskAt(d)' = DiskAt(d)
    BY <2>1, <2>2 DEF DiskAt, Saved, Running, PageIn, PageOf, ZeroPage
  <2>7. QED
    BY <2>4, <2>5, <2>6 DEF Stutters
<1>3. QED
  BY <1>1, <1>2 DEF writeBack, Seek

LEMMA movePageExact ==
    ASSUME Running, IInv, Exact, movePage
    PROVE  Exact' /\ Stutters
<1>1. CASE Exit
  BY <1>1 DEF Exit, Running
<1> DEFINE to == IF call.i + 1 < segSwap THEN "read" ELSE "idle"
<1>2. CASE /\ pos' = pos + PageSize
           /\ call' = [call EXCEPT !.i = @ + 1, !.off = 0, !.at = to]
           /\ UNCHANGED <<content, proc>>
  <2>1. /\ TypeOK /\ call.at = "next" /\ UNCHANGED <<mem, file, length>>
        /\ pos = FilePage(Dist)
    BY <1>2 DEF movePage, At, IInv, content, Exact
  <2>2. /\ call'.at = to /\ call'.off = 0 /\ call'.i = call.i + 1
        /\ call'.dist = call.dist
    BY <1>2, <2>1 DEF TypeOK
  <2>3. pos' = FilePage(Dist') + 0
    <3>1. Dist' = Dist + 1 /\ Dist \in Nat
      BY <2>1, <2>2, Counts DEF Dist
    <3>2. FilePage(Dist) \in Nat /\ FilePage(Dist + 1) = FilePage(Dist) + PageSize
      BY <3>1, FilePages
    <3>3. FilePage(Dist') = FilePage(Dist + 1)
      BY <3>1 DEF FilePage
    <3>4. QED
      BY <1>2, <2>1, <3>2, <3>3, SizeAssumption
  <2>4. CASE to = "read"
    <3>1. TempHolds(Dist, call.off)'
      BY <2>2 DEF TempHolds
    <3>2. Exact'
      BY <2>1, <2>2, <2>3, <2>4, <3>1 DEF Exact
    <3>3. QED
      BY <2>1, <2>2, <2>4, <3>2, QuietStep
  <2>5. CASE to = "idle"
    BY <2>1, <2>2, <2>5, GoingExact
  <2>6. QED
    BY <2>4, <2>5
<1>3. QED
  BY <1>1, <1>2 DEF movePage

LEMMA fileCreateExact ==
    ASSUME Running, IInv, Exact, fileCreate
    PROVE  Exact' /\ Stutters
<1>1. CASE Exit
  BY <1>1 DEF Exit, Running
<1>2. CASE /\ length' \in {FileEnd + 1} \cup (IF LengthFails THEN {0} ELSE {})
           /\ file' = [o \in 0..(length' - 1) |-> Zero]
           /\ Goto("idle")
           /\ UNCHANGED <<mem, pos, proc, page, errors>>
  <2>1. /\ TypeOK /\ call.at = "start" /\ length = 0 /\ "idle" \in Places
    BY DEF fileCreate, At, IInv, Placed, Places
  <2>2. call'.at = "idle"
    BY <1>2, <2>1, Goes
  <2>3. Exact'
    BY <1>2, <2>2 DEF Exact
  <2>4. ASSUME NEW r PROVE FrameAt(r)' = FrameAt(r)
    BY <1>2, <2>1, <2>2 DEF FrameAt, SavedFrame, PageIn
  <2>5. ASSUME NEW d \in 0..(DiskPages - 1) PROVE DiskAt(d)' = DiskAt(d)
    <3>1. DiskAt(d) = ZeroPage
      BY <2>1 DEF DiskAt
    <3>2. CASE length' = 0
      BY <3>1, <3>2 DEF DiskAt, ZeroPage
    <3>3. CASE length' = FileEnd + 1 /\ length' # 0
      <4>1. d \in Nat /\ d < DiskPages
        BY SizeAssumption
      <4>2. /\ FilePage(d) \in Nat /\ FilePage(d) + PageSize <= FileEnd
            /\ FileEnd \in Nat /\ PageSize \in Nat
        BY <4>1, FilePages, SizeAssumption DEF FileEnd
      <4>3. \A k \in 0..(PageSize - 1) : FilePage(d) + k \in 0..(length' - 1)
        BY <3>3, <4>2
      <4>4. \A k \in 0..(PageSize - 1) : file'[FilePage(d) + k] = Zero
        BY <1>2, <4>3
      <4>5. PageOf(d)' = ZeroPage
        BY <4>4 DEF PageOf, ZeroPage
      <4>6. ~Saved(d)'
        BY <2>2 DEF Saved, Running
      <4>7. QED
        BY <3>1, <3>3, <4>5, <4>6 DEF DiskAt
    <3>4. QED
      BY <1>2, <3>2, <3>3
  <2>6. QED
    BY <2>3, <2>4, <2>5 DEF Stutters
<1>3. QED
  BY <1>1, <1>2 DEF fileCreate

LEMMA exchangeEntryExact ==
    ASSUME Running, Exact, exchangeEntry
    PROVE  Exact' /\ Stutters
<1>1. call.at = "entries" /\ UNCHANGED <<mem, file, length, pos, call>>
  BY DEF exchangeEntry, At
<1>2. Exact'
  BY <1>1 DEF Exact
<1>3. QED
  BY <1>1, <1>2, QuietStep

(* memcpy of a page to the temporary page or to a frame, from either.      *)
Pages == {addrTemp} \cup {PageAddr(r) : r \in 0..(RamPages - 1)}

LEMMA PageCopied ==
    ASSUME IInv, NEW to \in Pages, NEW from \in Pages, mem' = Copied(to, from)
    PROVE  /\ \A k \in 0..(PageSize - 1) : mem'[to + k] = mem[from + k]
           /\ \A a \in Address : a \notin to..(to + PageSize - 1) => mem'[a] = mem[a]
<1>1. ASSUME NEW p \in Pages
      PROVE  p \in Int /\ \A k \in 0..(PageSize - 1) : p + k \in Address
  <2>1. CASE p = addrTemp
    <3>1. \A k \in 0..(PageSize - 1) : p + k = k /\ k \in (-MaxErrors)..(PageSize - 1)
      BY <2>1, SizeAssumption DEF addrTemp
    <3>2. QED
      BY <2>1, <3>1, TempFits DEF addrTemp
  <2>2. ASSUME NEW r \in 0..(RamPages - 1), p = PageAddr(r)
        PROVE  p \in Int /\ \A k \in 0..(PageSize - 1) : p + k \in Address
    <3>1. r \in Nat
      BY SizeAssumption
    <3>2. PageAddr(r) \in Int
      BY <3>1, Frames
    <3>3. QED
      BY <2>2, <3>2, FrameUnits
  <2>3. QED
    BY <2>1, <2>2 DEF Pages
<1>2. \A k \in 0..(PageSize - 1) : to + k \in Address /\ from + k \in Address
  BY <1>1
<1>3. QED
  BY <1>1, <1>2, Copies DEF IInv

(* What is not in the page that was written did not change. *)
LEMMA OtherFrames ==
    ASSUME NEW r \in 0..(RamPages - 1), NEW to,
           \/ to = addrTemp
           \/ \E s \in 0..(RamPages - 1) : s # r /\ to = PageAddr(s),
           \A a \in Address : a \notin to..(to + PageSize - 1) => mem'[a] = mem[a]
    PROVE  \A k \in 0..(PageSize - 1) : mem'[PageAddr(r) + k] = mem[PageAddr(r) + k]
<1> SUFFICES ASSUME NEW k \in 0..(PageSize - 1)
             PROVE  PageAddr(r) + k \notin to..(to + PageSize - 1)
  BY FrameUnits
<1>1. CASE to = addrTemp
  <2>1. PageSize <= PageAddr(r) + k
    BY FrameUnits
  <2>2. r \in Nat /\ PageSize \in Nat
    BY SizeAssumption
  <2>3. PageAddr(r) \in Nat
    BY <2>2, Frames
  <2>4. QED
    BY <1>1, <2>1, <2>2, <2>3 DEF addrTemp
<1>2. ASSUME NEW s \in 0..(RamPages - 1), s # r, to = PageAddr(s)
      PROVE  PageAddr(r) + k \notin to..(to + PageSize - 1)
  <2>1. r \in Nat /\ s \in Nat
    BY SizeAssumption
  <2>2. QED
    BY <1>2, <2>1, PagesApart
<1>3. QED
  BY <1>1, <1>2

(* The temporary page when a frame was written. *)
LEMMA TempStays ==
    ASSUME NEW s \in 0..(RamPages - 1),
           \A a \in Address :
              a \notin PageAddr(s)..(PageAddr(s) + PageSize - 1) => mem'[a] = mem[a]
    PROVE  \A k \in 0..(PageSize - 1) : mem'[addrTemp + k] = mem[addrTemp + k]
<1> SUFFICES ASSUME NEW k \in 0..(PageSize - 1)
             PROVE  mem'[addrTemp + k] = mem[addrTemp + k]
  OBVIOUS
<1>1. PageSize \in Nat /\ s \in Nat /\ MaxErrors \in Nat
  BY SizeAssumption
<1>2. PageAddr(s) \in Nat /\ PageSize <= PageAddr(s)
  BY <1>1, Frames
<1>3. /\ addrTemp + k = k /\ k \in (-MaxErrors)..(PageSize - 1)
      /\ k \notin PageAddr(s)..(PageAddr(s) + PageSize - 1)
  BY <1>1, <1>2 DEF addrTemp
<1>4. k \in Address
  BY <1>3, TempFits
<1>5. QED
  BY <1>3, <1>4

(* The last copy of a page of a swap exchanges it with its frame. *)
LEMMA memcpyExchanges ==
    ASSUME Running, IInv, Exact, memcpy
    PROVE  /\ Exact'
           /\ \E r \in 0..(RamPages - 1), d \in 0..(DiskPages - 1) :
                 /\ ram' = [ram EXCEPT ![r] = disk[d]]
                 /\ disk' = [disk EXCEPT ![d] = ram[r]]
<1>1. /\ TypeOK /\ call.at = "copy" /\ mem' = Copied(PageAddr(Rec), addrTemp)
      /\ Goto("next") /\ UNCHANGED <<file, length, pos, errors>> /\ "next" \in Places
      /\ pos = FilePage(Dist) /\ FileHolds(Dist, Rec, PageSize) /\ length # 0
  BY DEF memcpy, At, IInv, Places, Rec, Exact, EmptyFileKeepsPages
<1>2. /\ call'.at = "next" /\ Dist' = Dist /\ Rec' = Rec
  BY <1>1, Goes DEF Dist, Rec
<1>3. Rec \in 0..(RamPages - 1) /\ Dist \in 0..(DiskPages - 1)
  <2>1. /\ Rec \in Nat /\ Rec < RamPages /\ Dist \in Nat /\ Dist < DiskPages
    BY <1>1, SwapPlace DEF Swapping
  <2>2. QED
    BY <2>1, SizeAssumption
<1>4. /\ \A k \in 0..(PageSize - 1) : mem'[PageAddr(Rec) + k] = mem[addrTemp + k]
      /\ \A a \in Address : a \notin PageAddr(Rec)..(PageAddr(Rec) + PageSize - 1) =>
            mem'[a] = mem[a]
  <2>1. PageAddr(Rec) \in Pages /\ addrTemp \in Pages
    BY <1>3 DEF Pages
  <2>2. QED
    BY <1>1, <2>1, PageCopied
<1>5. Exact'
  <2>1. pos' = FilePage(Dist)'
    BY <1>1, <1>2 DEF FilePage
  <2>2. QED
    BY <1>1, <1>2, <2>1 DEF Exact
<1>6. FrameAt(Rec)' = DiskAt(Dist)
  <2>1. DiskAt(Dist) = PageIn(addrTemp)
    BY <1>1 DEF DiskAt, Saved, Running, Dist
  <2>2. FrameAt(Rec)' = [k \in 0..(PageSize - 1) |-> mem'[PageAddr(Rec) + k]]
    BY <1>2 DEF FrameAt, SavedFrame, PageIn, PageAddr
  <2>3. QED
    BY <1>4, <2>1, <2>2 DEF PageIn
<1>7. ASSUME NEW r \in 0..(RamPages - 1), r # Rec PROVE FrameAt(r)' = FrameAt(r)
  <2>1. \A k \in 0..(PageSize - 1) : mem'[PageAddr(r) + k] = mem[PageAddr(r) + k]
    BY <1>3, <1>4, <1>7, OtherFrames
  <2>2. PageIn(PageAddr(r))' = PageIn(PageAddr(r))
    BY <2>1 DEF PageIn
  <2>3. QED
    BY <1>1, <1>2, <2>2 DEF FrameAt, SavedFrame
<1>8. DiskAt(Dist)' = FrameAt(Rec)
  <2>1. FrameAt(Rec) = PageIn(PageAddr(Rec))
    BY <1>1 DEF FrameAt, SavedFrame
  <2>2. DiskAt(Dist)' = [k \in 0..(PageSize - 1) |-> file[FilePage(Dist) + k]]
    BY <1>1, <1>2 DEF DiskAt, Saved, Running, PageOf, FilePage
  <2>3. QED
    BY <1>1, <2>1, <2>2 DEF PageIn, FileHolds
<1>9. ASSUME NEW d \in 0..(DiskPages - 1), d # Dist PROVE DiskAt(d)' = DiskAt(d)
  BY <1>1, <1>2, <1>9 DEF DiskAt, Saved, Running, PageOf, Dist
<1>10. /\ ram' = [ram EXCEPT ![Rec] = disk[Dist]]
       /\ disk' = [disk EXCEPT ![Dist] = ram[Rec]]
  BY <1>2, <1>3, <1>6, <1>7, <1>8, <1>9 DEF ram, disk
<1>11. QED
  BY <1>3, <1>5, <1>10

(* The copies of swap_in_memory: the last one exchanges the two frames. *)
LEMMA copyPagesExact ==
    ASSUME Running, IInv, Exact, copyPages
    PROVE  /\ Exact'
           /\ \/ Stutters
              \/ /\ disk' = disk
                 /\ \E r, q \in 0..(RamPages - 1) :
                       ram' = [ram EXCEPT ![r] = ram[q], ![q] = ram[r]]
<1> DEFINE p1 == call.page1
<1> DEFINE p2 == call.page2
<1> DEFINE Ram == 0..(RamPages - 1)
<1> DEFINE Units == 0..(PageSize - 1)
<1>1. /\ TypeOK /\ UNCHANGED <<file, length, pos, errors>>
      /\ {"to page2", "to page1", "entries"} \subseteq Places
  BY DEF copyPages, IInv, Places
<1>2. call.at \in Exchanging => p1 \in Ram /\ p2 \in Ram
  BY DEF IInv, Placed
<1>3. p1 \in Ram /\ p2 \in Ram
  BY <1>2 DEF copyPages, At, Exchanging
<1>4. PageAddr(p1) \in Pages /\ PageAddr(p2) \in Pages /\ addrTemp \in Pages
  BY <1>3 DEF Pages
<1>5. CASE call.at = "to temp" /\ mem' = Copied(addrTemp, PageAddr(p2)) /\ Goto("to page2")
  <2>1. call'.at = "to page2" /\ call'.page2 = p2
    BY <1>1, <1>5, Goes
  <2>2. /\ \A k \in Units : mem'[addrTemp + k] = mem[PageAddr(p2) + k]
        /\ \A a \in Address : a \notin addrTemp..(addrTemp + PageSize - 1) =>
              mem'[a] = mem[a]
    BY <1>4, <1>5, PageCopied
  <2>3. \A k \in Units : mem'[PageAddr(p2) + k] = mem[PageAddr(p2) + k]
    BY <1>3, <2>2, OtherFrames
  <2>4. SameIn(addrTemp, PageAddr(call.page2))'
    BY <2>1, <2>2, <2>3 DEF SameIn, PageAddr
  <2>5. Exact'
    BY <1>1, <2>1, <2>4 DEF Exact
  <2>6. ASSUME NEW r \in Ram PROVE FrameAt(r)' = FrameAt(r)
    <3>1. \A k \in Units : mem'[PageAddr(r) + k] = mem[PageAddr(r) + k]
      BY <2>2, OtherFrames
    <3>2. PageIn(PageAddr(r))' = PageIn(PageAddr(r))
      BY <3>1 DEF PageIn
    <3>3. QED
      BY <1>5, <2>1, <3>2 DEF FrameAt, SavedFrame
  <2>7. ASSUME NEW d PROVE DiskAt(d)' = DiskAt(d)
    BY <1>1, <1>5, <2>1 DEF DiskAt, Saved, Running, PageOf, ZeroPage
  <2>8. QED
    BY <2>5, <2>6, <2>7 DEF Stutters
<1>6. CASE call.at = "to page2" /\ mem' = Copied(PageAddr(p2), PageAddr(p1)) /\ Goto("to page1")
  <2>1. call'.at = "to page1" /\ call'.page2 = p2 /\ call'.page1 = p1
    BY <1>1, <1>6, Goes
  <2>2. /\ \A k \in Units : mem'[PageAddr(p2) + k] = mem[PageAddr(p1) + k]
        /\ \A a \in Address : a \notin PageAddr(p2)..(PageAddr(p2) + PageSize - 1) =>
              mem'[a] = mem[a]
    BY <1>4, <1>6, PageCopied
  <2>3. \A r \in Ram \ {p2} : \A k \in Units :
           mem'[PageAddr(r) + k] = mem[PageAddr(r) + k]
    BY <1>3, <2>2, OtherFrames
  <2>4. \A k \in Units : mem'[addrTemp + k] = mem[addrTemp + k]
    BY <1>3, <2>2, TempStays
  <2>5. \A k \in Units : mem'[PageAddr(p2) + k] = mem'[PageAddr(p1) + k]
    <3>1. CASE p1 = p2
      BY <3>1
    <3>2. CASE p1 # p2
      BY <3>2, <1>3, <2>2, <2>3
    <3>3. QED
      BY <3>1, <3>2
  <2>6. SameIn(PageAddr(call.page2), PageAddr(call.page1))'
    <3>1. PageAddr(call.page2)' = PageAddr(p2) /\ PageAddr(call.page1)' = PageAddr(p1)
      BY <2>1 DEF PageAddr
    <3>2. QED
      BY <2>5, <3>1 DEF SameIn
  <2>7. Exact'
    BY <1>1, <2>1, <2>6 DEF Exact
  <2>8. SameIn(addrTemp, PageAddr(p2))
    BY <1>6 DEF Exact
  <2>9. ASSUME NEW r \in Ram PROVE FrameAt(r)' = FrameAt(r)
    <3>1. FrameAt(r) = PageIn(PageAddr(r))
      BY <1>6 DEF FrameAt, SavedFrame
    <3>2. CASE r = p2
      <4>1. FrameAt(r)' = PageIn(addrTemp)'
        BY <2>1, <3>2 DEF FrameAt, SavedFrame
      <4>2. PageIn(addrTemp)' = PageIn(PageAddr(r))
        BY <2>4, <2>8, <3>2 DEF PageIn, SameIn
      <4>3. QED
        BY <3>1, <4>1, <4>2
    <3>3. CASE r # p2
      <4>1. FrameAt(r)' = PageIn(PageAddr(r))'
        BY <2>1, <3>3 DEF FrameAt, SavedFrame
      <4>2. PageIn(PageAddr(r))' = PageIn(PageAddr(r))
        BY <2>3, <3>3 DEF PageIn
      <4>3. QED
        BY <3>1, <4>1, <4>2
    <3>4. QED
      BY <3>2, <3>3
  <2>10. ASSUME NEW d PROVE DiskAt(d)' = DiskAt(d)
    BY <1>1, <1>6, <2>1 DEF DiskAt, Saved, Running, PageOf, ZeroPage
  <2>11. QED
    BY <2>7, <2>9, <2>10 DEF Stutters
<1>7. CASE call.at = "to page1" /\ mem' = Copied(PageAddr(p1), addrTemp) /\ Goto("entries")
  <2>1. call'.at = "entries"
    BY <1>1, <1>7, Goes
  <2>2. /\ \A k \in Units : mem'[PageAddr(p1) + k] = mem[addrTemp + k]
        /\ \A a \in Address : a \notin PageAddr(p1)..(PageAddr(p1) + PageSize - 1) =>
              mem'[a] = mem[a]
    BY <1>4, <1>7, PageCopied
  <2>3. \A r \in Ram \ {p1} : \A k \in Units :
           mem'[PageAddr(r) + k] = mem[PageAddr(r) + k]
    BY <1>3, <2>2, OtherFrames
  <2>4. Exact'
    BY <1>1, <2>1 DEF Exact
  <2>5. SameIn(PageAddr(p2), PageAddr(p1))
    BY <1>7 DEF Exact
  <2>6. ASSUME NEW r \in Ram
        PROVE  FrameAt(r)' = IF r = p1 THEN FrameAt(p2)
                             ELSE IF r = p2 THEN FrameAt(p1) ELSE FrameAt(r)
    <3>1. FrameAt(r)' = [k \in Units |-> mem'[PageAddr(r) + k]]
      BY <2>1 DEF FrameAt, SavedFrame, PageIn
    <3>2. CASE r = p1
      <4>1. FrameAt(p2) = PageIn(addrTemp)
        BY <1>7 DEF FrameAt, SavedFrame
      <4>2. QED
        BY <2>2, <3>1, <3>2, <4>1 DEF PageIn
    <3>3. CASE r # p1 /\ r = p2
      <4>1. FrameAt(p1) = PageIn(PageAddr(p1))
        BY <1>7, <3>3 DEF FrameAt, SavedFrame
      <4>2. QED
        BY <2>3, <2>5, <3>1, <3>3, <4>1 DEF PageIn, SameIn
    <3>4. CASE r # p1 /\ r # p2
      <4>1. FrameAt(r) = PageIn(PageAddr(r))
        BY <1>7, <3>4 DEF FrameAt, SavedFrame
      <4>2. QED
        BY <2>3, <3>1, <3>4, <4>1 DEF PageIn
    <3>5. QED
      BY <3>2, <3>3, <3>4
  <2>7. ram' = [ram EXCEPT ![p1] = ram[p2], ![p2] = ram[p1]]
    <3> HIDE DEF p1, p2
    <3>1. QED
      BY <1>3, <2>6 DEF ram
  <2>8. ASSUME NEW d PROVE DiskAt(d)' = DiskAt(d)
    BY <1>1, <1>7, <2>1 DEF DiskAt, Saved, Running, PageOf, ZeroPage
  <2>9. disk' = disk
    BY <2>8 DEF disk
  <2>10. QED
    BY <1>3, <2>4, <2>7, <2>9
<1>8. QED
  BY <1>5, <1>6, <1>7 DEF copyPages, At

(* What a step that does not end the process may do to the pages. *)
PagesMove ==
    \/ ram' = ram /\ disk' = disk
    \/ \E r \in 0..(RamPages - 1), d \in 0..(DiskPages - 1) :
          /\ ram' = [ram EXCEPT ![r] = disk[d]]
          /\ disk' = [disk EXCEPT ![d] = ram[r]]
    \/ /\ disk' = disk
       /\ \E r, q \in 0..(RamPages - 1) :
             ram' = [ram EXCEPT ![r] = ram[q], ![q] = ram[r]]

LEMMA RunningExact ==
    ASSUME Running, IInv, Driven, Drift = 0, Drift' = 0, Exact, Next
    PROVE  Exact' /\ PagesMove
<1>1. ASSUME Exact' /\ Stutters PROVE Exact' /\ PagesMove
  BY <1>1, StutteringStep DEF PagesMove
<1>3. CASE fileCreate
  BY <1>1, <1>3, fileCreateExact
<1>4. CASE \E rec \in 0..(RamPages - segSwap), dist \in 0..(DiskPages - segSwap) :
              swap(rec, dist)
  <2>1. UNCHANGED <<mem, file, length>> /\ call.at = "idle" /\ call'.at = "reset"
    BY <1>4 DEF swap, At, content
  <2>2. QED
    BY <1>1, <2>1, GoingExact
<1>5. CASE findSwap
  <2>1. UNCHANGED <<mem, file, length>> /\ call.at = "idle" /\ call'.at = "amount"
    BY <1>5 DEF findSwap, At, content, IInv, TypeOK
  <2>2. QED
    BY <1>1, <2>1, GoingExact
<1>6. ASSUME NEW p, call.at = "idle", Seek(p, "idle") PROVE Exact' /\ PagesMove
  <2>1. CASE Exit
    BY <2>1 DEF Exit, Running
  <2>2. CASE pos' = p /\ Goto("idle") /\ UNCHANGED <<content, proc>>
    <3>1. UNCHANGED <<mem, file, length>> /\ call'.at = "idle"
      BY <2>2, Goes DEF content, IInv, Places
    <3>2. QED
      BY <1>1, <1>6, <3>1, GoingExact
  <2>3. QED
    BY <1>6, <2>1, <2>2 DEF Seek
<1>7. CASE \E dist \in 0..FileEnd : moveCurABS(dist)
  BY <1>6, <1>7 DEF moveCurABS, At
<1>8. CASE resetABS
  BY <1>6, <1>8 DEF resetABS, At
<1>9. CASE \E page1, page2 \in 0..(RamPages - 1) : swap_in_memory(page1, page2)
  <2>1. UNCHANGED <<mem, file, length>> /\ call.at = "idle" /\ call'.at = "to temp"
    <3>1. PICK page1, page2 \in 0..(RamPages - 1) : swap_in_memory(page1, page2)
      BY <1>9
    <3>2. QED
      BY <3>1 DEF swap_in_memory, At, content
  <2>2. QED
    BY <1>1, <2>1, GoingExact
<1>10. CASE resetFilePointer
  BY <1>1, <1>10, resetFilePointerExact
<1>11. CASE moveCur
  BY <1>1, <1>11, moveCurExact
<1>12. CASE readPage
  BY <1>1, <1>12, readPageExact
<1>13. CASE readBack
  BY <1>1, <1>13, readBackExact
<1>14. CASE writePage
  BY <1>1, <1>14, writePageExact
<1>15. CASE writeBack
  BY <1>1, <1>15, writeBackExact
<1>16. CASE memcpy
  BY <1>16, memcpyExchanges DEF PagesMove
<1>17. CASE movePage
  BY <1>1, <1>17, movePageExact
<1>18. CASE readAmount
  BY <1>1, <1>18, readAmountExact
<1>19. CASE copyPages
  BY <1>1, <1>19, copyPagesExact DEF PagesMove
<1>20. CASE exchangeEntry
  BY <1>1, <1>20, exchangeEntryExact
<1>21. QED
  BY <1>3, <1>4, <1>5, <1>7, <1>8, <1>9, <1>10, <1>11, <1>12, <1>13, <1>14, <1>15, <1>16,
     <1>17, <1>18, <1>19, <1>20
  DEF Next, Step

(* A step of a swap that has not failed keeps the transfers exact, and is  *)
(* one of SegmentSwap or none.                                             *)
LEMMA NextExact ==
    ASSUME IInv, Driven, Drift = 0, Drift' = 0, Exact, [Next]_vars
    PROVE  Exact' /\ [Abstract!Next]_(Abstract!vars)
<1>1. CASE UNCHANGED vars
  <2>1. Exact'
    BY <1>1 DEF vars, Exact, Dist, Rec, TempHolds, FileHolds, SameIn
  <2>2. Stutters
    BY <1>1 DEF vars, Stutters, FrameAt, SavedFrame, DiskAt, Saved, PageIn, PageOf, ZeroPage
  <2>3. ram' = ram /\ disk' = disk /\ proc' = proc
    BY <1>1, <2>2, StutteringStep DEF vars
  <2>4. QED
    BY <2>1, <2>3 DEF Abstract!vars, ram, disk, FrameAt, DiskAt
<1>2. CASE Next /\ proc' = "running"
  <2>1. Running
    BY <1>2, NextRuns DEF Running
  <2>2. Exact' /\ PagesMove
    BY <1>2, <2>1, RunningExact
  <2>3. QED
    BY <2>1, <2>2
    DEF PagesMove, Running, Abstract!Next, Abstract!Exchange, Abstract!ExchangeInMemory,
        Abstract!vars, ram, disk, FrameAt, DiskAt
<1>3. CASE Next /\ proc' # "running"
  <2>1. Exact' /\ Ends
    BY <1>3, EndExact
  <2>2. proc = "running" /\ proc' = "exited"
    BY <1>3, NextRuns
  <2>3. QED
    BY <2>1, <2>2
    DEF Ends, Abstract!Next, Abstract!Stop, ram, disk, FrameAt, DiskAt
<1>4. QED
  BY <1>1, <1>2, <1>3

(* What holds in every state: the next swap is exact again.                *)
ExactUnlessFailed == Drift = 0 => Exact

LEMMA StepExact ==
    ASSUME IInv, IInv', Driven, ExactUnlessFailed, [Next]_vars
    PROVE  /\ ExactUnlessFailed'
           /\ (errors' = 0 /\ errors = 0) \/ (Drift = 0 /\ Drift' = 0)
                 => [Abstract!Next]_(Abstract!vars)
<1>1. Driven' /\ (Drift' = 0 => Drift = 0 \/ call'.at = "idle")
  BY NextDrives DEF DrivenOn
<1>2. /\ errors = 0 => Drift = 0
      /\ errors' = 0 => Drift' = 0
  BY <1>1 DEF Driven
<1>3. CASE Drift' = 0 /\ Drift = 0
  BY <1>3, NextExact DEF ExactUnlessFailed
<1>4. CASE Drift' = 0 /\ Drift # 0
  <2>1. call'.at = "idle"
    BY <1>1, <1>4
  <2>2. Exact'
    BY <2>1 DEF Exact
  <2>3. QED
    BY <1>2, <1>4, <2>2 DEF ExactUnlessFailed
<1>5. CASE Drift' # 0
  BY <1>2, <1>5 DEF ExactUnlessFailed
<1>6. QED
  BY <1>3, <1>4, <1>5

LEMMA InitExact == Init => ExactUnlessFailed /\ Abstract!Init
<1> SUFFICES ASSUME Init PROVE ExactUnlessFailed /\ Abstract!Init
  OBVIOUS
<1>1. Exact
  BY DEF Init, Exact
<1>2. TypeOK
  BY InitHolds DEF IInv
<1>3. ASSUME NEW r \in 0..(RamPages - 1)
      PROVE  PageIn(PageAddr(r)) \in [0..(PageSize - 1) -> Unit]
  BY <1>2, FrameUnits DEF TypeOK, PageIn
<1>4. Abstract!Init
  BY <1>3 DEF Abstract!Init, Init, SavedFrame
<1>5. QED
  BY <1>1, <1>4 DEF ExactUnlessFailed

(* Whatever failed before, a swap in which no read and no write of a page  *)
(* fails exchanges the pages of its two segments, swap_in_memory exchanges *)
(* two frames, and nothing else changes a page (malloc.c:222-284,          *)
(* 387-391).                                                               *)
THEOREM OnlyFailedSwapsDiffer == Spec => FailureSpoilsOneSwap
<1>1. Init => ExactUnlessFailed /\ Abstract!Init
  BY InitExact
<1>2. IInv /\ IInv' /\ Driven /\ ExactUnlessFailed /\ [Next]_vars
        => /\ ExactUnlessFailed'
           /\ [(errors' = 0 /\ errors = 0) \/ (Drift = 0 /\ Drift' = 0)
                  => Abstract!Next]_(Abstract!vars)
  BY StepExact
<1>3. QED
  BY <1>1, <1>2, Invariance, OffsetIsDriven, PTL DEF Spec, FailureSpoilsOneSwap

(* While no transfer fails, however short they are and whether or not the  *)
(* file got its length, swap and swap_in_memory exchange pages and change  *)
(* nothing else, and wherever lseek ends the process, one page of the file *)
(* is lost at most (malloc.c:157-220, 262-284, 387-391).                   *)
THEOREM TransfersExchange ==
    ASSUME MaxErrors = 0
    PROVE  Spec => SwapIsExchange
<1>1. IInv /\ Driven => Drift = 0
  BY DEF IInv, TypeOK, Driven
<1>2. /\ Drift = 0 /\ (Drift = 0)'
      /\ [(errors' = 0 /\ errors = 0) \/ (Drift = 0 /\ Drift' = 0)
             => Abstract!Next]_(Abstract!vars)
      => [Abstract!Next]_(Abstract!vars)
  OBVIOUS
<1>3. QED
  BY <1>1, <1>2, OnlyFailedSwapsDiffer, Invariance, OffsetIsDriven, PTL
  DEF FailureSpoilsOneSwap, SwapIsExchange, Abstract!Spec

-----------------------------------------------------------------------------
(* What a step may change. *)

NearStep ==
    /\ \A a \in Address \ MemWritten : mem'[a] = mem[a]
    /\ call.at # "start" =>
          /\ length <= length'
          /\ \A o \in 0..(length' - 1) \ FileWritten : o < length /\ file'[o] = file[o]

LEMMA SameIsNear ==
    ASSUME IInv, UNCHANGED <<mem, file, length>>
    PROVE  NearStep
<1>1. length \in Nat
  BY DEF IInv, TypeOK
<1>2. QED
  BY <1>1 DEF NearStep

(* read fills a part of the temporary page, and as much below it as reads  *)
(* have failed.                                                            *)
LEMMA FetchIsNear ==
    ASSUME IInv, NEW asked \in Nat, asked <= PageSize - call.off,
           NEW n \in Results(asked, Ahead), Fetch(addrTemp, n), UNCHANGED <<file, length>>
    PROVE  NearStep
<1>1. /\ TypeOK /\ call.off \in (-errors)..PageSize /\ errors \in Nat /\ length \in Nat
      /\ PageSize \in Nat
  BY Counts, SizeAssumption DEF IInv, TypeOK
<1>2. n \in Int /\ n <= asked
  BY <1>1, AheadIsCount, Returned
<1>3. call.off..(call.off + n - 1) \subseteq (-errors)..(PageSize - 1)
  BY <1>1, <1>2
<1>4. \A a \in Address : a \notin call.off..(call.off + n - 1) => mem'[a] = mem[a]
  BY <1>1, Fetches
<1>5. \A a \in Address \ MemWritten : mem'[a] = mem[a]
  BY <1>3, <1>4 DEF MemWritten
<1>6. QED
  BY <1>1, <1>5 DEF NearStep

LEMMA readsAreNear ==
    ASSUME IInv, readPage \/ readAmount
    PROVE  NearStep
<1>1. /\ TypeOK /\ call.off \in Int /\ PageSize \in Nat
      /\ BlockSize \in Nat /\ BlockSize < PageSize
  BY Counts, SizeAssumption DEF IInv
<1>2. CASE readPage
  <2>1. PICK n \in Results(Remaining(call.off, PageSize), Ahead) : Fetch(addrTemp, n)
    BY <1>2 DEF readPage
  <2>2. call.off < PageSize /\ UNCHANGED <<file, length>>
    BY <1>2 DEF readPage, At, IInv, Advanced
  <2>3. /\ Remaining(call.off, PageSize) \in Nat
        /\ Remaining(call.off, PageSize) <= PageSize - call.off
    BY <1>1, <2>2 DEF Remaining
  <2>4. QED
    BY <2>1, <2>2, <2>3, FetchIsNear
<1>3. CASE readAmount
  <2>1. PICK n \in Results(Remaining(call.off, BlockSize), Ahead) : Fetch(addrTemp, n)
    BY <1>3 DEF readAmount
  <2>2. call.off <= BlockSize /\ UNCHANGED <<file, length>>
    BY <1>3 DEF readAmount, At, IInv, Advanced
  <2>3. /\ Remaining(call.off, BlockSize) \in Nat
        /\ Remaining(call.off, BlockSize) <= PageSize - call.off
    BY <1>1, <2>2 DEF Remaining
  <2>4. QED
    BY <2>1, <2>2, <2>3, FetchIsNear
<1>4. QED
  BY <1>2, <1>3

(* write starts past the start of its page and ends no further behind it   *)
(* than the offset has drifted.                                            *)
LEMMA writePageIsNear ==
    ASSUME IInv, Driven, writePage
    PROVE  NearStep
<1> DEFINE asked == Remaining(call.off, PageSize)
<1>1. PICK n \in Results(asked, asked) : Store(PageAddr(Rec), n)
  BY DEF writePage, Rec
<1>2. /\ TypeOK /\ call.at = "write" /\ UNCHANGED mem
      /\ call.off < PageSize /\ call.off \in Int /\ PageSize \in Nat
      /\ pos \in Nat /\ errors \in Nat /\ length \in Nat
  BY Counts, SizeAssumption DEF writePage, At, IInv, Advanced
<1>3. asked \in Nat /\ asked = PageSize - call.off
  BY <1>2 DEF Remaining
<1> HIDE DEF asked
<1>4. n = -1 \/ n \in 0..(PageSize - call.off)
  BY <1>2, <1>3, Returned
<1>5. /\ Rec \in Nat /\ Rec < RamPages
      /\ FilePage(Dist) \in Nat /\ FilePage(Dist) + PageSize <= FileEnd /\ FileEnd \in Nat
  BY <1>2, SwapPlace DEF Swapping
<1>6. /\ length' = IF pos + n > length THEN pos + n ELSE length
      /\ \A o \in 0..(length' - 1) :
            file'[o] = IF o \in pos..(pos + n - 1)
                       THEN mem[PageAddr(Rec) + call.off + o - pos]
                       ELSE IF o < length THEN file[o] ELSE Zero
  BY <1>1, <1>2, <1>4, <1>5, Stores
<1>7. /\ FilePage(Dist) <= pos /\ FileEnd < length
      /\ pos - (FilePage(Dist) + call.off) <= errors
  <2>1. Drift = pos - (FilePage(Dist) + call.off)
    BY <1>2 DEF Drift, Dist
  <2>2. FilePage(Dist) <= pos /\ FileEnd < length /\ Drift \in 0..errors
    BY <1>2 DEF Driven, IInv, EmptyFileKeepsPages
  <2>3. QED
    BY <1>2, <2>1, <2>2
<1>8. FileWritten = FilePage(Dist)..(FilePage(Dist) + PageSize - 1 + errors)
  BY <1>2 DEF FileWritten, PageUnits, Dist
<1>9. ASSUME NEW o, o \in 0..(length' - 1), o \notin FileWritten
      PROVE  o < length /\ file'[o] = file[o]
  <2>1. length' \in Nat /\ o \in Nat /\ o < length'
    <3>1. length' \in Nat
      BY <1>2, <1>4, <1>6
    <3>2. o \in 0..(length' - 1)
      BY <1>9
    <3>3. \A l \in Nat : o \in 0..(l - 1) => o \in Nat /\ o < l
      OBVIOUS
    <3>4. QED
      BY <3>1, <3>2, <3>3
  <2>2. o \notin pos..(pos + n - 1)
    <3>1. FilePage(Dist) \in Nat /\ FilePage(Dist) <= pos
          /\ pos <= FilePage(Dist) + call.off + errors
      BY <1>2, <1>5, <1>7
    <3>2. ~ (FilePage(Dist) <= o /\ o <= FilePage(Dist) + PageSize - 1 + errors)
      <4>1. o \notin FilePage(Dist)..(FilePage(Dist) + PageSize - 1 + errors)
        BY <1>8, <1>9
      <4>2. QED
        BY <1>2, <1>5, <2>1, <4>1
    <3>3. QED
      BY <1>2, <1>4, <2>1, <3>1, <3>2
  <2>3. o < length
    <3>1. CASE pos + n > length
      <4>1. o < pos + n /\ ~ (pos <= o)
        BY <1>2, <1>4, <1>6, <2>1, <2>2, <3>1
      <4>2. pos < length \/ o < length
        BY <1>2, <1>5, <1>7, <4>1, <2>1, <1>9, <1>8
      <4>3. QED
        BY <4>1, <4>2, <1>2, <2>1
    <3>2. QED
      BY <1>2, <1>4, <1>6, <2>1, <3>1
  <2>4. QED
    BY <1>6, <1>9, <2>2, <2>3
<1>10. length <= length'
  BY <1>2, <1>4, <1>6
<1>11. QED
  BY <1>2, <1>9, <1>10 DEF NearStep

(* memcpy changes one page. *)
LEMMA CopyIsNear ==
    ASSUME IInv, UNCHANGED <<file, length>>, NEW to \in Pages, NEW from \in Pages,
           mem' = Copied(to, from), PageUnits(to, 0) \subseteq MemWritten
    PROVE  NearStep
<1>1. \A a \in Address : a \notin to..(to + PageSize - 1) => mem'[a] = mem[a]
  BY PageCopied
<1>2. PageUnits(to, 0) = to..(to + PageSize - 1)
  <2>1. to \in Int /\ PageSize \in Nat
    <3>1. \A r \in 0..(RamPages - 1) : PageAddr(r) \in Int
      BY Frames, SizeAssumption
    <3>2. QED
      BY <3>1, SizeAssumption DEF Pages, addrTemp
  <2>2. QED
    BY <2>1 DEF PageUnits
<1>3. \A a \in Address \ MemWritten : mem'[a] = mem[a]
  BY <1>1, <1>2
<1>4. length \in Nat
  BY DEF IInv, TypeOK
<1>5. QED
  BY <1>3, <1>4 DEF NearStep

LEMMA memcpyIsNear ==
    ASSUME IInv, memcpy
    PROVE  NearStep
<1>1. /\ call.at = "copy" /\ mem' = Copied(PageAddr(Rec), addrTemp)
      /\ UNCHANGED <<file, length>>
  BY DEF memcpy, At, Rec
<1>2. PageAddr(Rec) \in Pages /\ addrTemp \in Pages
  <2>1. Rec \in 0..(RamPages - 1)
    <3>1. Rec \in Nat /\ Rec < RamPages
      BY <1>1, SwapPlace DEF Swapping
    <3>2. QED
      BY <3>1, SizeAssumption
  <2>2. QED
    BY <2>1 DEF Pages
<1>3. PageUnits(PageAddr(Rec), 0) \subseteq MemWritten
  BY <1>1 DEF MemWritten, Rec
<1>4. QED
  BY <1>1, <1>2, <1>3, CopyIsNear

LEMMA copyPagesIsNear ==
    ASSUME IInv, copyPages
    PROVE  NearStep
<1> DEFINE p1 == PageAddr(call.page1)
<1> DEFINE p2 == PageAddr(call.page2)
<1>1. p1 \in Pages /\ p2 \in Pages /\ addrTemp \in Pages
  <2>1. call.page1 \in 0..(RamPages - 1) /\ call.page2 \in 0..(RamPages - 1)
    BY DEF copyPages, At, IInv, Placed, Exchanging
  <2>2. QED
    BY <2>1 DEF Pages
<1>2. UNCHANGED <<file, length>>
  BY DEF copyPages
<1>3. CASE mem' = Copied(addrTemp, p2)
  <2>1. PageUnits(addrTemp, 0) \subseteq (-errors)..(PageSize - 1)
    <3>1. errors \in Nat /\ PageSize \in Nat
      BY Counts, SizeAssumption DEF IInv
    <3>2. QED
      BY <3>1 DEF PageUnits, addrTemp
  <2>2. PageUnits(addrTemp, 0) \subseteq MemWritten
    BY <2>1 DEF MemWritten
  <2>3. QED
    BY <1>1, <1>2, <1>3, <2>2, CopyIsNear
<1>4. CASE call.at = "to page2" /\ mem' = Copied(p2, p1)
  <2>1. PageUnits(p2, 0) \subseteq MemWritten
    BY <1>4 DEF MemWritten
  <2>2. QED
    BY <1>1, <1>2, <1>4, <2>1, CopyIsNear
<1>5. CASE call.at = "to page1" /\ mem' = Copied(p1, addrTemp)
  <2>1. PageUnits(p1, 0) \subseteq MemWritten
    BY <1>5 DEF MemWritten
  <2>2. QED
    BY <1>1, <1>2, <1>5, <2>1, CopyIsNear
<1>6. QED
  BY <1>3, <1>4, <1>5 DEF copyPages, At

(* The file is created before any call. *)
LEMMA fileCreateIsNear ==
    ASSUME fileCreate
    PROVE  NearStep
BY DEF fileCreate, At, Exit, content, NearStep

LEMMA StepIsNear ==
    ASSUME IInv, Driven, Next
    PROVE  NearStep
<1>1. ASSUME NEW p, NEW a, Seek(p, a) PROVE NearStep
  BY <1>1, SameIsNear DEF Seek, Exit, content
<1>2. ASSUME \/ \E rec, dist : swap(rec, dist)
             \/ \E page1, page2 : swap_in_memory(page1, page2)
             \/ findSwap \/ exchangeEntry \/ readBack \/ movePage
      PROVE  NearStep
  <2>1. UNCHANGED <<mem, file, length>>
    BY <1>2 DEF swap, swap_in_memory, findSwap, exchangeEntry, readBack, movePage,
                Exit, content
  <2>2. QED
    BY <2>1, SameIsNear
<1>3. ASSUME \/ resetFilePointer \/ moveCur \/ writeBack \/ resetABS
             \/ \E dist : moveCurABS(dist)
      PROVE  NearStep
  BY <1>1, <1>3 DEF resetFilePointer, moveCur, writeBack, resetABS, moveCurABS
<1>4. CASE \E page1, page2 \in 0..(RamPages - 1) : swap_in_memory(page1, page2)
  BY <1>2, <1>4
<1>5. CASE \E rec \in 0..(RamPages - segSwap), dist \in 0..(DiskPages - segSwap) :
              swap(rec, dist)
  BY <1>2, <1>5
<1>6. QED
  BY <1>2, <1>3, <1>4, <1>5, readsAreNear, writePageIsNear, memcpyIsNear,
     copyPagesIsNear, fileCreateIsNear
  DEF Next, Step

(* However many transfers fail, what a step changes lies in the page that  *)
(* it works on, or as far beyond it as transfers have failed               *)
(* (malloc.c:222-284, 383-391).                                            *)
THEOREM FailuresStayNear == Spec => TransfersStayNear
<1>1. IInv /\ Driven /\ [Next]_vars
        => [/\ \A a \in Address \ MemWritten : mem'[a] = mem[a]
            /\ call.at # "start" =>
                  /\ length <= length'
                  /\ \A o \in 0..(length' - 1) \ FileWritten :
                        o < length /\ file'[o] = file[o]]_vars
  BY StepIsNear DEF NearStep
<1>2. QED
  BY <1>1, Invariance, OffsetIsDriven, PTL DEF Spec, TransfersStayNear

-----------------------------------------------------------------------------
(* The steps that are left of a swap.                                      *)

(* The rounds that follow round i. *)
RoundsAfter(i) == (segSwap - 1 - i) * RoundSteps

LEMMA RoundCount ==
    ASSUME NEW i \in Nat, i < segSwap
    PROVE  /\ RoundSteps \in Nat /\ RoundSteps = 2 * PageSize + 4
           /\ RoundsAfter(i) \in Nat
           /\ i + 1 < segSwap => RoundsAfter(i) = RoundsAfter(i + 1) + RoundSteps
           /\ i + 1 >= segSwap => RoundsAfter(i) = 0
<1>1. RoundSteps \in Nat /\ RoundSteps = 2 * PageSize + 4
  BY SizeAssumption DEF RoundSteps
<1>2. \A k \in Nat : k * RoundSteps \in Nat /\ (k + 1) * RoundSteps = k * RoundSteps + RoundSteps
  BY <1>1
<1>3. segSwap - 1 - i \in Nat
  BY SizeAssumption
<1>4. ASSUME i + 1 < segSwap
      PROVE  RoundsAfter(i) = RoundsAfter(i + 1) + RoundSteps
  <2>1. segSwap - 1 - (i + 1) \in Nat /\ segSwap - 1 - i = (segSwap - 1 - (i + 1)) + 1
    BY <1>4, SizeAssumption
  <2>2. QED
    BY <1>2, <2>1 DEF RoundsAfter
<1>5. ASSUME i + 1 >= segSwap
      PROVE  RoundsAfter(i) = 0
  <2>1. segSwap - 1 - i = 0 /\ 0 * RoundSteps = 0
    BY <1>1, <1>5, SizeAssumption
  <2>2. QED
    BY <2>1 DEF RoundsAfter
<1>6. RoundsAfter(i) \in Nat
  BY <1>2, <1>3 DEF RoundsAfter
<1>7. QED
  BY <1>1, <1>4, <1>5, <1>6

(* SwapLeft as a function of the place, the offset and the round. *)
Units(a, off) == IF a \in {"read", "write"} THEN PageSize - off ELSE 0
InRound(a, off) ==
    CASE a \in {"reset", "skip"} -> RoundSteps + (IF a = "reset" THEN 2 ELSE 1)
      [] a \in {"read", "readBack"} -> Units(a, off) + PageSize + 4
      [] a \in {"write", "writeBack"} -> Units(a, off) + 3
      [] a = "copy" -> 2
      [] a = "next" -> 1
      [] OTHER -> 0
Left(a, off, i) == IF InRound(a, off) = 0 THEN 0 ELSE InRound(a, off) + RoundsAfter(i)

LEMMA LeftOfSwap ==
    /\ SwapLeft = Left(call.at, call.off, call.i)
    /\ SwapLeft' = Left(call'.at, call'.off, call'.i)
BY DEF SwapLeft, RoundLeft, UnitsLeft, Left, InRound, Units, RoundsAfter, RoundSteps

LEMMA LeftAtPlaces ==
    ASSUME NEW off \in Int, off <= PageSize, NEW i \in Nat, i < segSwap
    PROVE  /\ Left("reset", off, i) = RoundSteps + 2 + RoundsAfter(i)
           /\ Left("skip", off, i) = RoundSteps + 1 + RoundsAfter(i)
           /\ Left("read", off, i) = PageSize - off + PageSize + 4 + RoundsAfter(i)
           /\ Left("readBack", off, i) = PageSize + 4 + RoundsAfter(i)
           /\ Left("write", off, i) = PageSize - off + 3 + RoundsAfter(i)
           /\ Left("writeBack", off, i) = 3 + RoundsAfter(i)
           /\ Left("copy", off, i) = 2 + RoundsAfter(i)
           /\ Left("next", off, i) = 1 + RoundsAfter(i)
<1>1. /\ RoundSteps \in Nat /\ PageSize \in Nat /\ RoundsAfter(i) \in Nat
  BY RoundCount, SizeAssumption
<1>2. /\ InRound("reset", off) = RoundSteps + 2 /\ InRound("skip", off) = RoundSteps + 1
  BY DEF InRound
<1>3. /\ InRound("read", off) = PageSize - off + PageSize + 4
      /\ InRound("write", off) = PageSize - off + 3
  BY DEF InRound, Units
<1>4. /\ InRound("readBack", off) = PageSize + 4 /\ InRound("writeBack", off) = 3
      /\ InRound("copy", off) = 2 /\ InRound("next", off) = 1
  BY <1>1 DEF InRound, Units
<1>5. QED
  BY <1>1, <1>2, <1>3, <1>4 DEF Left

LEMMA NothingLeft == \A a, off, i : a \notin Swapping => Left(a, off, i) = 0
BY DEF Left, InRound, Swapping

(* What SwapRunsDown says of a step. *)
Nearer ==
    SwapLeft # 0 =>
        \/ SwapLeft' \in 0..(SwapLeft - 1)
        \/ proc' = "exited"
        \/ errors' = errors + 1 /\ SwapLeft' = SwapLeft + 1
        \/ call.at = "read" /\ Ahead = 0 /\ (length = 0 \/ Drift # 0)

(* Where a swap is, as far as the count goes. *)
LEMMA SwapCounts ==
    ASSUME IInv, call.at \in Swapping
    PROVE  /\ TypeOK /\ call.i \in Nat /\ call.i < segSwap
           /\ call.off \in Int /\ call.off <= PageSize /\ PageSize \in Nat \ {0}
BY Counts, SizeAssumption DEF IInv, Placed

(* Transfers. *)
LEMMA MovingRunsDown ==
    ASSUME IInv, NEW b \in {"readBack", "writeBack"},
           \/ call.at = "read" /\ b = "readBack"
           \/ call.at = "write" /\ b = "writeBack",
           NEW n, (n = -1 /\ errors < MaxErrors) \/ n \in 1..(PageSize - call.off),
           Moved(n, b)
    PROVE  Nearer
<1>1. /\ TypeOK /\ call.i \in Nat /\ call.i < segSwap
      /\ call.off \in Int /\ call.off < PageSize /\ PageSize \in Nat \ {0}
      /\ n \in Int
  BY SwapCounts DEF Swapping, IInv, Advanced
<1>2. (n = -1 /\ errors < MaxErrors) \/ n \in 0..(PageSize - call.off)
  BY <1>1
<1>3. /\ call'.off = call.off + n /\ call'.i = call.i
      /\ call'.at = IF call.off + n < PageSize THEN call.at ELSE b
  BY <1>1, <1>2, Moves DEF Places
<1>4. errors' = IF n = -1 THEN errors + 1 ELSE errors
  BY DEF Moved
<1>5. call'.off \in Int /\ call'.off <= PageSize
  BY <1>1, <1>3
<1> DEFINE rest == RoundsAfter(call.i)
<1>6. rest \in Nat
  BY <1>1, RoundCount
<1>7. CASE call.at = "read" /\ b = "readBack"
  <2>1. SwapLeft = PageSize - call.off + PageSize + 4 + rest
    BY <1>1, <1>7, LeftOfSwap, LeftAtPlaces
  <2>2. SwapLeft' = IF call.off + n < PageSize THEN PageSize - call'.off + PageSize + 4 + rest
                    ELSE PageSize + 4 + rest
    BY <1>1, <1>3, <1>5, <1>7, LeftOfSwap, LeftAtPlaces
  <2> HIDE DEF rest
  <2>3. CASE n = -1
    BY <1>1, <1>3, <1>4, <1>6, <2>1, <2>2, <2>3 DEF Nearer
  <2>4. CASE n \in 1..(PageSize - call.off)
    BY <1>1, <1>3, <1>6, <2>1, <2>2, <2>4 DEF Nearer
  <2>5. QED
    BY <2>3, <2>4
<1>8. CASE call.at = "write" /\ b = "writeBack"
  <2>1. SwapLeft = PageSize - call.off + 3 + rest
    BY <1>1, <1>8, LeftOfSwap, LeftAtPlaces
  <2>2. SwapLeft' = IF call.off + n < PageSize THEN PageSize - call'.off + 3 + rest
                    ELSE 3 + rest
    BY <1>1, <1>3, <1>5, <1>8, LeftOfSwap, LeftAtPlaces
  <2> HIDE DEF rest
  <2>3. CASE n = -1
    BY <1>1, <1>3, <1>4, <1>6, <2>1, <2>2, <2>3 DEF Nearer
  <2>4. CASE n \in 1..(PageSize - call.off)
    BY <1>1, <1>3, <1>6, <2>1, <2>2, <2>4 DEF Nearer
  <2>5. QED
    BY <2>3, <2>4
<1>9. QED
  BY <1>7, <1>8

(* A transfer moves something when there is something to move. *)
LEMMA ReturnsSome ==
    ASSUME TypeOK, NEW asked \in Nat \ {0}, NEW there \in Nat \ {0},
           NEW n \in Results(asked, there)
    PROVE  (n = -1 /\ errors < MaxErrors) \/ n \in 1..asked
<1>1. Least(asked, there) \in Nat \ {0} /\ Least(asked, there) <= asked
  BY DEF Least
<1> HIDE DEF Least
<1>2. QED
  BY <1>1 DEF Results

LEMMA readPageRunsDown ==
    ASSUME IInv, Driven, readPage
    PROVE  Nearer
<1>1. PICK n \in Results(Remaining(call.off, PageSize), Ahead) : Moved(n, "readBack")
  BY DEF readPage
<1>2. /\ TypeOK /\ call.at = "read" /\ call.off < PageSize
      /\ call.off \in Int /\ PageSize \in Nat
  BY Counts, SizeAssumption DEF readPage, At, IInv, Advanced
<1>3. /\ Remaining(call.off, PageSize) \in Nat \ {0}
      /\ Remaining(call.off, PageSize) = PageSize - call.off
  BY <1>2 DEF Remaining
<1>4. CASE Ahead = 0
  <2>1. length = 0 \/ Drift # 0
    <3>1. SUFFICES ASSUME length # 0, Drift = 0 PROVE FALSE
      OBVIOUS
    <3>2. /\ pos \in Nat /\ length \in Nat
          /\ FilePage(Dist) \in Nat /\ FilePage(Dist) + PageSize <= FileEnd
          /\ FileEnd \in Nat
      BY <1>2, SwapPlace, Counts DEF Swapping
    <3>3. pos - (FilePage(Dist) + call.off) = 0
      BY <1>2, <3>1 DEF Drift, Dist
    <3>4. FileEnd < length
      BY <3>1 DEF Driven
    <3>5. pos < length
      BY <1>2, <3>2, <3>3, <3>4
    <3>6. QED
      BY <1>4, <3>2, <3>5 DEF Ahead
  <2>2. QED
    BY <1>2, <1>4, <2>1 DEF Nearer
<1>5. CASE Ahead # 0
  <2>1. Ahead \in Nat \ {0}
    BY <1>2, <1>5, AheadIsCount
  <2>2. (n = -1 /\ errors < MaxErrors) \/ n \in 1..(PageSize - call.off)
    BY <1>1, <1>2, <1>3, <2>1, ReturnsSome
  <2>3. QED
    BY <1>1, <1>2, <2>2, MovingRunsDown
<1>6. QED
  BY <1>4, <1>5

LEMMA writePageRunsDown ==
    ASSUME IInv, writePage
    PROVE  Nearer
<1> DEFINE asked == Remaining(call.off, PageSize)
<1>1. PICK n \in Results(asked, asked) : Moved(n, "writeBack")
  BY DEF writePage
<1>2. /\ TypeOK /\ call.at = "write" /\ call.off < PageSize
      /\ call.off \in Int /\ PageSize \in Nat
  BY Counts, SizeAssumption DEF writePage, At, IInv, Advanced
<1>3. asked \in Nat \ {0} /\ asked = PageSize - call.off
  BY <1>2 DEF Remaining
<1> HIDE DEF asked
<1>4. (n = -1 /\ errors < MaxErrors) \/ n \in 1..(PageSize - call.off)
  BY <1>1, <1>2, <1>3, ReturnsSome
<1>5. QED
  BY <1>1, <1>2, <1>4, MovingRunsDown

(* The steps between the transfers of a round. *)
LEMMA PlaceRunsDown ==
    ASSUME IInv, NEW a, NEW b, call.at = a, call'.at = b,
           <<a, b>> \in {<<"reset", "skip">>, <<"skip", "read">>, <<"readBack", "write">>,
                         <<"writeBack", "copy">>, <<"copy", "next">>},
           call'.i = call.i, call'.off \in {0, call.off}, a = "skip" => call.off = 0
    PROVE  Nearer
<1>1. /\ call.i \in Nat /\ call.i < segSwap
      /\ call.off \in Int /\ call.off <= PageSize /\ PageSize \in Nat \ {0}
      /\ call'.off \in Int /\ call'.off <= PageSize
  BY SwapCounts DEF Swapping
<1> DEFINE rest == RoundsAfter(call.i)
<1>2. rest \in Nat /\ RoundSteps \in Nat /\ RoundSteps = 2 * PageSize + 4
  BY <1>1, RoundCount
<1>3. SwapLeft = Left(a, call.off, call.i) /\ SwapLeft' = Left(b, call'.off, call.i)
  BY LeftOfSwap
<1>4. CASE a = "reset" /\ b = "skip"
  <2>1. SwapLeft = RoundSteps + 2 + rest /\ SwapLeft' = RoundSteps + 1 + rest
    BY <1>1, <1>3, <1>4, LeftAtPlaces
  <2>2. QED
    BY <1>2, <2>1 DEF Nearer
<1>5. CASE a = "skip" /\ b = "read"
  <2>1. SwapLeft = RoundSteps + 1 + rest
    BY <1>1, <1>3, <1>5, LeftAtPlaces
  <2>2. SwapLeft' = PageSize - 0 + PageSize + 4 + rest
    BY <1>1, <1>3, <1>5, LeftAtPlaces
  <2>3. QED
    BY <1>1, <1>2, <2>1, <2>2 DEF Nearer
<1>6. CASE a = "readBack" /\ b = "write"
  <2>1. SwapLeft = PageSize + 4 + rest /\ SwapLeft' = PageSize - call'.off + 3 + rest
    BY <1>1, <1>3, <1>6, LeftAtPlaces
  <2>2. call'.off \in 0..PageSize
    BY <1>1, <1>6 DEF IInv, Advanced
  <2>3. QED
    BY <1>1, <1>2, <2>1, <2>2 DEF Nearer
<1>7. CASE a = "writeBack" /\ b = "copy"
  <2>1. SwapLeft = 3 + rest /\ SwapLeft' = 2 + rest
    BY <1>1, <1>3, <1>7, LeftAtPlaces
  <2>2. QED
    BY <1>2, <2>1 DEF Nearer
<1>8. CASE a = "copy" /\ b = "next"
  <2>1. SwapLeft = 2 + rest /\ SwapLeft' = 1 + rest
    BY <1>1, <1>3, <1>8, LeftAtPlaces
  <2>2. QED
    BY <1>2, <2>1 DEF Nearer
<1>9. QED
  BY <1>4, <1>5, <1>6, <1>7, <1>8

LEMMA SeekRunsDown ==
    ASSUME IInv, NEW p, NEW a, NEW b \in Places, call.at = a, Seek(p, b),
           <<a, b>> \in {<<"reset", "skip">>, <<"skip", "read">>, <<"writeBack", "copy">>}
    PROVE  Nearer
<1>1. CASE Exit
  BY <1>1 DEF Exit, Nearer
<1>2. CASE ~Exit
  <2>1. TypeOK /\ Goto(b) /\ errors' = errors
    BY <1>2 DEF Seek, content, IInv
  <2>2. call'.at = b /\ call'.off = call.off /\ call'.i = call.i
    BY <2>1, Goes
  <2>3. a = "skip" => call.off = 0
    BY DEF IInv, Advanced
  <2>4. QED
    BY <2>2, <2>3, PlaceRunsDown
<1>3. QED
  BY <1>1, <1>2

LEMMA movePageRunsDown ==
    ASSUME IInv, movePage
    PROVE  Nearer
<1>1. CASE Exit
  BY <1>1 DEF Exit, Nearer
<1>2. CASE ~Exit
  <2>1. /\ call.i \in Nat /\ call.i < segSwap /\ call.at = "next"
        /\ call.off \in Int /\ call.off <= PageSize /\ PageSize \in Nat \ {0}
    BY SwapCounts DEF movePage, At, Swapping
  <2>2. /\ call'.i = call.i + 1 /\ call'.off = 0
        /\ call'.at = IF call.i + 1 < segSwap THEN "read" ELSE "idle"
    BY <1>2 DEF movePage, IInv, TypeOK
  <2>3. SwapLeft = 1 + RoundsAfter(call.i)
    BY <2>1, LeftOfSwap, LeftAtPlaces
  <2>4. CASE call.i + 1 < segSwap
    <3>1. SwapLeft' = PageSize - 0 + PageSize + 4 + RoundsAfter(call.i + 1)
      BY <2>1, <2>2, <2>4, LeftOfSwap, LeftAtPlaces
    <3>2. /\ RoundsAfter(call.i) = RoundsAfter(call.i + 1) + RoundSteps
          /\ RoundSteps = 2 * PageSize + 4 /\ RoundsAfter(call.i + 1) \in Nat
      BY <2>1, <2>4, RoundCount
    <3>3. QED
      BY <2>1, <2>3, <3>1, <3>2 DEF Nearer
  <2>5. CASE ~(call.i + 1 < segSwap)
    <3>1. SwapLeft' = 0
      BY <2>2, <2>5, LeftOfSwap, NothingLeft DEF Swapping
    <3>2. RoundsAfter(call.i) \in Nat
      BY <2>1, RoundCount
    <3>3. QED
      BY <2>3, <3>1, <3>2 DEF Nearer
  <2>6. QED
    BY <2>4, <2>5
<1>3. QED
  BY <1>1, <1>2

(* Steps outside a swap. *)
LEMMA OthersRunDown ==
    ASSUME \/ fileCreate \/ findSwap \/ readAmount \/ resetABS \/ copyPages \/ exchangeEntry
           \/ \E rec, dist : swap(rec, dist)
           \/ \E dist : moveCurABS(dist)
           \/ \E page1, page2 : swap_in_memory(page1, page2)
    PROVE  Nearer
<1>1. call.at \notin Swapping
  <2>1. CASE copyPages
    BY <2>1 DEF copyPages, At, Swapping
  <2>2. CASE ~copyPages
    BY <2>2 DEF fileCreate, findSwap, readAmount, resetABS, exchangeEntry, swap,
                moveCurABS, swap_in_memory, At, Swapping
  <2>3. QED
    BY <2>1, <2>2
<1>2. SwapLeft = 0
  BY <1>1, LeftOfSwap, NothingLeft
<1>3. QED
  BY <1>2 DEF Nearer

LEMMA StepRunsDown ==
    ASSUME IInv, Driven, Next
    PROVE  Nearer
<1>1. CASE resetFilePointer \/ moveCur \/ writeBack
  BY <1>1, SeekRunsDown DEF resetFilePointer, moveCur, writeBack, At, Places
<1>2. CASE readBack
  <2>1. CASE Exit
    BY <2>1 DEF Exit, Nearer
  <2>2. CASE ~Exit
    <3>1. /\ call.at = "readBack" /\ call'.at = "write" /\ call'.off = 0
          /\ call'.i = call.i
      BY <1>2, <2>2 DEF readBack, At, IInv, TypeOK
    <3>2. QED
      BY <3>1, PlaceRunsDown
  <2>3. QED
    BY <2>1, <2>2
<1>3. CASE memcpy
  <2>1. TypeOK /\ call.at = "copy" /\ Goto("next") /\ errors' = errors
    BY <1>3 DEF memcpy, At, IInv
  <2>2. call'.at = "next" /\ call'.off = call.off /\ call'.i = call.i
    BY <2>1, Goes DEF Places
  <2>3. QED
    BY <2>1, <2>2, PlaceRunsDown
<1>4. QED
  BY <1>1, <1>2, <1>3, readPageRunsDown, writePageRunsDown, movePageRunsDown,
     OthersRunDown
  DEF Next, Step

(* Every step of a swap that neither fails nor reads behind the end of the *)
(* file brings its end nearer, and the end is at most a round of           *)
(* 2 PageSize + 4 steps for each page away when the swap has been called,  *)
(* with two steps to find the first page (malloc.c:222-284).               *)
THEOREM SwapsRunOut ==
    Spec => /\ SwapRunsDown
            /\ [](call.at = "reset" => SwapLeft = segSwap * (2 * PageSize + 4) + 2)
<1>1. ASSUME IInv, Driven, [Next]_vars
      PROVE  [SwapLeft # 0 =>
                 \/ SwapLeft' \in 0..(SwapLeft - 1)
                 \/ proc' = "exited"
                 \/ errors' = errors + 1 /\ SwapLeft' = SwapLeft + 1
                 \/ call.at = "read" /\ Ahead = 0 /\ (length = 0 \/ Drift # 0)]_vars
  BY <1>1, StepRunsDown DEF Nearer
<1>2. IInv /\ call.at = "reset" => SwapLeft = segSwap * (2 * PageSize + 4) + 2
  <2>1. SUFFICES ASSUME IInv, call.at = "reset"
                 PROVE  SwapLeft = segSwap * (2 * PageSize + 4) + 2
    OBVIOUS
  <2>2. /\ call.i \in Nat /\ call.i < segSwap /\ call.i = 0
        /\ call.off \in Int /\ call.off <= PageSize /\ PageSize \in Nat
    BY <2>1, SwapCounts DEF Swapping, IInv, Advanced
  <2>3. SwapLeft = RoundSteps + 2 + (segSwap - 1) * RoundSteps
    <3>1. segSwap - 1 - 0 = segSwap - 1
      BY SizeAssumption
    <3>2. QED
      BY <2>1, <2>2, <3>1, LeftOfSwap, LeftAtPlaces DEF RoundsAfter
  <2>4. \A k \in Nat : (k + 1) * RoundSteps = k * RoundSteps + RoundSteps /\ k * RoundSteps \in Nat
    BY <2>2 DEF RoundSteps
  <2>5. /\ segSwap - 1 \in Nat /\ (segSwap - 1) + 1 = segSwap
        /\ RoundSteps \in Nat /\ RoundSteps = 2 * PageSize + 4
    BY <2>2, SizeAssumption DEF RoundSteps
  <2>6. segSwap * RoundSteps = (segSwap - 1) * RoundSteps + RoundSteps
        /\ (segSwap - 1) * RoundSteps \in Nat
    BY <2>4, <2>5
  <2>7. QED
    BY <2>3, <2>5, <2>6
<1>3. QED
  BY <1>1, <1>2, Invariance, OffsetIsDriven, PTL DEF Spec, SwapRunsDown

=============================================================================
