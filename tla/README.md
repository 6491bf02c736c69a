# A TLA+ verification of My-Pthread

My-Pthread is a course project in C: a user-level thread library with a
multi-level queue scheduler (`src/my_pthread.c`), an earlier version of its
queue library (`src/my_pthread_t_2.h`), and a paged memory manager with a swap
file (`src/malloc.c`, `src/Swapfilemaker.c`). This directory models it in TLA+,
checks the models with TLC and proves the main results with TLAPS.

## Inventory

| Component | State it keeps | Operations | Interacts with |
|---|---|---|---|
| Linked queues (`my_pthread.c:13-260`, `my_pthread_t_2.h`) | the `next` and `parent` fields of thread blocks; five queue heads | `peak`, `runT`, `enqueue`, `dequeueSpecific`, `seek`, `move2Q`, `dequeue`, `rePrioritize`, `emptyQueue` | the scheduler, by direct calls |
| Scheduler (`my_pthread.c:262-397`) | `Master`: queues, sizes, `current`, a context | `dispatcher`, `mt_handler` | threads, through `swapcontext`; would be the SIGALRM handler |
| Thread functions (`my_pthread.c:482-677`) | thread blocks, the counter `tid`, `ctx_main` | `create`, `yield`, `exit`, `join`, `yieldD` | scheduler and queues |
| Mutexes (`my_pthread.c:620-748`) | `flag`, `guard` and the list that starts at `MutexT` | `init`, `lock`, `unlock`, `destroy` | `yieldD`, and `Master->current` |
| `exec_thread` and the timer (`my_pthread.c:404-455`) | the interval timer | run a thread function under a 25/37/50 ms quantum | reached only in the context of a created thread |
| Memory manager (`malloc.c:328-852`) | the page table, the protection of the pages | `myallocate`, `findSpace`, `give_allocation`, `protectMem` | the swap file; `Master->tid` |
| Swap file (`malloc.c:100-326`, `387-407`, and the same functions in `Swapfilemaker.c`) | the file, its cursor, one page of temporary memory, the frames in the page table | `fileCreate`, `readPage`, `writePage`, `swap`, `findFreeSwap`, the cursor functions, `swap_in_memory` | the kernel, by short or failing reads and writes; `Master->tid`, which has the address of the temporary page |
| Demo (`malloc.c:858-932`) | three contexts | `main`, `func1`, `func2` | the memory manager |

What is hard here: contexts that are saved in one call and resumed in another
(a context outlives the frame it was saved in); removal from a queue by thread
id, where heads, Master and threads draw ids from the same small numbers;
counters that go up by one field of a block and down by another; memory that is
read before it is written; system calls that fail after part of a call has been
done; reads and writes that return less than was asked for.

## What makes each component correct

* Queues: no walk runs forever, no block is in two places, removal takes out
  exactly the blocks asked for, first in is first out.
* Scheduler and threads: what is in the queues is what was created; `current`
  is a thread that runs; calls that should return do.
* Mutexes: a registered mutex stays in the list; a lock that returns 0 holds
  the mutex; an unlocked mutex can be locked.
* Swap file: a swap exchanges one segment of memory with one of the file, and
  nothing else, however the kernel cuts the transfers and wherever the file
  offset was left; a process that ends in a swap loses one page of the file at
  most; an exchange of two frames exchanges nothing else and ends; an empty file
  costs no page its content.
* Memory manager: the page table lists every page once, in order, and no page
  overlaps the tables; no request is answered without memory.

## Modules

Modules that hold the model; `[]` marks those that proofs exist for.

| Module | Models | State and actions, and what they are in the code |
|---|---|---|
| `LinkedQueues` `[]` | the queue functions | no state: `runT`, `seek`, `Link` (`enqueue`), `Unlink` (`dequeueSpecific`) are operators on the function of all `next` fields. A walk is a least closed set (`Chain`), so it is defined for cyclic links too and nothing is RECURSIVE |
| `MyPthread` `[]` | `my_pthread.c`: thread library, scheduler and mutexes as a client calls them | `mem` is the heap of the library: the blocks field by field, the size counters, `start`, `current`, Master's context (`unset`, `entry`, `stale`) and whether the process runs. `lock` holds the mutexes and their list, `last` the latest call and its code. One action per library function; each is the whole call, composed of `mt_handler`, `dispatcher`, `move2Q`, `dequeueSpecific`, ... in the order of the code. A call that does not return ends the process (`crashed`, `exited`, `hung`, `in thread`) |
| `QueueLibrary` `[]` | `my_pthread_t_2.h` and a client of it | `next`, `parent`, `t_priority`, `freed`; actions `enqueueNew`, `moveThread`, `setRemoval`, `dequeue`. Creation and moves are those of `my_pthread_2.c`; marking (`setRemoval`) and sweeping are a client that uses the priority `dequeue` looks for, which no program of the repository does. `rePrioritize`, which nothing calls, is an operator, and `AgingSparesSecond` is about what it would do to every non-empty queue in every reachable state; on an empty one it uses pointers that were never set |
| `FifoQueues` `[]` | what a queue promises: lines of threads | `behind` (who is in line at a queue, and who is behind each thread), `marked`, `gone`; `Join`, `Move`, `Mark`, `Sweep`. A line is stated by what is behind what and not as a sequence, so that its order can be proved |
| `QueueRefinement` `[]` | that `QueueLibrary` implements `FifoQueues` | what is behind a thread is what a walk from its block visits |
| `SwapFile` `[]` | `malloc.c:137-326` down to the system calls, and `swap_in_memory` (`387-407`) | `mem`, `file` and its `length`, the offset `pos`, the frame of each entry of the page table `page`, and `call`, the call under way with its loop counters. One action per `lseek`, round of a `read` or `write` loop, `memcpy`, and round of the loop over the page table; a transfer moves any number of units from one up to what is asked for, or fails. `moveCurABS` and `resetABS` may leave the offset anywhere between calls |
| `SegmentSwap` | what `swap` and `swap_in_memory` promise: pages are exchanged and nothing else changes; a process that ends in the middle has overwritten one page of the file | `ram`, `disk`, `stopped`; `Exchange`, `ExchangeInMemory`, `Stop` |
| `MemoryManager` `[]` | `malloc.c:328-932` | `table`, `first` (`page_table`), `tid` (`Master->tid`), `initial`, `memory` (the pointer whose memory is protected), `call` (where `myallocate` is), and `at`, `ctx`, `got`, `uc_link` of the three contexts. A step is the code between two points where the process may end |

`MCMyPthread`, `MCQueueLibrary`, `MCSwapFile` and `MCMemoryManager` give the
constants values for TLC. `LinkedQueuesProofs`, `MyPthreadProofs`,
`QueueLibraryProofs`, `FifoQueuesProofs`, `QueueRefinementProofs`, `SwapFileProofs`
and `MemoryManagerProofs` hold the theorems.

Definitions whose name has a suffix after an underscore (`Swept_Lower`,
`add_page_OneTooFar`, ...) are faulty variants of the definition below them,
which nothing uses: they are there to show that a property fails when the code
has that fault.

`MyPthread` and `QueueLibrary` both build on `LinkedQueues`, with one function
of `next` pointers each. The swap file and the memory manager do not call each
other in this code, except for the creation of the file, so there is no module
that composes them. What they share is an address, that of the temporary page
and of `Master->tid`: `MasterHoldsLastPage` says what a transfer leaves there.

## Abstractions

* Thread bodies are absent from `MyPthread`, and this is not an assumption:
  `OnlyMasterRuns` is checked and proved, so the process never gets to the
  context of a created thread. The client is the program thread; it may make
  any call at any time.
* Master's context is one of three values. It is new until it is entered. A
  switch away from Master saves a context inside a call; when that call has
  returned the context is stale, and to resume it runs on in a frame that was
  left. The two ends observed of that, a crash and an exit, are both allowed.
* Memory that the code reads before it writes it is a choice: `Leftover` is
  what `malloc` may leave in the Master block, `StackMutex` are mutexes whose
  fields may hold anything. The `current` that a block leaves is NULL or a
  pointer that cannot be followed; one that still leads to readable memory is
  not modelled, and what is said of recycled blocks is not said of it.
* Unsigned counters wrap at `UIntMax + 1`.
* In `SwapFile` a page has two or three units and addresses count from the
  temporary page, so the byte below it, which a failing read makes the loop
  write to, is an address too. What a process that has ended leaves is the file:
  the page that was in the temporary page only is gone.
* `fileCreate` writes one byte at the end of the file and looks at no result:
  the file is as long as it should be or empty. A write beyond the end fills the
  gap with zeros.
* `Swapfilemaker.c` holds the functions of `malloc.c:137-326` line for line;
  both are modelled by the same definitions.
* In `MemoryManager` the table, `Master->tid` and the pages share one array, as
  in the code, and addresses in it are computed as the code computes them.
  A failing `memalign` is a null pointer that the code does not notice.

## Runs

No run bounds the length of a behaviour: every state space is finite as it is.

| Run | What it shows | Instance, and why it is enough |
|---|---|---|
| `library` | types, no dispatch of a thread, well-formed queues, the exact High queue, and its counter with the drift that `my_pthread_exit` leaves, mutexes that stay listed, a lock that returned is an acquisition, exit is final; which calls ever return: one create at most, no yield, no join that waits | 2 threads, 2 mutexes, `UIntMax` 7. The second create never returns, so no third thread can be; the third mutex adds nothing to a walk that hangs at the second. Master's memory is zero or one of several recycled blocks: a tid equal to that of a thread or of a queue, a `joinid` that is not -1, wild pointers. System calls may fail |
| `second_create`, `yield`, `mutex_list`, `unlock`, `cleaner` | five promises of comments and tests that the code breaks, see below | the first four on fresh memory and with no failing system call |
| `queues` | types, well-formed queues, right parent fields, what aging would do, and that the links are lines of threads | 2 queues and 3 threads: a thread in the middle of a queue, at its end, and alone in another |
| `swap` | types; swap and `swap_in_memory` are exchanges of pages whatever the length of each transfer, wherever the offset was left and whatever failed in an earlier swap; an `lseek` that ends the process loses one page of the file at most; on an empty file no swap gets past its first read; what a transfer leaves in `Master->tid`; that no step writes outside the page it works on and as many units beyond it as transfers failed; that every step of a swap brings its end nearer, and that it ends | One read or write may fail (`MaxErrors` 1), in the first or the second page of a swap or in a search, so that a spoilt swap, the swap after it, and what both leave alone are all reached; the file may stay empty. 2 units a page, 2 page frames, 3 pages in the file, `segSwap` 2 (the code's macro is 1, which is the first half of such a swap), a distance of 0 or 1: a short first transfer, and a page of the file that the swap must not touch. All units of memory differ, so that every misplaced unit is seen. Two frames, or the same one twice. A read behind the end of a file that has its length, one of the exceptions of `SwapRunsDown`, takes two failures in one swap: that case is in the theorem only |
| `failed_read` | one failing read and the loop that takes -1 for a length | `MaxErrors` 1 |
| `search` | a search reads for ever | no failures |
| `exchange` | `swap_in_memory` of the front page and another one never returns | no failures, 3 page frames |
| `memory` | types, the page table at every step, `Master->tid`, that a failed `memalign` ends the process before any request is answered, the order in which the contexts end, that every step lowers a count of the steps left, and that the program ends | 6 pages, 2 pages for the table, 12 bytes a page, 4 an entry: the entries fill the table to the last byte, as 1920 entries of 32 bytes do 15 pages of 4096. Requests on both sides of both limits. Every system call may fail |

Deadlock is not checked in the runs of `MyPthread`, `SwapFile` and
`MemoryManager`, where the process may end, and is checked in `queues`.

`TypeOK` is more than types in each module: `MyPthread`'s says that no block is
ever moved to the Medium or Low level, `QueueLibrary`'s that only marked blocks
are freed, `SwapFile`'s that no transfer leaves its page and no swap its segment.

### Fairness

`SwapFile` has weak fairness of the steps of a call that are no failures: the
process is scheduled and file I/O returns, so a call that is under way goes on as
long as there is something for it to do. It is not assumed that a program calls
anything, that a read returns a full page, or that a transfer ever fails: a read
that returns 0 for ever is not rescued by an error. `SwapEnds` is stated for a
file that has its length, since on an empty one `read` does return 0 for ever,
and for a swap in which nothing failed.
`MemoryManager` has weak fairness of `Next`: one sequential program, which the
kernel keeps running until it ends. `MyPthread` and `QueueLibrary` have none and
no liveness property: they are libraries that a client may stop calling.

### Where the code does not do what its comments and tests say

| Run | Promise | What the code does |
|---|---|---|
| `second_create` | `main_test` creates two threads and goes on (`my_pthread.c:758-775`) | the second create resumes a context saved in a frame that has returned |
| `yield` | a yield lets another context be scheduled (`my_pthread.c:589-590`) | the handler removes Master from a queue it takes to start at Master; Master has no name, and on fresh memory `strcmp` of a null pointer ends the process (`my_pthread.c:184`) |
| `mutex_list` | the loop finds the end of the list (`my_pthread.c:629`) | it re-reads the first element for ever |
| `unlock` | a mutex is unlocked (`my_pthread.c:710`) | `guard` stays 1, the field that lock tests |
| `cleaner` | the Cleaner queue holds terminated threads (`my_pthread_t.h:123`) | `my_pthread_exit` removes the caller first, and the handler moves the next thread, which is ready |
| `failed_read` | the page is read to the temporary page (`malloc.c:278`) | a failed read moves the page one byte down and the file offset one byte on |
| `search` | the function locates a free page (`malloc.c:286`) | the loop waits for a page where it asks for a block |
| `exchange` | two pages of memory are swapped and their entries in the page table changed (`malloc.c:383`, `393`) | the loop has no step to the next entry (`malloc.c:395`): the entry of the front page changes back and forth for ever |

## Proofs

TLAPS proves the following for every value of the constants that the named
assumptions of the modules allow.

| Module | Theorems |
|---|---|
| `LinkedQueuesProofs` | `enqueue` adds one cell to one walk (`LinkAfter`), the removal takes the given cells and no other (`UnlinkAfter`), both keep the links acyclic and unshared, a removed cell is pointed at by none (`UnlinkRemoves`), what both do to what follows each cell (`LinkBehind`, `UnlinkBehind`) |
| `QueueLibraryProofs` | `Spec => []TypeOK`, `[]QueuesWellFormed`, `[]ParentHoldsThread`, `[]AgingSparesSecond` |
| `FifoQueuesProofs` | of the abstract specification, for queues that are no threads: every queue is a strict linear order (`LinesAreOrdered`), and a thread falls behind another only by going to the end of a line (`NobodyIsOvertaken`) |
| `QueueRefinementProofs` | the refinement `Spec => QueuesAreFifo` (`LinksAreLines`), and so the order of the links of every queue and that no thread is overtaken (`LinksStayOrdered`) |
| `SwapFileProofs` | `Spec => []TypeOK`, `[]EmptyFileKeepsPages`, `[]MasterHoldsLastPage`, with any number of failed transfers; that a failure spoils no swap but its own (`Spec => FailureSpoilsOneSwap`), and with it the refinement `Spec => SwapIsExchange` when no transfer fails; `Spec => TransfersStayNear`: what a step changes is near the page it works on; `Spec => SwapRunsDown`, and that a swap is at most `segSwap (2 PageSize + 4) + 2` steps when it is called |
| `MyPthreadProofs` | `Spec => []TypeOK`, `[]OnlyMasterRuns`, `[]QueuesWellFormed`, `[]HighQueueExact`, and the action properties `LockMeansAcquired`, `ExitIsFinal`, `RegisteredStayListed`, `FewCallsReturn` |
| `MemoryManagerProofs` | `Spec => []TypeOK`, `[]TableExact`, `[]MasterIntact`, `[]NoAnswerWithoutMemory`, `[]MainExitsLast`, and `RunsDown`: every step lowers `StepsLeft`, which starts at `3 NumPages + 31` |

*Assumptions.* `NullAssumption`: NULL is no cell. `NodeAssumption`,
`LibraryAssumption`: heads, Master and threads are different cells.
`PointerAssumption`, `ValueAssumption`: what uninitialised memory may hold.
`DistinctTids`: no two blocks of the test program have the same id; `rand()` is
not seeded, so its first values are known. `LayoutAssumption`: the entries of the
page table fit in its pages and the pages in the array, as they do in `malloc.h`.

*Walks.* `Chain(nx, n)` is the least closed set that holds `n`. What a walk
contains is shown by naming a closed set, and what it does not contain by
showing that a set without it is closed. `Acyclic` says that every non-empty set
of cells has one whose successor is outside, which gives each proof the last
cell with a property. No induction is used.

*`QueueLibrary`.* Well-formed links and right parent fields are not inductive:
`enqueue` of a block that some queue still leads to would join two queues. The
invariant `IInv` adds that a block that is not created yet, or freed, is led to
by no cell (`Loose`), that no cell leads to a head, and that heads are never
marked. `LinkOne` and `UnlinkSome` say what the two operations do to all queues
at once: the queue in question changes by the blocks in question, the others
have no cell in common with it (`QueuesApart`) and do not change. The links after
`rePrioritize` are the links before it seen through the exchange of two names
(`AgedLinks`: swap, next, swap), which is why everything is kept, except when the
two cells are neighbours and each gets itself for a successor.

*The lines.* `FifoQueues` has no sequences: what is behind a thread is a set, and
on the links that set is `After(next, n)`. `LinkBehind` and `UnlinkBehind` give
this set for every cell after an `enqueue` and after a removal, and with them
creation, move, marking and sweep are `Join`, `Move`, `Mark` and `Sweep`. One more invariant is needed,
`Unmarked`: a block that is in no queue yet is not marked. That the sets are
lines is proved of `FifoQueues` itself, and `LinksStayOrdered` carries it back to
the links by instantiating `FifoQueuesProofs`. Its hypothesis, that no queue is a
thread, is `LibraryAssumption`.

*`MyPthread`.* The library passes through four stages, which `IInv` describes
exactly: `Unset` (no context for the handler yet), `Entry` (Master is in its own
queue and its context is new), `Up` (one thread was created, Master is current
and its context stale) and `Gone` (`my_pthread_exit` returned). From `Up` every
further create ends the process, which is why the stages are so few; the
invariant has to carry ids, names, counters and parent fields because each
decides in some stage whether the next removal finds its block. A yield, and so
a lock of a taken mutex, crashes in every stage (`YieldDies`, `YieldDDies`). `FewCallsReturn` is what a client sees of this.

*`SwapFile`.* The addresses are products of the page size, which the provers
cannot multiply out: `Multiples`, `Frames` and `FilePages` state once that pages
lie in order and apart. That types hold is not inductive. A read that fails takes
one off `off` and leaves the file offset, so `IInv` carries that `off` never gets
ahead of `pos` (`Advanced`): without it the step back at the end of a page could
leave the file. It also carries that every page a call works on exists
(`Placed`) and what `Master->tid` was fetched from (`Fetched`). The refinement needs
`Exact` besides: the offset is that of the page under way plus `off`, what was
read so far is in the temporary page, and what was written so far is in the
file. Each action then keeps the pages as `SegmentSwap` sees them, except for the
last `memcpy` of a page (`memcpyExchanges`) and the last of the three copies in
memory (`copyPagesExact`), which are its steps, and for the end of the process
(`EndExact`): after `writePage` the file holds the frame, and the page that the
file held is lost.

A failed transfer takes `off` back by one and not the offset of the file.
`Drift` is the distance that results; it is 0 when a swap begins, never falls
within a swap, and is never more than the number of failures (`OffsetIsDriven`).
`Exact` is proved of every swap whose drift is still 0, whatever failed before, so
a failure spoils the swap it happens in and no other: the next swap finds its
place from the start of the file. When nothing fails the drift is always 0, and
`SwapIsExchange`, the whole refinement, follows. That some swap is spoilt is what `failed_read` shows.
The bound on the drift also bounds the damage: `TransfersStayNear` says that a
step of a spoilt swap changes no page frame but its own, at most as many units
below the temporary page as there were failures, and nothing in the file but its
page and as many units behind it.

`SwapLeft` counts the rounds that are left, a round being at most a read and a
write for each unit of the page and four more steps. Every step of a swap lowers
it, except a transfer that fails, which adds one, and a read that finds nothing:
this happens on an empty file, and on the last pages after a failure in the same
swap, when the drift has taken the offset beyond the end of the file.

*`MemoryManager`.* The page table is exact for the entries from an index `Low`
on, which falls as the table is built; `EntriesFit` is the arithmetic that keeps
the last entry out of `Master->tid`. The order of the contexts needs four facts
about who can be where (`OrderInv`): for `func1` to end before `func2` it would
have to be resumed by `func2`'s swap, and by then `func1` has not started.
`StepsLeft` adds up what each of the three functions has left to do: a call of
`myallocate`, counted as if it had to build the table, and three steps after it.
No switch of contexts brings back work that was done.

## What is model-checked only

Liveness: `SwapEnds` and `ProgramEnds`. What weak fairness
brings about needs ENABLED, which the provers at hand cannot reason about. The
part of termination that does not need it is proved: `SwapRunsDown` and
`RunsDown` say that no step but those named keeps a swap or the program from
getting nearer to its end; what TLC adds is that there is always a step to take.
Every other property of a passing run is a theorem.

## What is not modelled

* `exec_thread`, the interval timer and preemption: proved unreachable
  (`OnlyMasterRuns`).
* `get_time` reads the clock and is never called. `dequeuePriority` and
  `createThread` of `my_pthread.c` are the same code as `dequeue` and
  `createThread` of `my_pthread_t_2.h`, where they are modelled.
* The page fault handler is never installed: `sa_mem` is filled in, but
  `sigaction` is not called. `mydeallocate` and `shalloc` are empty.
* `emptyQueue`, which frees the blocks of a queue, is never called.
* `rePrioritize` of an empty queue uses pointers it has not set.
* A `Master->current` left over in recycled memory that can still be read.
* `memAllignPages` and `give_new_page` are stubs: their result is -1, so no
  request is ever served. Nothing is stated about that.
* The code of a search after its first block, with the division by
  `pageCounter`, is never reached: `search` shows that the first block never
  ends.
* The branch of `protectMem` for a table that holds pages of the thread is
  modelled by how it ends, a refused `mprotect` or a walk off the table, and not
  step by step: the entries keep TID -1 (`TypeOK`), so no state takes it.
* Large parts of `malloc.c` and `my_pthread.c` are comments, among them the body
  that `memAllignPages` once had.
* The printing functions only read the queues. That they end is
  `QueuesWellFormed`.

## Plan

1. The queues, the thread library, the swap file and the memory manager with
   their properties: done.
2. `swap_in_memory`, the empty file and the cursor functions, with the hazards
   they have; the proofs about `SwapFile`, its refinement of
   `SegmentSwap`, and aging: done.
3. The refinement of `FifoQueues` as a theorem, without sequences; what failed
   transfers do to a swap and to the rest; the counts of steps that make a swap
   and the program end; which calls of the thread library return: done.
4. Left: the composition of `SwapFile` with `MemoryManager`, when some code of
   the repository calls both.
