------------------------------ MODULE MyPthread ------------------------------
(***************************************************************************)
(* The user-level thread library of my_pthread.c, as a client sees it: one *)
(* program thread that calls the library's functions in any order.         *)
(*                                                                         *)
(* A call is one step.  It either returns, with the code in `last', or it  *)
(* never does: the process crashed (a null or wild pointer, a null name    *)
(* given to strcmp), called exit, hangs in a loop, or left for the context *)
(* of a created thread.  The last case has no further steps here, and none *)
(* are needed: OnlyMasterRuns says that it cannot happen.                  *)
(*                                                                         *)
(* Memory is modelled where the code reads it before writing it: fields of *)
(* the Master block that malloc returned as they were, and the fields of   *)
(* the client's mutexes.  What malloc leaves in Master->current is NULL or *)
(* a pointer that cannot be followed; a pointer to other memory of the     *)
(* process, which the handler would take for a thread, is not modelled.    *)
(***************************************************************************)
EXTENDS LinkedQueues, Integers, FiniteSets

CONSTANTS
    Thread,      \* blocks that my_pthread_create can allocate
    Mutex,       \* the client's mutexes
    WILD,        \* a pointer value that is no address of the program
    StackMutex,  \* the mutexes whose memory may hold anything at first
    Leftover,    \* what malloc may leave in the Master block and in MutexT, of
                 \* which current and list are NULL or cannot be followed
    StartExec,   \* start_exec, which no code assigns
    UIntMax,     \* the largest unsigned int
    SysCallsFail \* whether malloc, getcontext and swapcontext may fail

HeadTid == [High |-> 5, Medium |-> 4, Low |-> 3, Wait |-> 1, Cleaner |-> 2]
Head == {"High", "Medium", "Low", "Wait", "Cleaner"}

ASSUME NodeAssumption ==
    /\ Node = Head \cup {"Master"} \cup Thread
    /\ Thread \cap (Head \cup {"Master"}) = {}
ASSUME PointerAssumption ==
    /\ WILD \notin Node \cup Mutex \cup {NULL, "MutexT"}
    /\ NULL \notin Mutex \cup {"MutexT", "junk"} /\ "MutexT" \notin Mutex
ASSUME ValueAssumption ==
    /\ StackMutex \subseteq Mutex
    /\ Leftover \subseteq [tid : Int, joinid : Int, name : {NULL, "junk"},
                           current : {NULL, WILD}, list : {NULL, WILD}]
    /\ StartExec \in Int /\ UIntMax \in Nat \ {0, 1, 2} /\ SysCallsFail \in BOOLEAN

VARIABLES
    mem,    \* the thread blocks, the queues and the Master block
    lock,   \* the client's mutexes and the head of the mutex list
    last    \* the latest call: its function, argument and return code

vars == <<mem, lock, last>>

HighTimeout == 25000
removal == 26
None == "none"

-----------------------------------------------------------------------------
(* Queues with their counters. *)

(* high_size, medium_size and low_size are indexed by the queue number     *)
(* that makes enqueue count them up; d is 1 or -1, and they are unsigned.  *)
Count(size, q, d) ==
    [l \in DOMAIN size |->
        IF l = q THEN (size[l] + d) % (UIntMax + 1) ELSE size[l]]

CountedName == [mth_high |-> 3, mth_medium |-> 4, mth_low |-> 5]

End(m, how) == [m EXCEPT !.proc = how]
Running(m) == m.proc = "running"

(* A faulty enqueue: the parent of a block is the block before it. *)
enqueue_ParentTail(m, head, t) ==
    [m EXCEPT !.next = Link(@, head, t),
              !.parent[t] = runT(m.next, head),
              !.size = Count(@, m.queue[t], 1)]

enqueue(m, head, t) ==
    [m EXCEPT !.next = Link(@, head, t),
              !.parent[t] = head,
              !.size = Count(@, m.queue[t], 1)]

SameTid(m, t) == {n \in Node : m.tid[n] = m.tid[t]}

(* The counters go down by name where enqueue counts up by queue. *)
dequeueSpecific(m, head, t) ==
    IF m.name[t] = NULL \/ head \in SameTid(m, t) THEN End(m, "crashed")
    ELSE [m EXCEPT !.next = Unlink(@, head, SameTid(m, t)),
                   !.size = IF m.name[t] \in DOMAIN CountedName
                            THEN Count(@, CountedName[m.name[t]], -1)
                            ELSE @]

move2Q(m, to, from, t) ==
    IF t = NULL THEN m
    ELSE LET d == IF from = NULL THEN m ELSE dequeueSpecific(m, from, t)
         IN  IF Running(d) THEN enqueue(d, to, t) ELSE d

(* A faulty dispatcher: the newest thread first. *)
dispatcher_Newest(m) ==
    IF m.size[3] > 0 THEN runT(m.next, "High") ELSE NULL

dispatcher(m) ==
    IF m.size[3] > 0 THEN peak(m.next, "High")
    ELSE IF m.size[4] > 0 THEN peak(m.next, "Medium")
    ELSE IF m.size[5] > 0 THEN peak(m.next, "Low")
    ELSE NULL

-----------------------------------------------------------------------------
(* The scheduler. *)

(* swapcontext(&Master->t_context, &current->t_context).  The context that *)
(* is saved belongs to a call that returns soon after, so it is stale from *)
(* then on; to switch from Master to Master resumes at once.  Only the     *)
(* first create of a process gets here (EnterMaster), no yield, join, lock *)
(* or exit does.                                                           *)
SwitchToCurrent(m) ==
    [m EXCEPT !.mctx = "stale",
              !.proc = IF m.current = "Master" THEN @ ELSE "in thread"]

(* A faulty Retire: the thread stays current. *)
Retire_KeepsCurrent(m) ==
    LET c == m.current
    IN  move2Q([m EXCEPT !.queue[c] = removal], "Cleaner", "High", peak(m.next, "High"))

(* A terminated thread: whatever is first in the queue of the current      *)
(* thread is moved to the Cleaner queue, and no thread is current.         *)
Retire(m) ==
    LET c == m.current
        h == CASE m.queue[c] = 3 -> "High"
               [] m.queue[c] = 4 -> "Medium"
               [] m.queue[c] = 5 -> "Low"
               [] OTHER -> NULL
        marked == [m EXCEPT !.queue[c] = removal]
    IN  [(IF h = NULL THEN m
          ELSE move2Q(marked, "Cleaner", h, peak(m.next, h)))
         EXCEPT !.current = NULL]

PutBack(m) ==
    [move2Q(m, m.current, m.current, peak(m.next, "High")) EXCEPT !.current = NULL]

(* A ready thread is resumed and then demoted if start_exec is large; the  *)
(* name it had is freed first, which aborts unless it is NULL.             *)
Resume(m) ==
    LET c == m.current
        s == SwitchToCurrent(m)
    IN  IF ~Running(s) \/ StartExec < HighTimeout THEN s
        ELSE IF m.name[c] # NULL THEN End(s, "crashed")
        ELSE move2Q([s EXCEPT !.name[c] = "mth_medium"], "High", s.parent[c], c)

Settle(m) ==
    IF m.current = NULL THEN m
    ELSE IF m.current = WILD THEN End(m, "crashed")
    ELSE CASE m.state[m.current] = "TERMINATED" -> Retire(m)
           [] m.state[m.current] = "YIELDED" -> PutBack(m)
           [] m.state[m.current] = "READY" -> Resume(m)
           [] OTHER -> m

mt_handler(m) ==
    LET s == Settle(m)
        d == dispatcher(s)
    IN  IF ~Running(s) \/ s.current # NULL \/ d = NULL THEN s
        ELSE SwitchToCurrent([s EXCEPT !.current = d])

(* Whether Master->current can be dereferenced. *)
HasCurrent(m) == m.start = 1 /\ m.current \in Node

(* A faulty Yield: the thread stays ready. *)
Yield_StaysReady(m) == IF HasCurrent(m) THEN mt_handler(m) ELSE End(m, "crashed")

Yield(m) ==
    IF ~HasCurrent(m) THEN End(m, "crashed")
    ELSE mt_handler([m EXCEPT !.state[m.current] = "YIELDED"])

(* A faulty yieldD: it returns at once. *)
yieldD_Returns(m) == IF HasCurrent(m) THEN m ELSE End(m, "crashed")

yieldD(m) ==
    IF ~HasCurrent(m) THEN End(m, "crashed")
    ELSE LET c == m.current
             moved == CASE m.queue[c] = 5 -> move2Q(m, "High", "Medium", c)
                        [] m.queue[c] = 4 -> move2Q(m, "Medium", "Low", c)
                        [] OTHER -> m
         IN  IF Running(moved) THEN Yield(moved) ELSE moved

-----------------------------------------------------------------------------
(* The functions a client calls. *)

(* The call leaves memory m; its code is ret unless it did not return. *)
Call(fn, arg, m, ret) ==
    /\ mem' = m
    /\ last' = [fn |-> fn, arg |-> arg, ret |-> IF Running(m) THEN ret ELSE None]

(* The first call of my_pthread_create: the Master block, up to its        *)
(* context, and then the block as the first element of its own queue.      *)
MasterBlock(m) == [m EXCEPT !.start = 1, !.size = [l \in 3..5 |-> 0]]

MasterReady(m) ==
    IF m.start = 1 THEN m
    ELSE LET b == [MasterBlock(m) EXCEPT !.mctx = "entry",
                                         !.state["Master"] = "READY",
                                         !.queue["Master"] = 3]
         IN  enqueue(b, "High", "Master")

(* A faulty NewThread: the queue is taken for level3. *)
NewThread_Level3(m, t) ==
    LET b == [m EXCEPT !.counter = @ + 1, !.tid[t] = m.counter + 1,
                       !.joinid[t] = -1, !.name[t] = "mth_high",
                       !.queue[t] = 5]
    IN  [enqueue(b, "High", t) EXCEPT !.state[t] = "READY"]

NewThread(m, t) ==
    LET b == [m EXCEPT !.counter = @ + 1, !.tid[t] = m.counter + 1,
                       !.joinid[t] = -1, !.name[t] = "mth_high",
                       !.queue[t] = 3]
    IN  [enqueue(b, "High", t) EXCEPT !.state[t] = "READY"]

(* swapcontext(&ctx_main, &Master->t_context): the handler runs when the   *)
(* context is new.  A stale context returns into a frame that was left, a  *)
(* context that getcontext did not fill holds no code address.  If this    *)
(* swapcontext fails, or the one of the handler, the process exits.        *)
EnterMaster(m) ==
    (CASE m.mctx = "entry" -> {mt_handler(m)}
       [] m.mctx = "stale" -> {End(m, "crashed"), End(m, "exited")}
       [] m.mctx = "unset" -> {End(m, "crashed")})
      \cup {x \in {End(m, "exited")} : SysCallsFail}

my_pthread_create ==
    /\ Running(mem)
    /\ UNCHANGED lock
    /\ \/ \E t \in Thread : \E m \in EnterMaster(NewThread(MasterReady(mem), t)) :
            /\ mem.tid[t] = 0
            /\ Call("create", t, m, "0")
       \/ /\ SysCallsFail
          /\ \/ Call("create", NULL, MasterReady(mem), "-1")
             \/ Call("create", NULL, End(mem, "crashed"), None)
             \/ /\ mem.start = 0
                /\ \/ Call("create", NULL, MasterBlock(mem), "-1")
                   \/ Call("create", NULL, End(mem, "exited"), None)

my_pthread_yield ==
    /\ Running(mem)
    /\ Call("yield", NULL, Yield(mem), "0")
    /\ UNCHANGED lock

(* A faulty Exit: the caller is not dequeued. *)
Exit_StaysQueued(m) ==
    LET c == m.current
        w == IF m.joinid[c] # -1 THEN enqueue(m, "Wait", c) ELSE m
    IN  mt_handler([w EXCEPT !.state[c] = "TERMINATED"])

(* The caller is put in the Wait queue too if its joinid is set, before it *)
(* is taken out of the queue its parent field names.                       *)
Exit(m) ==
    LET c == m.current
        w == IF m.joinid[c] # -1 THEN enqueue(m, "Wait", c) ELSE m
        x == [w EXCEPT !.state[c] = "TERMINATED"]
        d == dequeueSpecific(x, x.parent[c], c)
    IN  IF Running(d) THEN mt_handler(d) ELSE d

my_pthread_exit ==
    /\ Running(mem)
    /\ Call("exit", NULL, IF HasCurrent(mem) THEN Exit(mem) ELSE End(mem, "crashed"), "0")
    /\ UNCHANGED lock

(* The thread is passed by value, so its fields are the caller's.          *)
my_pthread_join(tid, joinid, terminated) ==
    /\ Running(mem)
    /\ \/ joinid # -1 /\ Call("join", NULL, mem, "EINVAL")
       \/ joinid = -1 /\ ~HasCurrent(mem) /\ Call("join", NULL, End(mem, "crashed"), None)
       \/ /\ joinid = -1 /\ HasCurrent(mem)
          /\ LET self == mem.joinid[mem.current]
             IN  IF tid = self /\ self # -1 THEN Call("join", NULL, mem, "EDEADLK")
                 ELSE IF terminated THEN Call("join", NULL, mem, "1")
                 ELSE Call("join", NULL, Yield(mem), "1")
    /\ UNCHANGED lock

-----------------------------------------------------------------------------
(* Mutexes. *)

NullMutex(fn) ==
    /\ Running(mem)
    /\ Call(fn, NULL, mem, "EINVAL")
    /\ UNCHANGED lock

Register(x, at) ==
    /\ lock' = [lock EXCEPT !.next[at] = x, !.flag[x] = 0, !.guard[x] = 0]
    /\ Call("init", x, mem, "0")

(* A faulty init: it always registers at the head of the list. *)
my_pthread_mutex_init_AtHead(x) ==
    /\ Running(mem)
    /\ mem.start = 1 /\ lock.next["MutexT"] # WILD
    /\ Register(x, "MutexT")

(* The walk to the end of the list re-reads MutexT->next: it reaches the   *)
(* first mutex and stays there.                                            *)
my_pthread_mutex_init(x) ==
    /\ Running(mem)
    /\ LET first == lock.next["MutexT"]
       IN  \/ /\ mem.start = 0 \/ first = WILD
              /\ Call("init", x, End(mem, "crashed"), None)
              /\ UNCHANGED lock
           \/ mem.start = 1 /\ first = NULL /\ Register(x, "MutexT")
           \/ /\ mem.start = 1 /\ first \in Mutex
              /\ \/ lock.next[first] = NULL /\ Register(x, first)
                 \/ /\ lock.next[first] # NULL
                    /\ Call("init", x, IF x = first THEN mem ELSE End(mem, "hung"), "EINVAL")
                    /\ UNCHANGED lock

my_pthread_mutex_lock(x) ==
    /\ Running(mem)
    /\ \/ /\ lock.guard[x] = 0 /\ HasCurrent(mem)
          /\ lock' = [lock EXCEPT !.guard[x] = 1, !.flag[x] = mem.tid[mem.current]]
          /\ Call("lock", x, mem, "0")
       \/ /\ lock.guard[x] = 0 /\ ~HasCurrent(mem)
          /\ Call("lock", x, End(mem, "crashed"), None)
          /\ UNCHANGED lock
       \/ /\ lock.guard[x] # 0
          /\ Call("lock", x, yieldD(mem), "0")
          /\ UNCHANGED lock

my_pthread_mutex_unlock(x) ==
    /\ Running(mem)
    /\ \/ /\ lock.guard[x] = 1 /\ HasCurrent(mem)
          /\ lock.flag[x] = mem.tid[mem.current]
          /\ lock' = [lock EXCEPT !.flag[x] = 0]
          /\ Call("unlock", x, mem, "0")
       \/ /\ lock.guard[x] = 1 /\ ~HasCurrent(mem)
          /\ Call("unlock", x, End(mem, "crashed"), None)
          /\ UNCHANGED lock
       \/ /\ \/ lock.guard[x] # 1
             \/ HasCurrent(mem) /\ lock.flag[x] # mem.tid[mem.current]
          /\ Call("unlock", x, End(mem, "exited"), None)
          /\ UNCHANGED lock

my_pthread_mutex_destroy(x) ==
    /\ Running(mem)
    /\ lock' = [lock EXCEPT !.guard[x] = 0, !.flag[x] = 0]
    /\ Call("destroy", x, mem, "0")

-----------------------------------------------------------------------------
(* Fresh memory, except what malloc left in the Master block. *)
MemInit(left) ==
    mem = [proc |-> "running", start |-> 0, counter |-> 0, mctx |-> "unset",
           next |-> [n \in Node |-> NULL],
           parent |-> [n \in Node |-> NULL],
           tid |-> [n \in Node |-> IF n \in Head THEN HeadTid[n]
                                   ELSE IF n = "Master" THEN left.tid ELSE 0],
           joinid |-> [n \in Node |-> IF n = "Master" THEN left.joinid ELSE -1],
           name |-> [n \in Node |-> IF n = "Master" THEN left.name ELSE NULL],
           queue |-> [n \in Node |-> 0],
           state |-> [n \in Node |-> "NEW"],
           size |-> [l \in 3..5 |-> 0],
           current |-> left.current]

(* A mutex in static memory is all zeros; on the stack it holds anything,  *)
(* 2 standing for a guard that is neither 0 nor 1.                         *)
LockInit(left, junk) ==
    lock = [next |-> [x \in Mutex \cup {"MutexT"} |->
                         IF x = "MutexT" THEN left.list
                         ELSE IF x \in junk THEN WILD ELSE NULL],
            flag |-> [x \in Mutex |-> 0],
            guard |-> [x \in Mutex |-> IF x \in junk THEN 2 ELSE 0]]

Init ==
    /\ \E left \in Leftover, junk \in SUBSET StackMutex :
          MemInit(left) /\ LockInit(left, junk)
    /\ last = [fn |-> None, arg |-> NULL, ret |-> None]

Next ==
    \/ my_pthread_create
    \/ my_pthread_yield
    \/ my_pthread_exit
    \/ \E tid \in 0..2, joinid \in {-1, 0}, terminated \in BOOLEAN :
          my_pthread_join(tid, joinid, terminated)
    \/ \E fn \in {"init", "lock", "destroy"} : NullMutex(fn)
    \/ \E x \in Mutex : my_pthread_mutex_init(x)
    \/ \E x \in Mutex : my_pthread_mutex_lock(x)
    \/ \E x \in Mutex : my_pthread_mutex_unlock(x)
    \/ \E x \in Mutex : my_pthread_mutex_destroy(x)

Spec == Init /\ [][Next]_vars

-----------------------------------------------------------------------------
(* Properties. *)

Pointers == {NULL, WILD}
Outcomes == {"running", "crashed", "exited", "hung", "in thread"}

Memory ==
    [proc : Outcomes, start : {0, 1}, counter : Nat,
     mctx : {"unset", "entry", "stale"},
     next : Links, parent : [Node -> Head \cup {"Master", NULL}],
     tid : [Node -> Int], joinid : [Node -> Int],
     name : [Node -> {NULL, "junk", "mth_high", "mth_medium"}],
     queue : [Node -> {0, 3, removal}],
     state : [Node -> {"NEW", "READY", "YIELDED", "TERMINATED"}],
     size : [3..5 -> 0..UIntMax],
     current : Node \cup Pointers]

Locks ==
    [next : [Mutex \cup {"MutexT"} -> Mutex \cup Pointers],
     flag : [Mutex -> Int],
     guard : [Mutex -> 0..2]]

(* The types of the variables.  name never holds "mth_low" and queue never *)
(* 4 or 5: no call that returns moves a block to the other levels.         *)
TypeOK == mem \in Memory /\ lock \in Locks

(* No thread that my_pthread_create made is ever dispatched: the only      *)
(* context the handler resumes is Master's own.  So exec_thread, and with  *)
(* it the timer and every preemption, is never reached                     *)
(* (my_pthread.c:269-292, 304-455).                                        *)
OnlyMasterRuns == mem.proc # "in thread" /\ mem.current \notin Thread

(* The five queues never become cyclic, no block is in two queues, and no  *)
(* queue leads into the head of another: every walk of the library ends    *)
(* (my_pthread.c:102-206).                                                 *)
QueuesWellFormed ==
    Running(mem) =>
      /\ Acyclic(mem.next) /\ Unshared(mem.next)
      /\ \A n \in Node : mem.next[n] \notin Head

(* Until my_pthread_exit, the High queue holds exactly the threads created *)
(* so far, after Master itself, and high_size counts them.  The counter    *)
(* goes up by queue number and down by name: after the exit the queue is   *)
(* empty and high_size still counts them all, and Master twice if the exit *)
(* put it in the Wait queue (my_pthread.c:117-144, 180-189, 485-618).      *)
Created == {t \in Thread : mem.tid[t] # 0}

HighQueueExact ==
    Running(mem) =>
      LET M == IF mem.mctx = "unset" THEN {} ELSE {"Master"}
          exited == mem.state["Master"] = "TERMINATED"
          again == IF exited /\ mem.joinid["Master"] # -1 THEN 1 ELSE 0
          high == Cardinality(M \cup Created) + again
      IN  /\ After(mem.next, "High") = IF exited THEN {} ELSE M \cup Created
          /\ mem.size = [l \in 3..5 |-> IF l = 3 THEN high ELSE 0]

(* The mutexes that a walk from MutexT reaches. *)
ListNext == [x \in DOMAIN lock.next |-> IF lock.next[x] = WILD THEN NULL ELSE lock.next[x]]
List == INSTANCE LinkedQueues WITH Node <- Mutex \cup {"MutexT"}
Listed == List!After(ListNext, "MutexT")

(* A mutex whose initialisation returned 0 is in the list of mutexes, and  *)
(* no later call drops it from the list (my_pthread.c:620-644).            *)
RegisteredStayListed ==
    [][/\ Listed \subseteq Listed'
       /\ last'.fn = "init" /\ last'.ret = "0" => last'.arg \in Listed']_vars

(* A call of my_pthread_mutex_lock that returns 0 found the mutex free and *)
(* took it: the branch for a mutex that is taken falls through to the same *)
(* return 0, and never gets there (my_pthread.c:681-704).                  *)
LockMeansAcquired ==
    [][last'.fn = "lock" /\ last'.ret = "0" =>
         lock.guard[last'.arg] = 0 /\ lock'.guard[last'.arg] = 1]_vars

(* What a client gets back from the library: one create at most returns 0, *)
(* the one that makes the first thread; no yield ever returns; and a join  *)
(* that returns has waited for nothing and changed nothing                 *)
(* (my_pthread.c:485-597, 645-660).                                         *)
FewCallsReturn ==
    [][Running(mem') =>
          /\ last'.fn = "create" /\ last'.ret = "0" =>
                Created = {} /\ Created' = {last'.arg}
          /\ last'.fn # "yield"
          /\ last'.fn = "join" => mem' = mem]_vars

(* After my_pthread_exit returned to its caller no later call that returns *)
(* changes the queues or the scheduler's state (my_pthread.c:601-618).     *)
ExitIsFinal ==
    [][mem.state["Master"] = "TERMINATED" /\ Running(mem') => mem' = mem]_vars

-----------------------------------------------------------------------------
(* What comments and tests of the repository say and the code does not do. *)

(* main_test creates two threads and then prints that main is returning    *)
(* (my_pthread.c:758-775): a create whose system calls succeed returns.    *)
CreateReturns == last.fn = "create" => Running(mem)

(* my_pthread_yield requests that the context is swapped out for another   *)
(* one that is waiting (my_pthread.c:589-590): once a thread exists, the   *)
(* process goes on after a yield.                                          *)
YieldGoesOn ==
    last.fn = "yield" /\ Created # {} => mem.proc \in {"running", "in thread"}

(* The loop of my_pthread_mutex_init finds the end of the list             *)
(* (my_pthread.c:629).                                                     *)
ListEndFound == mem.proc # "hung"

(* my_pthread_mutex_unlock unlocks a given mutex (my_pthread.c:710): after *)
(* it returned, the mutex can be locked.                                   *)
UnlockReleases == last.fn = "unlock" /\ last.ret = "0" => lock.guard[last.arg] = 0

(* The Cleaner queue holds terminated threads that are waiting to be       *)
(* destroyed (my_pthread_t.h:123).                                         *)
CleanerHoldsTerminated ==
    \A t \in After(mem.next, "Cleaner") : mem.state[t] = "TERMINATED"

=============================================================================
