SPECIFICATION Spec
CONSTANTS
    Thread = {t1, t2}
    Mutex = {m1, m2}
    StackMutex = {m1, m2}
    Node <- MCNode
    NULL = NULL
    WILD = WILD
    Leftover <- AnyMemory
    StartExec = 0
    UIntMax = 7
    SysCallsFail = TRUE
SYMMETRY Symmetry
INVARIANTS
    TypeOK
    OnlyMasterRuns
    QueuesWellFormed
    HighQueueExact
PROPERTIES
    RegisteredStayListed
    LockMeansAcquired
    FewCallsReturn
    ExitIsFinal
\* The process ends when a call does not return.
CHECK_DEADLOCK FALSE
