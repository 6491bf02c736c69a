SPECIFICATION Spec
CONSTANTS
    Thread = {t1, t2}
    Mutex = {m1, m2}
    StackMutex = {}
    Node <- MCNode
    NULL = NULL
    WILD = WILD
    Leftover <- FreshMemory
    StartExec = 0
    UIntMax = 7
    SysCallsFail = FALSE
SYMMETRY Symmetry
INVARIANT YieldGoesOn
\* The process ends when a call does not return.
CHECK_DEADLOCK FALSE
