SPECIFICATION FairSpec
CONSTANTS
    PageSize = 2
    RamPages = 2
    DiskPages = 3
    segSwap = 2
    swapStart = 1
    BlockSize = 1
    Unit <- MCUnit
    Zero = 0
    Memories <- OneMemory
    MaxErrors = 1
    LengthFails = TRUE
    SeekFails = TRUE
INVARIANTS
    TypeOK
    EmptyFileKeepsPages
    MasterHoldsLastPage
PROPERTIES
    FailureSpoilsOneSwap
    TransfersStayNear
    SwapRunsDown
    SwapEnds
\* The process may have ended.
CHECK_DEADLOCK FALSE
