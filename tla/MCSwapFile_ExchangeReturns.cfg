SPECIFICATION FairSpec
CONSTANTS
    PageSize = 3
    RamPages = 3
    DiskPages = 3
    segSwap = 1
    swapStart = 1
    BlockSize = 2
    Unit <- MCUnit
    Zero = 0
    Memories <- OneMemory
    MaxErrors = 0
    LengthFails = FALSE
    SeekFails = FALSE
PROPERTIES
    ExchangeReturns
\* The process may have ended.
CHECK_DEADLOCK FALSE
