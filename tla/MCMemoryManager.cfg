SPECIFICATION FairSpec
CONSTANTS
    NumPages <- MCNumPages
    TablePages <- MCTablePages
    SharedPages <- MCSharedPages
    PageSize <- MCPageSize
    EntrySize <- MCEntrySize
    BlockSize <- MCBlockSize
    TotalMem <- Total
    Request <- Sizes
    SysCallsFail = TRUE
    NULL = NULL
INVARIANTS
    TypeOK
    TableExact
    MasterIntact
    NoAnswerWithoutMemory
    MainExitsLast
PROPERTIES
    RunsDown
    ProgramEnds
\* The program ends.
CHECK_DEADLOCK FALSE
