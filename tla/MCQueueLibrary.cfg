SPECIFICATION Spec
CONSTANTS
    high = high
    low = low
    t1 = t1
    t2 = t2
    t3 = t3
    Queue <- MCQueue
    Thread <- MCThread
    Node <- MCNode
    tid <- MCtid
    INT_MAX = 127
    NULL = NULL
INVARIANTS
    TypeOK
    QueuesWellFormed
    ParentHoldsThread
    AgingSparesSecond
PROPERTIES
    QueuesAreFifo
