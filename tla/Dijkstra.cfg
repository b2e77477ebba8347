SPECIFICATION Spec
CONSTANTS
    N = 4
    INF = 6
    MaxInt = 9
    Graphs <- MCGraphs
CHECK_DEADLOCK FALSE
INVARIANTS
    TypeOK
    LoopInv
    ResultIsRight
PROPERTY SettledStays
