SPECIFICATION FairSpec
CONSTANTS
    east = east
    west = west
    home = home
    Nil = Nil
    Places <- MCPlaces
    Start = home
    Trees <- MCTrees
    LiveTables = {0}
    MaxRuns = 3
    MaxFaults = 1
CHECK_DEADLOCK FALSE
INVARIANTS
    TypeOK
    CurrentIsOneBuild
    StaleServerIsTold
    AnswerIsCurrent
    TablesNotBehind
PROPERTIES
    ServerCatchesUp
    QueryReturns
