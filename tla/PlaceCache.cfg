SPECIFICATION FairSpec
CONSTANTS
    w1 = w1
    w2 = w2
    Workers <- MCWorkers
    Listener = listener
    MinConns = 1
    MaxConns = 3
    MaxBuilds = 3
INVARIANTS
    TypeOK
    QuietMeansCurrent
    RefreshWithRoom
PROPERTIES
    ReaderUndisturbed
    EverythingReturns
