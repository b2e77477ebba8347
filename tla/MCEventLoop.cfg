SPECIFICATION FairSpec
CONSTANTS
    w1 = w1
    w2 = w2
    w3 = w3
    Workers <- MCWorkers
    MaxSends = 5
    PipeCap = 3
    ReadSize = 2
INVARIANTS
    TypeOK
    WakeInv
PROPERTY MailboxFairSpec
