SPECIFICATION Spec
CONSTANTS
    t1 = t1
    t2 = t2
    t3 = t3
    t4 = t4
    Clients <- MCClients
    InitSize = 2
    MaxSize = 6
INVARIANTS
    TypeOK
    Conserved
    ProducerAwake
    GrowthInv
