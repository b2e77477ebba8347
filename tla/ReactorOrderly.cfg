SPECIFICATION FairSpec
CONSTANTS
    c1 = c1
    c2 = c2
    c3 = c3
    None = None
    Clients <- OrderlyClients
    Script <- OrderlyScript
    NumFds = 2
    Width = 2
    Pipelining = FALSE
    EarlyClose = FALSE
INVARIANTS
    TypeOK
    TableInv
    OwnAnswersInOrder
    ExactlyOnePlace
    OutputArmed
PROPERTIES
    AllAnswered
