SPECIFICATION FairSpec
CONSTANTS
    c1 = c1
    c2 = c2
    c3 = c3
    None = None
    Clients <- LineClients
    Script <- LineScript
    NumFds = 2
    Width = 2
    Pipelining = TRUE
    EarlyClose = FALSE
INVARIANT EveryLineAnswered
