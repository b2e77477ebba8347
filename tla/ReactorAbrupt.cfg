SPECIFICATION FairSpec
CONSTANTS
    c1 = c1
    c2 = c2
    c3 = c3
    None = None
    Clients <- AbruptClients
    Script <- AbruptScript
    NumFds = 1
    Width = 2
    Pipelining = TRUE
    EarlyClose = TRUE
INVARIANT TableInv
PROPERTIES
    ClosedIsReleased
    OnlyAbruptEndsFatal
