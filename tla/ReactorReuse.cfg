SPECIFICATION FairSpec
CONSTANTS
    c1 = c1
    c2 = c2
    c3 = c3
    None = None
    Clients <- LineClients
    Script <- LineScript
    NumFds = 1
    Width = 2
    Pipelining = FALSE
    EarlyClose = TRUE
INVARIANT AnswersGoHome
