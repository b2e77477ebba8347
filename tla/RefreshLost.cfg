SPECIFICATION Spec
CONSTANTS
    w1 = w1
    w2 = w2
    Workers <- MCWorkers
    Listener = listener
    MinConns = 2
    MaxConns = 2
    MaxBuilds = 2
INVARIANTS
    RefreshApplied
