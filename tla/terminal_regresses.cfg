SPECIFICATION Spec
CONSTANTS
    c1 = c1
    c2 = c2
    w1 = w1
    w2 = w2
    s1 = s1
    Clients <- TwoClients
    Workers <- OneWorker
    Sweepers <- OneSweeper
    MaxPending = 1
    Limit <- TwoRequests
    LeaseOutlivesWorkers = TRUE
SYMMETRY Symmetry
CHECK_DEADLOCK FALSE
PROPERTIES
    TerminalIsFinal
