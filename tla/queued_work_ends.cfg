SPECIFICATION FairSpec
CONSTANTS
    c1 = c1
    c2 = c2
    w1 = w1
    w2 = w2
    s1 = s1
    Clients <- OneClient
    Workers <- OneWorker
    Sweepers <- OneSweeper
    MaxPending = 1
    Limit <- Failing
    LeaseOutlivesWorkers = TRUE
CHECK_DEADLOCK FALSE
PROPERTIES
    QueuedWorkEnds
