SPECIFICATION FairSpec
CONSTANTS
    r1 = r1
    r2 = r2
    w1 = w1
    w2 = w2
    s1 = s1
    Requesters <- OneRequester
    Workers <- OneWorker
    Scanners <- OneScanner
    MaxRetries = 1
    MaxPending = 1
    Limit <- HookAndFailures
CHECK_DEADLOCK FALSE
PROPERTIES
    DeliverySettles
