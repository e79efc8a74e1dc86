SPECIFICATION Spec
CONSTANTS
    r1 = r1
    r2 = r2
    w1 = w1
    w2 = w2
    s1 = s1
    Requesters <- TwoRequesters
    Workers <- TwoWorkers
    Scanners <- OneScanner
    MaxRetries = 1
    MaxPending = 1
    Limit <- HookResendAndDeath
CHECK_DEADLOCK FALSE
SYMMETRY Symmetry
INVARIANTS
    DeliveryInv
    MailIsTriggered
    DeliveredIsTrue
PROPERTIES
    DeliveredIsKept
