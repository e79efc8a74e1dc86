SPECIFICATION Spec
CONSTANTS
    q1 = q1
    q2 = q2
    q3 = q3
    o1 = o1
    b1 = b1
    k1 = k1
    k2 = k2
    h1 = h1
    h2 = h2
    Requests <- ThreeRequests
    Operators <- OneOperator
    Onboarders <- OneOnboarder
    Keys <- TwoKeys
    Hashes <- TwoHashes
    FirstValues <- OneOrTwo
    LastValue = 3
    PoolSize = 2
    MaxRotations = 1
CHECK_DEADLOCK FALSE
SYMMETRY Symmetry
INVARIANTS
    IssuanceInv
    AnsweredAsAsked
    IssuedAsChecked
    SequenceIsDense
PROPERTIES
    IdentityRefinement
