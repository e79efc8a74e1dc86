SPECIFICATION EvidenceSpec
CONSTANTS
    Components = {"files", "xml", "pdf", "packages", "missed"}
    Keys = {k1, k2}
    Contents = {b1, b2}
    Uploads = {u1, u2}
    Deletable = {k2}
    MaxFaults = 2
    Preparations = {p1, p2}
    Adapters = {"local", "s3"}
    MaxMishaps = 2
    Generations = {g1, g2}
    Logos = {l1, l2}
    LastSecond = 1
    MaxPdfMishaps = 1
    MaxDamage = 1
    LastId = 3
    BatchSize = 2
    MaxMisses = 2
CHECK_DEADLOCK FALSE
INVARIANTS
    StorageInv
    ArtifactsInv
    MissedInv
PROPERTIES
    StoreIsWriteOnce
    DecisionIsKept
