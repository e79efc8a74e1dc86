SPECIFICATION CompanySpec
CONSTANTS
    Components = {"certificates", "taxpayer", "association", "points", "invoice"}
    c1 = c1
    c2 = c2
    i1 = i1
    i2 = i2
    b1 = b1
    t1 = t1
    t2 = t2
    Uploads = {u1, u2}
    Certificates = {c1, c2}
    Identities = {i1, i2}
    IssuedTo <- TwoPersons
    Signings = {s1}
    LastStamp = 1
    MaxFaults = 1
    CodesOfCompany = {a1, a2}
    Creators = {r1, r2}
    Verifications = {v1, v2}
    Choosers = {d1}
    MaxChanges = 2
    Callers = {x1, x2}
    ExternalKeys = {k1, k2}
    Numbers = {n1, n2}
    Types = {y1, y2}
    Managers = {m1, m2}
    Branches = {b1}
    Terminals = {t1, t2}
    BranchOf <- OneBranch
    Legacy = {t1}
    Requests = {q1, q2, q3}
    MaxMishaps = 2
SYMMETRY Symmetry
CHECK_DEADLOCK FALSE
INVARIANTS
    CertificateInv
    TaxpayerInv
    AssociationInv
    PointInv
    InvoiceInv
PROPERTIES
    VerificationIsFaithful
    DefaultIsKept
