SPECIFICATION PlatformSpec
CONSTANTS
    Components = {"secrets", "initialise", "backup", "migrate", "connection", "sessions",
                  "keys", "tenants", "breaker", "answers", "documentPdf", "representation",
                  "documents", "lookups", "readiness"}
    Writers = {w1, w2}
    Readers = {r1}
    Keys = {k1, k2}
    StoreKey = k1
    MaxVersion = 2
    MaxFaults = 1
    Initialisers = {"i1", "i2"}
    References = {f1, f2}
    MaxWrites = 2
    Requests = {q1, q2, q3}
    Processes = {api, worker}
    Parts = {1, 2}
    MaxStamp = 3
    Sessions = {s1, s2, s3}
    FirstSession = s1
    Validations = {v1, v2}
    Revokers = {x1}
    Companies = {c1}
    Strangers = {c3}
    Assigners = {a1, a2}
    Founders = {t1, t2}
    Calls = {l1, l2, l3}
    FailureThreshold = 2
    ResetTimeout = 2
    MaxPerWindow = 2
    Window = 2
    Retries429 = 1
    Retries5xx = 1
    MaxTime = 3
    HttpStatuses = {0, 202, 304, 400, 404, 429, 503}
    ContentHeights = {8, 250}
    MaxRows = 5
    TextHeights = {11, 320}
    RowHeights = {27, 307}
    MaxTexts = 1
    MaxLines = 3
    Factor = 100
    QuantityUnit = 10
    Quantities = {100, 105, 250}
    Prices = {100, 33}
    OldKey = old
    NewKey = new
    Stranger = str
    InvoiceReaders = {new}
    MaxChanges = 1
SYMMETRY Symmetry
CHECK_DEADLOCK FALSE
INVARIANTS
    StoreInv
    ConnectionInv
    AccessInv
    ProviderInv
    DocumentInv
    IssuerInv
