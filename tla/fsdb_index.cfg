SPECIFICATION Spec
CONSTANTS
    k1 = k1
    k2 = k2
    sk1 = sk1
    Key = {k1, k2}
    Sk = {sk1}
    NoSk = NoSk
    None = None
    Torn = Torn
    NotPending = NotPending
    Order <- KeyOrder
    DeferWrites = {TRUE, FALSE}
    MaxOps = 3
    MaxCreates = 1
    MaxCrashes = 2
INVARIANTS TypeOK IndexComplete IndexExact FindsAll NoSelfWait BulkMatches
    CurrentIsDurable
PROPERTIES Recovers ImplementsTable
