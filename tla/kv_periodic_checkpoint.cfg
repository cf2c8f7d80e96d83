SPECIFICATION Spec
CONSTANTS
    t1 = t1
    t2 = t2
    k1 = k1
    k2 = k2
    v1 = v1
    v2 = v2
    Table <- OneTable
    Order <- OneTableOrder
    Key = {k1, k2}
    Value = {v1, v2}
    Versioned = {v1, v2}
    None = None
    Torn = Torn
    NotPending = NotPending
    NoVersion = NoVersion
    Kinds <- AllKinds
    Created <- OneTable
    Defer = TRUE
    MaxDirtyKeys = 2
    Periodic = TRUE
    EveryNWrites = 0
    Truncate = FALSE
    MaxSeq = 3
    MaxCrashes = 1
SYMMETRY ValueSym
INVARIANTS AcknowledgedSurvive
