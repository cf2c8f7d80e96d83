SPECIFICATION Spec
CONSTANTS
    t1 = t1
    t2 = t2
    k1 = k1
    k2 = k2
    v1 = v1
    v2 = v2
    Table <- TwoTables
    Order <- TwoTablesOrder
    Key = {k1, k2}
    Value = {v1, v2}
    Versioned = {v1, v2}
    None = None
    Torn = Torn
    NotPending = NotPending
    NoVersion = NoVersion
    Kinds <- AllKinds
    Created <- OneTable
    Defer = FALSE
    MaxDirtyKeys = 2
    Periodic = TRUE
    EveryNWrites = 2
    Truncate = TRUE
    MaxSeq = 3
    MaxCrashes = 2
SYMMETRY ValueSym
INVARIANTS TypeOK AcknowledgedSurvive
