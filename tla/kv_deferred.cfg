SPECIFICATION Spec
CONSTANTS
    t1 = t1
    t2 = t2
    k1 = k1
    k2 = k2
    v1 = v1
    v2 = v2
    Table <- OneTable
    Order <- OneTableOrder
    Key = {k1, k2}
    Value = {v1, v2}
    Versioned = {v1}
    None = None
    Torn = Torn
    NotPending = NotPending
    NoVersion = NoVersion
    Kinds = {"Set", "Delete", "BulkDel"}
    Created <- OneTable
    Defer = TRUE
    MaxDirtyKeys = 2
    Periodic = FALSE
    EveryNWrites = 0
    Truncate = TRUE
    MaxSeq = 4
    MaxCrashes = 2
INVARIANTS CheckpointCovers ServesLatest
PROPERTIES NoLostUpdate ImplementsStore
