SPECIFICATION Spec
CONSTANTS
    k1 = k1
    k2 = k2
    v1 = v1
    v2 = v2
    Key = {k1, k2}
    Value = {v1, v2}
    None = None
    Command <- Commands
    Client = {}
    Buffer = 2
    MaxLog = 3
    MaxCampaigns = 1
    MaxCrashes = 1
INVARIANTS HandledIsStored
