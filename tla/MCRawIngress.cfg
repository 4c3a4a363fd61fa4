SPECIFICATION Spec
CONSTANTS
    NormalKeys = {k1, k2}
    ControlKey = kc
    NormalShards = {s1, s2}
    ControlShard = sc
    NoShard = none
    Charges = {1, 2}
    WorkerMaxBytes = 5
    ControlReserve = 2
    HighWaterBytes = 4
    ShardMaxRecords = 2
    ShardMaxBytes = 3
    MaxAccepted = 4
    MaxOverflow = 1
    MaxGeneration = 1
SYMMETRY Symmetry
INVARIANTS
    IngressConsistent
    ControlReserveKept
    ChargedWhileResident
    SingleGeneration
PROPERTIES
    IdentitiesNeverReused
CHECK_DEADLOCK FALSE
