SPECIFICATION Spec
CONSTANTS
    p = p
    q = q
    boot = boot
    meta = meta
    snap1 = snap1
    snap2 = snap2
    k1 = k1
    k2 = k2
    snapshot = snapshot
    NoKey = NoKey
    NoJob = NoJob
    Jobs = {boot, meta, snap1, snap2}
    JobOf <- FourJobs
    Keys = {k1, k2}
    LogicalKeys = {snapshot}
    Cap = 2
    Rate = 2
    Floor = 1
    Dispatchers = {p, q}
    MaxPending = 2
    MaxSubmits = 3
    MaxTime = 3
    MaxChanges = 2
SYMMETRY AnyOrder
INVARIANTS
    WaitsSound
    WindowRespected
PROPERTIES
    DispatchSound
CHECK_DEADLOCK FALSE
