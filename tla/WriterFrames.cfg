SPECIFICATION Spec
CONSTANTS
    d1 = d1
    d2 = d2
    ctl = ctl
    shard1 = shard1
    shardC = shardC
    ControlStream = ctl
    ShardOf <- ShardMap
    DataStreams <- OneStream
    FrameRecords = 1
    BigRows = {TRUE, FALSE}
    TargetSets <- NoTargets
    Kinds = {"rotate_due"}
    MaxRecords = 3
    Hours = {0, 1}
    MaxRotations = 1
    MaxCommands = 1
    StorageFails = {FALSE}
    Ages = {FALSE}
INVARIANTS
    RowsKept
