SPECIFICATION Spec
CONSTANTS
    d1 = d1
    d2 = d2
    ctl = ctl
    shard1 = shard1
    shardC = shardC
    ControlStream = ctl
    ShardOf <- ShardMap
    DataStreams <- OneStream
    FrameRecords = 1
    BigRows = {FALSE}
    TargetSets <- NoTargets
    Kinds = {"close"}
    MaxRecords = 4
    Hours = {0, 1}
    MaxRotations = 0
    MaxCommands = 1
    StorageFails = {FALSE}
    Ages = {FALSE}
INVARIANTS
    AllSettled
