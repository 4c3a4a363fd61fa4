SPECIFICATION FairSpec
CONSTANTS
    d1 = d1
    d2 = d2
    ctl = ctl
    shard1 = shard1
    shardC = shardC
    ControlStream = ctl
    ShardOf <- ShardMap
    DataStreams <- OneStream
    FrameRecords = 3
    BigRows = {FALSE}
    TargetSets <- NoTargets
    Kinds = {"sync", "rotate_config", "close"}
    MaxRecords = 2
    Hours = {0, 1}
    MaxRotations = 1
    MaxCommands = 2
    StorageFails = {TRUE, FALSE}
    Ages = {FALSE}
INVARIANTS
    AllSettled
    CloseKept
PROPERTIES
    WriterProgress
