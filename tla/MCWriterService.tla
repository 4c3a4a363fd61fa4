-------------------------- MODULE MCWriterService --------------------------
(* Instances of WriterService for TLC: two native streams that share a shard  *)
(* and the control stream with its own.                                      *)
EXTENDS WriterService

CONSTANTS d1, d2, ctl, shard1, shardC

OneStream == {d1}
TwoStreams == {d1, d2}
ShardMap == [s \in DataStreams \cup {ControlStream} |-> IF s = ctl THEN shardC ELSE shard1]
NoTargets == {{}}
Targets == {{}, {d1}}
BothTargets == {{}, {d1}, {d1, ctl}}
=============================================================================
