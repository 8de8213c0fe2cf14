-------------------------- MODULE MCTelemetryStore --------------------------
(***************************************************************************)
(* StoreHistory for TLC: one service in the first shard, the others in the *)
(* last one.                                                               *)
(***************************************************************************)
EXTENDS StoreHistory

MCShardOf == [s \in Service |-> IF s = CHOOSE x \in Service : TRUE THEN 1 ELSE NumShards]
=============================================================================
