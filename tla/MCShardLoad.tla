---------------------------- MODULE MCShardLoad -----------------------------
(* Instances of ShardLoad for TLC: the constants are given in the cfgs.    *)
EXTENDS ShardLoad
=============================================================================
