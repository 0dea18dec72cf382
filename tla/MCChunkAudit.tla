---------------------------- MODULE MCChunkAudit -----------------------------
(* ChunkAudit over every shard of at most MaxPoints points.                *)
EXTENDS ChunkAudit

CONSTANTS MaxPoints, Sizes

MCResolution == [kept |-> "kept", renamed |-> "renamed", skipped |-> "skipped"]

\* A skipped point has no line, so its size does not matter.
MCPoints == [m : {"kept", "renamed"}, size : Sizes] \cup [m : {"skipped"}, size : {1}]

MCShards == UNION {[1 .. n -> MCPoints] : n \in 0 .. MaxPoints}
=============================================================================
