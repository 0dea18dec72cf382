--------------------------- MODULE MCChunkBuffers ---------------------------
(* An instance of ChunkBuffers for TLC: the constants are in the cfg.      *)
EXTENDS ChunkBuffers
=============================================================================
