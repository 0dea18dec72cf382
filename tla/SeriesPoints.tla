----------------------------- MODULE SeriesPoints ----------------------------
(***************************************************************************)
(* The points of a shard (module SeriesMerge) under names of their own, so *)
(* that they can stand beside the files they are read from (FileHandles)   *)
(* and beside those of a 3.x table (V3Extraction).                         *)
(***************************************************************************)
EXTENDS SeriesParams

VARIABLES shard, query, windows, stage, segments, wal, units, pos, merged

SM == INSTANCE SeriesMerge WITH phase <- stage, emitted <- merged

\* What is given to the callback is what was written: see SeriesMerge.
MergeExact == SM!OutputExact

MergeSpec == SM!Spec
=============================================================================
