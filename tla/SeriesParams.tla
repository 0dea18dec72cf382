---------------------------- MODULE SeriesParams -----------------------------
(***************************************************************************)
(* What an extraction of a 1.x or 2.x shard is given (module SeriesMerge). *)
(***************************************************************************)
EXTENDS Integers, Sequences, FiniteSets

CONSTANTS
  LastTime,     \* the largest timestamp
  Fields,       \* field names, as their ranks in name order
  MaxWindows,   \* bound: windows a run is cut into
  StoredShards, \* the shards considered: the files' keys of each series
                \* (none if it is in the log alone), and the log
  Queries       \* the bounds and cursors considered

\* The blocks of a key are not empty, and a cursor is a point's place.
ASSUME PointsAssumption ==
  /\ LastTime \in Nat
  /\ Fields \subseteq Nat /\ Fields # {} /\ IsFiniteSet(Fields)
  /\ MaxWindows \in Nat \ {0}
  /\ \A sh \in StoredShards :
       /\ sh.series \in Seq(Seq([Fields -> Seq(Seq(0 .. LastTime) \ {<<>>})]))
       /\ sh.log \in Seq(Seq([kind : {"write", "delete", "torn", "bad"},
                              values : Seq([series : 1 .. Len(sh.series), field : Fields,
                                            times : Seq(0 .. LastTime)])]))
  /\ \A q \in Queries :
       /\ q.start \in 0 .. LastTime /\ q.end \in 0 .. LastTime
       /\ q.cursor.series \in Nat /\ q.cursor.ts \in 0 .. LastTime
=============================================================================
