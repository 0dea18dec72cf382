-------------------------- MODULE SerialExtraction --------------------------
(***************************************************************************)
(* What the extraction of a shard promises its caller, however many        *)
(* workers it uses: the callback sees the shard's points in serial order,  *)
(* each once, without a gap; a return without an error means it has seen   *)
(* them all.  This is the contract the checkpoint rests on: chunks, their  *)
(* numbers and the resume cursor are derived from this order alone.        *)
(***************************************************************************)
EXTENDS Integers, Sequences

VARIABLES total,      \* the number of points in the shard, fixed
          delivered,  \* the points the callback has seen; point i is i-th in serial order
          result      \* "running", then "complete" or "failed"

svars == <<total, delivered, result>>

Serial(n) == [i \in 1 .. n |-> i]

SInit ==
  /\ total \in Nat
  /\ delivered = <<>>
  /\ result = "running"

\* The callback sees the next points.
Deliver ==
  /\ result = "running"
  /\ \E n \in Len(delivered) .. total : delivered' = Serial(n)
  /\ UNCHANGED <<total, result>>

\* The extraction returns without an error: nothing is missing.
Complete ==
  /\ result = "running"
  /\ Len(delivered) = total
  /\ result' = "complete"
  /\ UNCHANGED <<total, delivered>>

\* The extraction returns an error, after any prefix.
Fail ==
  /\ result = "running"
  /\ result' = "failed"
  /\ UNCHANGED <<total, delivered>>

SNext == Deliver \/ Complete \/ Fail

SSpec == SInit /\ [][SNext]_svars
=============================================================================
