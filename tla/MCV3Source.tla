----------------------------- MODULE MCV3Source -----------------------------
(* Instances of V3Source for TLC: the constants are given in the cfgs.     *)
EXTENDS V3Source
=============================================================================
