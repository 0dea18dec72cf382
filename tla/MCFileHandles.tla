--------------------------- MODULE MCFileHandles ----------------------------
(* Instances of FileHandles for TLC.                                       *)
EXTENDS FileHandles

MCFiles == {1, 2, 3}
\* File 1 is too large for the cache until it changes.
MCSize == [f \in MCFiles |-> IF f = 1 THEN <<7, 1>> ELSE <<2, 2>>]

On(f, n) == [file |-> f, blocks |-> n]

\* Two generations that overlap, one of them with two fields, then a file that
\* does not overlap them; the same with a field that --start leaves without a
\* block; and the first run cut into two windows.
Whole == <<<<  <<On(1, 1), On(1, 2), On(2, 1)>>  >>, <<  <<On(3, 1)>>  >>>>
Late == <<<<  <<On(1, 0), On(1, 2), On(2, 1)>>  >>, <<  <<On(3, 1)>>  >>>>
Cut == <<<<  <<On(1, 1), On(1, 2), On(2, 1)>>, <<On(1, 1), On(2, 2)>>  >>,
         <<  <<On(3, 1)>>  >>>>

MCShards == {Whole, Late, Cut}
=============================================================================
