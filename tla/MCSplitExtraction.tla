------------------------ MODULE MCSplitExtraction -------------------------
(* Task lists for TLC: the sizes of the tasks and their estimates. *)
EXTENDS SplitExtraction

CONSTANTS Sizes, Estimates   \* sets of sequences, one entry per task

EndsOf(s) == [t \in 0 .. Len(s) |-> FoldFunctionOnSet(+, 0, s, 1 .. t)]

MCWorkloads == {[ends |-> EndsOf(s), est |-> e] : s \in Sizes, e \in Estimates}

\* With batches of two rows: a batch that is sent half full, a task that fills
\* its channel, an empty task.
MCSizes == {<<3, 0, 2>>, <<1, 7, 0>>}

\* All fit at once; only two do; the second is larger than the whole budget.
MCEstimates == {<<1, 1, 1>>, <<2, 2, 1>>, <<1, 5, 1>>}
=============================================================================
