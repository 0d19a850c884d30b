-------------------------- MODULE MCTimeSeriesChannel --------------------------
(***************************************************************************)
(* Constants for model checking TimeSeriesChannel.                         *)
(***************************************************************************)
EXTENDS TimeSeriesChannel, TLC

CONSTANTS b1, b2, b3, b4, b5, b6, p1, p2, w1, w2

NoConflict == {}
FirstTwoConflict == {<<b1, b2>>}
Symmetry == Permutations(Batch)

===============================================================================
