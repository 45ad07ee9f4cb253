-------------------------- MODULE MCWriteBatching --------------------------
(* Instances of WriteBatching for TLC. *)
EXTENDS WriteBatching, TLC

MCBytes == 1 .. 2

\* The destinations are interchangeable.
MCSymmetry == Permutations(Remote)

\* Single cells of a four-byte region, one range of two cells, and a range
\* that crosses the end of the region.
MCCellRanges == {<<0, 1>>, <<1, 2>>, <<2, 3>>, <<1, 3>>, <<3, 5>>}

\* Two cells that do not touch, two ranges that bridge them and overlap, and a
\* range that crosses the end of the region.
MCOverlapRanges == {<<0, 1>>, <<2, 3>>, <<0, 2>>, <<1, 3>>, <<3, 5>>}

\* The last cell of the region and the first cell beyond it.
MCEdgeRanges == {<<0, 1>>, <<3, 4>>, <<4, 5>>}
=============================================================================
