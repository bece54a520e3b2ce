---------------------------- MODULE MCBatchLines ----------------------------
(***************************************************************************)
(* Instances of BatchLines for TLC.                                        *)
(***************************************************************************)
EXTENDS BatchLines

\* Files of at most three rows: lines in and out of order, twice, and with gaps.
Files(numbers) == UNION {[1 .. n -> numbers] : n \in 0 .. 3}
MCDataFiles == Files({0, 1, 2}) \cup Files({None})
=============================================================================
