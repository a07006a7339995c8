--------------------------- MODULE MCTableCommit ---------------------------
(***************************************************************************)
(* Model checking of TableCommit: its constants are given in the .cfg      *)
(* files.  Columns are ordered; tables and ids can be permuted.            *)
(***************************************************************************)
EXTENDS TableCommitInv, TLC

\* Sound for the runs that check invariants only.
Symmetry == Permutations(Tables) \cup Permutations(TransIds)
=============================================================================
