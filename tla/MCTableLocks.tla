---------------------------- MODULE MCTableLocks ----------------------------
(***************************************************************************)
(* TableLocks for TLC: the statements of the runs, and the symmetry of     *)
(* sessions and of tables.                                                 *)
(***************************************************************************)
EXTENDS TableLocks, TLC

CONSTANTS t1, t2

Write(t) == [table |-> t, mode |-> "write"]

\* Every statement within the bounds.
EveryStatement == AllStatements

\* A session can have t1 from one statement of its transaction and wait for t2 in the
\* next, while the other has t2 and waits for t1; and t1 is written alone and
\* together with t2, which is dropped.
CrossingStatements ==
  {<<Write(t1)>>, <<Write(t2), Write(t1)>>}

Symmetry == Permutations(Sessions) \cup Permutations(Tables)
=============================================================================
