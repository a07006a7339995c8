---------------------------- MODULE MCPackCache -----------------------------
(***************************************************************************)
(* Instances of PackCache.                                                 *)
(***************************************************************************)
EXTENDS PackCache, TLC

\* Threads are interchangeable.
Symmetry == Permutations(Threads)
=============================================================================
