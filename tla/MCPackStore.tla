---------------------------- MODULE MCPackStore -----------------------------
(***************************************************************************)
(* Small instances of PackStore.                                           *)
(***************************************************************************)
EXTENDS PackStore
=============================================================================
