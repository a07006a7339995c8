--------------------------- MODULE TableVersions ---------------------------
(***************************************************************************)
(* What the engine promises about the contents of its tables.  A table has *)
(* one committed sequence of rows; the open transaction collects the rows  *)
(* of its finished LOAD statements; the commit of a table appends all of   *)
(* them at once, a rollback or a crash forgets them.                       *)
(*                                                                         *)
(* The promise is per table: a transaction that loaded several tables      *)
(* publishes them one by one, and a failure in between keeps the ones      *)
(* already published.                                                      *)
(***************************************************************************)
EXTENDS Sequences

CONSTANTS
    Tables,         \* the tables of the database
    Batches         \* the sequences of rows one LOAD statement can add

VARIABLES
    committed,      \* committed[t]: the rows every new reader of t sees
    work            \* work[t]: the rows loaded into t, not yet committed

vars == <<committed, work>>

Init ==
    /\ committed = [t \in Tables |-> << >>]
    /\ work = [t \in Tables |-> << >>]

\* A LOAD statement into t has finished and told its client so.
Load(t) ==
    /\ \E rows \in Batches : work' = [work EXCEPT ![t] = @ \o rows]
    /\ UNCHANGED committed

\* The commit of t: all of the transaction's rows of t, and nothing else.
Publish(t) ==
    /\ committed' = [committed EXCEPT ![t] = @ \o work[t]]
    /\ work' = [work EXCEPT ![t] = << >>]

\* Rollback, or a crash of the server.
Forget ==
    /\ work' = [t \in Tables |-> << >>]
    /\ UNCHANGED committed

Next ==
    \/ \E t \in Tables : Load(t) \/ Publish(t)
    \/ Forget

Spec == Init /\ [][Next]_vars
=============================================================================
