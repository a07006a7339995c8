------------------------- MODULE TableCommitProofs --------------------------
(***************************************************************************)
(* The theorems about the commit protocol: the protocol invariant, type    *)
(* correctness, agreement of the columns, and the refinement of            *)
(* TableVersions.                                                          *)
(***************************************************************************)
EXTENDS TableCommitSteps

USE NoAttrAssumption, InvalidAssumption

\* The initial states satisfy the invariant.
LEMMA InitInv == ASSUME Init PROVE CommitProtocolInv
<1>1. ASSUME NEW t \in Tables, NEW c \in Columns
      PROVE  /\ hd[t][c] \in [{"A", "B", "S"} -> Header]
             /\ hd[t][c]["S"].kind = "none"
             /\ hd[t][c]["B"].kind = "full" /\ hd[t][c]["B"].rows = << >>
             /\ sw[t] = "B"
  <2>1. /\ hd[t][c] = [f \in {"A", "B", "S"} |->
                IF f = "B" THEN FullHeader(<< >>, Invalid) ELSE File("none")]
        /\ sw[t] = "B"
    BY DEF Init
  <2>2. FullHeader(<< >>, Invalid) \in Header /\ File("none") \in Header
    BY HeaderType, EmptySeq, Zenon
  <2>3. hd[t][c]["B"] = FullHeader(<< >>, Invalid) /\ hd[t][c]["S"] = File("none")
    BY <2>1
  <2>4. hd[t][c] \in [{"A", "B", "S"} -> Header]
    BY <2>1, <2>2
  <2>5. FullHeader(<< >>, Invalid).kind = "full" /\ FullHeader(<< >>, Invalid).rows = << >>
        /\ File("none").kind = "none"
    BY DEF File, FullHeader
  <2> QED
    BY <2>1, <2>3, <2>4, <2>5
<1>2. hd = [t \in Tables |-> [c \in Columns |-> hd[t][c]]]
  BY DEF Init
<1>3. hd \in [Tables -> [Columns -> [{"A", "B", "S"} -> Header]]]
  BY <1>1, <1>2
<1>4. TypeOK
  BY <1>3, ColumnFacts DEF Init, TypeOK
<1>5. ColumnsAgree
  BY <1>1, ColumnFacts DEF ColumnsAgree, Visible
<1>6. IdsInv
  BY <1>1 DEF Init, IdsInv
<1>7. ControlInv
  BY BoundsAssumption DEF Init, ControlInv, Modified
<1>8. SessionInv /\ ViewInv /\ LoaderInv /\ CommitInv
  BY Zenon DEF Init, SessionInv, ViewInv, LoaderInv, CommitInv, Modified
<1> QED
  BY <1>4, <1>5, <1>6, <1>7, <1>8 DEF CommitProtocolInv

\* Every step preserves it.
LEMMA StepInv == ASSUME CommitProtocolInv, [Next]_vars PROVE CommitProtocolInv'
<1>1. TypeOK'
  BY TypeStep
<1> QED
  BY <1>1, AgreeStep, IdsStep, ControlStep, SessionStep, ViewStep, LoaderStep, CommitStep
  DEF CommitProtocolInv

\* The protocol invariant holds in every reachable state, for any number of
\* tables, columns, transactions, loads and rows, and for every set of faults.
THEOREM ProtocolInvariant == Spec => []CommitProtocolInv
BY InitInv, StepInv, PTL DEF Spec

\* Type correctness of the commit protocol.
THEOREM TypeCorrect == Spec => []TypeOK
<1>1. CommitProtocolInv => TypeOK
  BY DEF CommitProtocolInv
<1> QED
  BY <1>1, ProtocolInvariant, PTL

\* A table never mixes two versions of its columns, whatever is killed, crashes
\* or fails while the loader's Save, Commit or Rollback work on header files.
THEOREM NeverMixed == Spec => []ColumnsAgree
<1>1. CommitProtocolInv => ColumnsAgree
  BY DEF CommitProtocolInv
<1> QED
  BY <1>1, ProtocolInvariant, PTL
-----------------------------------------------------------------------------
\* A new database has empty tables.
LEMMA RefineInit == ASSUME Init PROVE TV!Init
<1>1. \A t \in Tables : Visible(t, 1) = << >>
  BY ColumnFacts, Zenon DEF Init, Visible, FullHeader
<1> QED
  BY <1>1 DEF Init, TV!Init

\* Every step of the protocol is a load, a publication or a loss of the open
\* transaction's rows, or changes no contents.
LEMMA RefineStep == ASSUME CommitProtocolInv, [Next]_vars PROVE [TV!Next]_(TV!vars)
<1> DEFINE rows == [t \in Tables |-> Visible(t, 1)]
<1>0. TypeOK /\ ControlInv /\ CommitInv
  BY DEF CommitProtocolInv
<1>1. CASE UNCHANGED <<sw, hd>> /\ work' = work
  BY <1>1, ZenonT(60) DEF TV!vars, Visible
<1>2. CASE LoaderSave \/ RemoveOpposite \/ RenameSession \/ RollbackAttr
  <2>1. UNCHANGED <<sw, work>> /\ \A u \in Tables : hd'[u][1][sw[u]] = hd[u][1][sw[u]]
    BY <1>2, SelectedUntouched, ColumnFacts
  <2>2. rows' = rows
    BY <2>1 DEF Visible
  <2> QED
    BY <2>1, <2>2, Zenon DEF TV!vars
<1>3. CASE UNCHANGED <<sw, hd>> /\ work' = [t \in Tables |-> << >>]
  <2>1. rows' = rows
    BY <1>3 DEF Visible
  <2> QED
    BY <1>3, <2>1 DEF TV!Next, TV!Forget
<1>4. CASE FinishLoad
  <2>1. UNCHANGED <<sw, hd>> /\ cur \in Tables /\ pc = "load"
    BY <1>0, <1>4, Zenon DEF FinishLoad, disk, ControlInv, Modified
  <2>2. rows' = rows
    BY <2>1 DEF Visible
  <2>3. CASE ~ nrec > 0
    <3>1. work' = work
      BY <1>4, <2>3 DEF FinishLoad
    <3> QED
      BY <2>2, <3>1 DEF TV!vars
  <2>4. CASE nrec > 0
    <3>1. work' = [work EXCEPT ![cur] = @ \o Batch(nrec, loads)]
      BY <1>4, <2>4 DEF FinishLoad
    <3>2. nrec \in 1 .. MaxBatch /\ loads \in 1 .. MaxLoads
      BY <1>0, <2>1, <2>4, BoundsAssumption DEF ControlInv, TypeOK
    <3>3. Batch(nrec, loads) \in LoadBatches
      BY <3>2 DEF LoadBatches
    <3>4. TV!Load(cur)
      BY <2>2, <3>1, <3>3, Zenon DEF TV!Load
    <3> QED
      BY <2>1, <3>4 DEF TV!Next
  <2> QED
    BY <2>3, <2>4
<1>5. ASSUME NEW t \in Tables, CommitSwitch(t) PROVE [TV!Next]_(TV!vars)
  <2>1. hd' = hd /\ pc = "switch" /\ t \in todo
    BY <1>5 DEF CommitSwitch
  <2>2. CASE UNCHANGED <<sw, work>>
    BY <1>1, <2>1, <2>2
  <2>3. CASE /\ res[t] # Invalid
             /\ sw' = [sw EXCEPT ![t] = Other(@)]
             /\ work' = [work EXCEPT ![t] = << >>]
    <3>1. hd[t][1][Other(sw[t])].rows = Visible(t, 1) \o work[t]
      BY <1>0, <2>1, <2>3, ColumnFacts, Zenon DEF CommitInv, OppositeHolds, Pending
    <3>2. sw'[t] = Other(sw[t]) /\ \A u \in Tables : u # t => sw'[u] = sw[u]
      BY <1>0, <2>3 DEF TypeOK
    <3>3. \A u \in Tables : rows'[u] = IF u = t THEN rows[u] \o work[u] ELSE rows[u]
      BY <2>1, <3>1, <3>2, Zenon DEF Visible
    <3>4. rows' = [rows EXCEPT ![t] = @ \o work[t]]
      BY <3>3, Zenon
    <3>5. TV!Publish(t)
      BY <2>3, <3>4 DEF TV!Publish
    <3> QED
      BY <3>5 DEF TV!Next
  <2> QED
    BY <1>5, <2>2, <2>3 DEF CommitSwitch
<1> QED
  BY <1>1, <1>2, <1>3, <1>4, <1>5, SharedOpen, ZenonT(60)
  DEF Next, vars, disk, GetNewTransaction, AddTableWR, StartLoad, LoaderOpen, LoaderAppend,
      LoaderNoInput, LoaderError, KillLoader, FailLoad, Commit, CommitSaveSession,
      StartSwitch, ReplaceTables, Rollback, RollbackTable, EndRollback, Crash,
      EndTransaction

\* The commit protocol implements TableVersions: a table's contents change only
\* by the flip of the switch, which adds exactly the rows of the transaction's
\* finished LOAD statements.
THEOREM Refinement == Spec => AtomicVersions
BY RefineInit, RefineStep, ProtocolInvariant, PTL DEF Spec, AtomicVersions, TV!Spec
=============================================================================
