-------------------------- MODULE TableCommitSteps --------------------------
(***************************************************************************)
(* Every step of TableCommit preserves every conjunct of the protocol      *)
(* invariant: one lemma per conjunct, and in it one case per action that   *)
(* can disturb it.                                                         *)
(***************************************************************************)
EXTENDS TableCommitTypes

USE NoAttrAssumption, InvalidAssumption

\* The rows a commit would publish are a sequence.
LEMMA PendingType ==
    ASSUME TypeOK, NEW t \in Tables
    PROVE  Visible(t, 1) \in Seq(Nat) /\ work[t] \in Seq(Nat) /\ Pending(t) \in Seq(Nat)
<1>1. Visible(t, 1) \in Seq(Nat) /\ work[t] \in Seq(Nat)
  BY ColumnFacts, VisibleType DEF TypeOK
<1> QED
  BY <1>1, ConcatProperties DEF Pending

\* Rows are appended to the pending ones as they are to the loaded ones.
LEMMA AppendBatch ==
    ASSUME NEW v \in Seq(Nat), NEW w \in Seq(Nat), NEW b \in Seq(Nat)
    PROVE  (v \o w) \o b = v \o (w \o b)
OBVIOUS

\* A LOAD of no rows.
LEMMA EmptyBatch == \A l \in Nat : Batch(0, l) = << >>
BY DEF Batch

\* A finished LOAD adds its batch to the rows a commit would publish.
LEMMA FinishedLoad ==
    ASSUME CommitProtocolInv, FinishLoad, nrec > 0, NEW t \in Tables, t = cur
    PROVE  Pending(t)' = Pending(t) \o Batch(nrec, loads)
<1>1. sw' = sw /\ hd' = hd /\ work' = [work EXCEPT ![cur] = @ \o Batch(nrec, loads)]
  BY DEF FinishLoad, disk
<1>2. /\ Visible(t, 1) \in Seq(Nat) /\ work[t] \in Seq(Nat)
      /\ Batch(nrec, loads) \in Seq(Nat)
  BY PendingType, BatchType, Zenon DEF CommitProtocolInv, TypeOK
<1>3. work'[t] = work[t] \o Batch(nrec, loads)
  BY <1>1 DEF CommitProtocolInv, TypeOK
<1>4. Pending(t)' = Visible(t, 1) \o (work[t] \o Batch(nrec, loads))
  BY <1>1, <1>3, Zenon DEF Pending, Visible
<1>5. (Visible(t, 1) \o work[t]) \o Batch(nrec, loads)
      = Visible(t, 1) \o (work[t] \o Batch(nrec, loads))
  BY <1>2, AppendBatch, ZenonT(60)
<1> QED
  BY <1>4, <1>5, Zenon DEF Pending

\* The flip of the switch publishes the pending rows of its table.
LEMMA SwitchKeepsPending ==
    ASSUME CommitProtocolInv, NEW t \in Tables, CommitSwitch(t)
    PROVE  \A u \in Tables : Pending(u)' = Pending(u)
<1>1. hd' = hd /\ pc = "switch" /\ t \in todo
  BY DEF CommitSwitch
<1>2. CASE sw' = sw /\ work' = work
  BY <1>1, <1>2 DEF Pending, Visible
<1>3. CASE /\ res[t] # Invalid
           /\ sw' = [sw EXCEPT ![t] = Other(@)]
           /\ work' = [work EXCEPT ![t] = << >>]
  <2>1. OppositeHolds(t, 1, Pending(t))
    BY <1>1, <1>3, ColumnFacts DEF CommitProtocolInv, CommitInv
  <2>2. sw'[t] = Other(sw[t]) /\ work'[t] = << >>
        /\ \A u \in Tables : u # t => sw'[u] = sw[u] /\ work'[u] = work[u]
    BY <1>3 DEF CommitProtocolInv, TypeOK
  <2>3. Pending(t)' = Pending(t) \o << >>
    BY <1>1, <2>1, <2>2, Zenon DEF Pending, Visible, OppositeHolds
  <2>4. Pending(t) \o << >> = Pending(t)
    BY PendingType, ConcatEmptySeq DEF CommitProtocolInv
  <2>5. \A u \in Tables : u # t => Pending(u)' = Pending(u)
    BY <1>1, <2>2, Zenon DEF Pending, Visible
  <2> QED
    BY <2>3, <2>4, <2>5
<1> QED
  BY <1>2, <1>3 DEF CommitSwitch

\* Opening a table for readers leaves the disk alone: no column of an object
\* opened for reading has a save session.
LEMMA SharedOpen ==
    ASSUME NEW t \in Tables, GetTableShared(t)
    PROVE  UNCHANGED <<sw, hd, tid, used, views, work, ctl, loader>>
<1>1. OpenRead(t)[1].ssid = Invalid
  BY ColumnFacts DEF OpenRead
<1> QED
  BY <1>1 DEF GetTableShared

\* Saving, renaming or removing header files leaves the selected ones alone.
LEMMA SelectedUntouched ==
    ASSUME CommitProtocolInv, LoaderSave \/ RemoveOpposite \/ RenameSession \/ RollbackAttr
    PROVE  /\ UNCHANGED <<sw, work, tid>>
           /\ \A u \in Tables, d \in Columns : hd'[u][d][sw[u]] = hd[u][d][sw[u]]
<1>1. UNCHANGED <<sw, work, tid>>
  BY DEF LoaderSave, RemoveOpposite, RenameSession, RollbackAttr
<1>2. \A u \in Tables : sw[u] \in {"A", "B"}
  BY DEF CommitProtocolInv, TypeOK
<1>3. ASSUME NEW u \in Tables, NEW d \in Columns PROVE hd'[u][d][sw[u]] = hd[u][d][sw[u]]
  <2>1. CASE LoaderSave
    BY <1>2, <2>1, LoaderSaveFacts
  <2>2. CASE RemoveOpposite
    BY <1>2, <2>2, RemoveOppositeFacts
  <2>3. CASE RenameSession
    BY <1>2, <2>3, RenameSessionFacts
  <2>4. CASE RollbackAttr
    BY <1>2, <2>4, RollbackAttrFacts
  <2> QED
    BY <2>1, <2>2, <2>3, <2>4
<1> QED
  BY <1>1, <1>3

\* No step but the flip of the switch changes the headers it selects, and the
\* flip selects headers that all hold the pending rows.
LEMMA AgreeStep == ASSUME CommitProtocolInv, [Next]_vars PROVE ColumnsAgree'
<1>0. TypeOK /\ ColumnsAgree
  BY DEF CommitProtocolInv
<1>1. ASSUME sw' = sw,
             \A u \in Tables, d \in Columns : hd'[u][d][sw[u]] = hd[u][d][sw[u]]
      PROVE  ColumnsAgree'
  <2>1. ASSUME NEW u \in Tables, NEW d \in Columns
        PROVE  hd'[u][d][sw'[u]].kind = "full" /\ hd'[u][d][sw'[u]].rows = hd'[u][1][sw'[u]].rows
    <3>1. hd'[u][d][sw'[u]] = hd[u][d][sw[u]] /\ hd'[u][1][sw'[u]] = hd[u][1][sw[u]]
      BY <1>1, ColumnFacts
    <3>2. hd[u][d][sw[u]].kind = "full" /\ hd[u][d][sw[u]].rows = hd[u][1][sw[u]].rows
      BY <1>0 DEF ColumnsAgree, Visible
    <3> QED
      BY <3>1, <3>2
  <2> QED
    BY <2>1 DEF ColumnsAgree, Visible
<1>2. CASE UNCHANGED <<sw, hd>>
  BY <1>1, <1>2
<1>3. CASE LoaderSave \/ RemoveOpposite \/ RenameSession \/ RollbackAttr
  <2>1. /\ sw' = sw
        /\ \A u \in Tables, d \in Columns : hd'[u][d][sw[u]] = hd[u][d][sw[u]]
    BY <1>3, SelectedUntouched
  <2> QED
    BY <1>1, <2>1
<1>4. ASSUME NEW t \in Tables, CommitSwitch(t) PROVE ColumnsAgree'
  <2>1. hd' = hd /\ pc = "switch" /\ t \in todo
    BY <1>4 DEF CommitSwitch
  <2>2. CASE sw' = sw
    BY <1>2, <2>1, <2>2
  <2>3. CASE sw' = [sw EXCEPT ![t] = Other(@)] /\ res[t] # Invalid
    <3>1. \A c \in Columns : OppositeHolds(t, c, Pending(t))
      BY <2>1, <2>3 DEF CommitProtocolInv, CommitInv
    <3>2. sw'[t] = Other(sw[t]) /\ \A u \in Tables : u # t => sw'[u] = sw[u]
      BY <1>0, <2>3 DEF TypeOK
    <3> QED
      BY <1>0, <2>1, <3>1, <3>2, ColumnFacts DEF ColumnsAgree, Visible, OppositeHolds
  <2> QED
    BY <1>4, <2>2, <2>3 DEF CommitSwitch
<1>5. CASE UNCHANGED disk
  BY <1>2, <1>5 DEF disk
<1>6. CASE UNCHANGED vars
  BY <1>2, <1>6 DEF vars
<1>7. ASSUME NEW t \in Tables, GetTableShared(t) PROVE ColumnsAgree'
  BY <1>2, <1>7, SharedOpen
<1> QED
  BY <1>3, <1>4, <1>5, <1>6, <1>7
  DEF Next, GetNewTransaction, AddTableWR, StartLoad, LoaderOpen, LoaderAppend,
      LoaderNoInput, LoaderError, KillLoader, FinishLoad, FailLoad, Commit,
      CommitSaveSession, StartSwitch, ReplaceTables, Rollback, RollbackTable, EndRollback,
      Crash

\* Every save session on disk carries an id that was handed out.
LEMMA IdsStep == ASSUME CommitProtocolInv, [Next]_vars PROVE IdsInv'
<1>0. TypeOK /\ IdsInv /\ ControlInv
  BY DEF CommitProtocolInv
<1>1. ASSUME used \subseteq used', tid' \in {tid, Invalid} \/ tid' \in used',
             \A u \in Tables, d \in Columns :
                hd'[u][d]["S"] = hd[u][d]["S"] \/ hd'[u][d]["S"].kind # "full"
      PROVE  IdsInv'
  BY <1>0, <1>1 DEF IdsInv
<1>2. CASE UNCHANGED <<hd, used>> /\ (tid' = tid \/ EndTransaction)
  BY <1>1, <1>2 DEF EndTransaction
<1>3. CASE LoaderSave
  <2>1. UNCHANGED <<tid, used>> /\ lst \in {"save", "saveEmpty", "savePartial"}
    BY <1>3 DEF LoaderSave
  <2>2. \A u \in Tables, d \in Columns : u # cur \/ d # latt => hd'[u][d]["S"] = hd[u][d]["S"]
    BY <1>3, LoaderSaveFacts
  <2>3. hd'[cur][latt]["S"].kind # "full" \/ hd'[cur][latt]["S"].sid = tid
    BY <1>3, <2>1, LoaderSaveFacts DEF FullHeader
  <2>4. tid \in used
    BY <1>0, <1>3, LoaderSaveFacts DEF IdsInv, ControlInv
  <2> QED
    BY <1>0, <2>1, <2>2, <2>3, <2>4 DEF IdsInv
<1>4. CASE RemoveOpposite
  <2>1. UNCHANGED <<tid, used>>
    BY <1>4 DEF RemoveOpposite
  <2> QED
    BY <1>1, <1>4, <2>1, RemoveOppositeFacts
<1>5. CASE RenameSession
  <2>1. UNCHANGED <<tid, used>>
    BY <1>5 DEF RenameSession
  <2> QED
    BY <1>1, <1>5, <2>1, RenameSessionFacts
<1>6. CASE RollbackAttr
  <2>1. UNCHANGED <<tid, used>>
    BY <1>6 DEF RollbackAttr
  <2> QED
    BY <1>1, <1>6, <2>1, RollbackAttrFacts
<1>7. ASSUME NEW t \in Tables, CommitSwitch(t) PROVE IdsInv'
  BY <1>2, <1>7 DEF CommitSwitch
<1>8. CASE GetNewTransaction
  <2>1. hd' = hd /\ used \subseteq used' /\ tid' \in used'
    BY <1>8 DEF GetNewTransaction, disk
  <2> QED
    BY <1>1, <2>1
<1> QED
  BY <1>2, <1>3, <1>4, <1>5, <1>6, <1>7, <1>8, SharedOpen, Zenon
  DEF Next, vars, disk, AddTableWR, StartLoad, LoaderOpen, LoaderAppend,
      LoaderNoInput, LoaderError, KillLoader, FinishLoad, FailLoad, Commit,
      CommitSaveSession, StartSwitch, ReplaceTables, Rollback, RollbackTable, EndRollback,
      Crash

\* A column that loses its save session does not close its table.
LEMMA StillModified ==
    ASSUME CommitProtocolInv, RemoveOpposite \/ RollbackAttr
    PROVE  Modified' = Modified
<1>1. cur \in Modified /\ views'[cur] \in [Columns -> Attr]
      /\ \A u \in Tables : u # cur => views'[u] = views[u]
  BY RemoveOppositeFacts, RollbackAttrFacts
<1>2. views'[cur] # NoTable
  BY <1>1, NoTableAssumption DEF Columns, Attr
<1> QED
  BY <1>1, <1>2 DEF Modified

\* What the thread's position says about its other variables stays true.
LEMMA ControlStep == ASSUME CommitProtocolInv, TypeOK', [Next]_vars PROVE ControlInv'
<1>0. TypeOK /\ ControlInv
  BY DEF CommitProtocolInv
<1>1. ASSUME UNCHANGED <<views, work, pc, todo, cur, res>>, tid' = tid \/ tid' # Invalid,
             lst' = "none" <=> lst = "none", nrec' <= MaxBatch, loads' = loads
      PROVE  ControlInv'
  BY <1>0, <1>1 DEF ControlInv, Modified
<1>2. ASSUME EndTransaction, lst' = "none", nrec' <= MaxBatch, loads' <= MaxLoads
      PROVE  ControlInv'
  <2>1. Modified' = {}
    BY <1>2 DEF EndTransaction, Modified
  <2> QED
    BY <1>2, <2>1, NoTableAssumption DEF ControlInv, EndTransaction
<1>3. ASSUME StartRollback, UNCHANGED <<tid, work>>, Modified' = Modified, tid # Invalid,
             lst' = "none", nrec' <= MaxBatch, loads' = loads
      PROVE  ControlInv'
  BY <1>0, <1>3, NoTableAssumption DEF ControlInv, StartRollback, Modified
<1>4. nrec <= MaxBatch /\ loads <= MaxLoads /\ 0 <= MaxBatch
  BY <1>0, BoundsAssumption DEF ControlInv
<1>5. CASE GetNewTransaction
  BY <1>1, <1>4, <1>5, InvalidAssumption DEF GetNewTransaction, ctl, loader
<1>6. ASSUME NEW t \in Tables, GetTableShared(t) PROVE ControlInv'
  BY <1>1, <1>4, <1>6, SharedOpen DEF ctl, loader
<1>7. ASSUME NEW t \in Tables, AddTableWR(t) PROVE ControlInv'
  <2>1. UNCHANGED <<tid, work, pc, todo, cur, res, lst, nrec, loads>> /\ pc = "idle" /\ tid # Invalid
    BY <1>7 DEF AddTableWR, ctl, loader
  <2>2. Modified \subseteq Modified' /\ \A u \in Tables : views'[u] = NoTable => views[u] = NoTable
    BY <1>0, <1>7, OpenType, NoTableAssumption, ZenonT(60) DEF AddTableWR, TypeOK, Modified, Attr, Columns
  <2> QED
    BY <1>0, <2>1, <2>2 DEF ControlInv
<1>8. ASSUME NEW t \in Tables, StartLoad(t) PROVE ControlInv'
  <2>1. /\ UNCHANGED <<tid, views, work, todo, res, nrec>> /\ pc = "idle" /\ t \in Modified
        /\ pc' = "load" /\ cur' = t /\ lst' = "start"
    BY <1>8 DEF StartLoad
  <2>2. loads' <= MaxLoads /\ loads' > 0
    BY <1>0, <1>8, BoundsAssumption DEF StartLoad, TypeOK
  <2> QED
    BY <1>0, <2>1, <2>2 DEF ControlInv, Modified
<1>9. CASE LoaderOpen \/ LoaderNoInput \/ LoaderError \/ KillLoader \/ LoaderSave
  BY <1>1, <1>4, <1>9
  DEF LoaderOpen, LoaderNoInput, LoaderError, KillLoader, LoaderSave, ctl
<1>10. CASE LoaderAppend
  <2>1. nrec' <= MaxBatch
    BY <1>10, BoundsAssumption DEF LoaderAppend
  <2> QED
    BY <1>1, <1>10, <2>1 DEF LoaderAppend, ctl
<1>11. CASE FinishLoad
  <2>1. cur \in Modified /\ cur \in Tables /\ pc = "load" /\ tid # Invalid
    BY <1>0, <1>11 DEF FinishLoad, ControlInv, Modified
  <2>2. OpenWrite(cur, tid) # NoTable
    BY <1>0, <2>1, OpenType, NoTableAssumption DEF Attr, Columns
  <2>3. \/ /\ views' = [views EXCEPT ![cur] = OpenWrite(cur, tid)]
           /\ work' = [work EXCEPT ![cur] = @ \o Batch(nrec, loads)]
        \/ views' = views /\ work' = work
    BY <1>11 DEF FinishLoad
  <2>4. /\ views'[cur] # NoTable
        /\ \A t \in Tables : t # cur => views'[t] = views[t] /\ work'[t] = work[t]
    BY <1>0, <2>1, <2>2, <2>3 DEF TypeOK, Modified
  <2>5. Modified' = Modified /\ \A t \in Tables : views'[t] = NoTable => work'[t] = << >>
    BY <1>0, <2>1, <2>4 DEF Modified, ControlInv
  <2>6. /\ pc' = "idle" /\ UNCHANGED <<tid, todo, res>> /\ lst' = "none"
        /\ nrec' <= MaxBatch /\ loads' <= MaxLoads
    BY <1>4, <1>11 DEF FinishLoad, LoaderGone
  <2> QED
    BY <1>0, <2>1, <2>5, <2>6 DEF ControlInv
<1>12. CASE FailLoad \/ Rollback
  <2>1. tid # Invalid /\ lst' = "none"
    BY <1>0, <1>12 DEF FailLoad, Rollback, LoaderGone, loader, ControlInv
  <2> QED
    BY <1>3, <1>4, <1>12, <2>1 DEF FailLoad, Rollback, LoaderGone, loader, Modified
<1>13. CASE Commit
  <2>1. tid # Invalid /\ lst = "none" /\ pc = "idle" /\ UNCHANGED <<tid, views, work, lst, nrec, loads>>
    BY <1>0, <1>13 DEF Commit, loader, ControlInv
  <2>2. CASE StartRollback
    BY <1>3, <1>4, <2>1, <2>2 DEF Modified
  <2>3. CASE pc' = "save" /\ UNCHANGED <<cur, att, res>> /\ todo' = Modified
    BY <1>0, <2>1, <2>3 DEF ControlInv, Modified
  <2> QED
    BY <1>13, <2>2, <2>3 DEF Commit
<1>14. ASSUME NEW t \in Tables, CommitSaveSession(t) PROVE ControlInv'
  <2>1. /\ UNCHANGED <<tid, views, work, res, lst, nrec, loads>> /\ pc = "save" /\ t \in todo
        /\ \/ pc' = pc /\ todo' = todo \ {t}
           \/ pc' = "remove" /\ todo' = todo /\ cur' = t
    BY <1>14 DEF CommitSaveSession, loader
  <2> QED
    BY <1>0, <2>1 DEF ControlInv, Modified
<1>15. CASE RemoveOpposite
  <2>1. /\ UNCHANGED <<tid, work, lst, nrec, loads>> /\ pc = "remove" /\ tid # Invalid
        /\ lst = "none" /\ Modified' = Modified
    BY <1>0, <1>15, StillModified DEF RemoveOpposite, loader, ControlInv
  <2>2. CASE StartRollback
    BY <1>3, <1>4, <2>1, <2>2
  <2>3. CASE pc' = "rename" /\ UNCHANGED <<todo, cur, att, res>>
    <3>1. \A t \in Tables : views'[t] = NoTable => work'[t] = << >>
      BY <1>0, <2>1 DEF Modified, ControlInv
    <3> QED
      BY <1>0, <2>1, <2>3, <3>1 DEF ControlInv
  <2> QED
    BY <1>15, <2>2, <2>3 DEF RemoveOpposite
<1>16. CASE RenameSession
  <2>1. /\ UNCHANGED <<tid, views, work, lst, nrec, loads>> /\ pc = "rename" /\ tid # Invalid
        /\ lst = "none" /\ Modified' = Modified /\ cur \in Modified /\ cur \in Tables
    BY <1>0, <1>16 DEF RenameSession, loader, ControlInv, Modified
  <2>2. CASE StartRollback
    BY <1>3, <1>4, <2>1, <2>2
  <2>3. CASE pc' = "remove" /\ UNCHANGED <<todo, cur, res>>
    BY <1>0, <2>1, <2>3 DEF ControlInv
  <2>4. CASE /\ pc' = "save" /\ todo' = todo \ {cur} /\ cur' = NoTable
             /\ res' = [res EXCEPT ![cur] = tid]
    <3>1. \A t \in Tables : t # cur => res'[t] = res[t]
      BY <1>0, <2>1, <2>4 DEF TypeOK
    <3>2. \A t \in Tables : res'[t] # Invalid => t \in Modified \ todo'
      BY <1>0, <2>1, <2>4, <3>1 DEF ControlInv
    <3> QED
      BY <1>0, <2>1, <2>4, <3>2 DEF ControlInv
  <2> QED
    BY <1>16, <2>2, <2>3, <2>4 DEF RenameSession
<1>17. CASE StartSwitch
  <2>1. /\ UNCHANGED <<tid, views, work, cur, res, lst, nrec, loads>> /\ pc = "save"
        /\ pc' = "switch" /\ todo' = Modified
    BY <1>17 DEF StartSwitch, loader
  <2> QED
    BY <1>0, <2>1 DEF ControlInv, Modified
<1>18. ASSUME NEW t \in Tables, CommitSwitch(t) PROVE ControlInv'
  <2>1. /\ UNCHANGED <<tid, views, lst, nrec, loads>> /\ pc = "switch" /\ tid # Invalid
        /\ lst = "none" /\ Modified' = Modified
    BY <1>0, <1>18 DEF CommitSwitch, loader, ControlInv, Modified
  <2>2. CASE StartRollback /\ UNCHANGED <<sw, work>>
    BY <1>3, <1>4, <2>1, <2>2
  <2>3. CASE todo' = todo \ {t} /\ UNCHANGED <<pc, cur, att, res>>
    <3>1. \A u \in Tables : work[u] = << >> => work'[u] = << >>
      BY <1>0, <1>18 DEF CommitSwitch, TypeOK
    <3> QED
      BY <1>0, <2>1, <2>3, <3>1 DEF ControlInv
  <2> QED
    BY <1>18, <2>2, <2>3 DEF CommitSwitch
<1>19. CASE ReplaceTables \/ EndRollback \/ Crash
  <2>1. EndTransaction /\ lst' = "none" /\ nrec' <= MaxBatch /\ loads' <= MaxLoads
    BY <1>0, <1>4, <1>19 DEF ReplaceTables, EndRollback, Crash, LoaderGone, loader, ControlInv
  <2> QED
    BY <1>2, <2>1
<1>20. ASSUME NEW t \in Tables, RollbackTable(t) PROVE ControlInv'
  <2>1. /\ UNCHANGED <<tid, views, work, pc, todo, res, lst, nrec, loads>>
        /\ pc = "rollback" /\ t \in todo /\ cur' = t
    BY <1>20 DEF RollbackTable, loader
  <2> QED
    BY <1>0, <2>1 DEF ControlInv, Modified
<1>21. CASE RollbackAttr
  <2>1. /\ UNCHANGED <<tid, work, pc, res, lst, nrec, loads>> /\ pc = "rollback"
        /\ todo' \subseteq todo /\ (cur' # NoTable => cur' \in todo')
    BY <1>21, RollbackAttrFacts DEF RollbackAttr, loader
  <2>2. Modified' = Modified
    BY <1>21, StillModified
  <2>3. \A t \in Tables : views'[t] = NoTable => work'[t] = << >>
    BY <1>0, <2>1, <2>2 DEF Modified, ControlInv
  <2> QED
    BY <1>0, <2>1, <2>2, <2>3 DEF ControlInv
<1>22. CASE UNCHANGED vars
  BY <1>1, <1>4, <1>22 DEF vars
<1> QED
  BY <1>5, <1>6, <1>7, <1>8, <1>9, <1>10, <1>11, <1>12, <1>13, <1>14, <1>15, <1>16,
     <1>17, <1>18, <1>19, <1>20, <1>21, <1>22
  DEF Next

\* The pending rows depend on the selected headers and on the finished LOADs.
LEMMA SamePending ==
    ASSUME UNCHANGED <<sw, work>>, NEW t \in Tables, hd'[t][1][sw[t]] = hd[t][1][sw[t]]
    PROVE  Pending(t)' = Pending(t)
BY DEF Pending, Visible

\* Saving or committing header files changes no pending rows.
LEMMA FilesKeepPending ==
    ASSUME CommitProtocolInv, LoaderSave \/ RemoveOpposite \/ RenameSession
    PROVE  UNCHANGED <<sw, work, tid>> /\ \A t \in Tables : Pending(t)' = Pending(t)
<1>1. /\ UNCHANGED <<sw, work, tid>>
      /\ \A u \in Tables : hd'[u][1][sw[u]] = hd[u][1][sw[u]]
  BY SelectedUntouched, ColumnFacts
<1> QED
  BY <1>1, SamePending

\* The save sessions of the open transaction keep holding its finished LOADs.
LEMMA SessionStep == ASSUME CommitProtocolInv, [Next]_vars PROVE SessionInv'
<1>0. TypeOK /\ SessionInv /\ ControlInv /\ IdsInv /\ LoaderInv
  BY DEF CommitProtocolInv
<1>1. CASE UNCHANGED <<sw, hd, tid, work, pc, cur>>
  BY <1>0, <1>1, Zenon DEF SessionInv, OwnSession, Pending, Visible
<1>2. CASE pc' = "rollback" \/ tid' = Invalid
  BY <1>2, Zenon DEF SessionInv
<1>3. CASE UNCHANGED <<sw, hd, tid, work>> /\ pc \notin {"load", "rollback"}
  BY <1>0, <1>3, Zenon DEF SessionInv, OwnSession, Pending, Visible
<1>4. CASE GetNewTransaction
  <2>1. hd' = hd /\ tid' \notin used
    BY <1>4 DEF GetNewTransaction, disk
  <2> QED
    BY <1>0, <2>1 DEF SessionInv, OwnSession, IdsInv
<1>5. CASE LoaderSave
  <2>1. \A u \in Tables, d \in Columns : u # cur => hd'[u][d]["S"] = hd[u][d]["S"]
    BY <1>5, LoaderSaveFacts
  <2>2. UNCHANGED <<pc, cur>> /\ pc = "load"
    BY <1>5, LoaderSaveFacts, Zenon DEF LoaderSave, ctl
  <2> QED
    BY <1>0, <1>5, <2>1, <2>2, FilesKeepPending DEF SessionInv, OwnSession
<1>6. CASE FinishLoad
  <2>1. /\ hd' = hd /\ sw' = sw /\ tid' = tid /\ cur \in Tables
        /\ pc = "load" /\ lst = "done" /\ tid # Invalid
    BY <1>0, <1>6 DEF FinishLoad, disk, ControlInv, Modified
  <2>2. ASSUME NEW t \in Tables, t # cur PROVE Pending(t)' = Pending(t)
    BY <1>0, <1>6, <2>1, <2>2, Zenon DEF FinishLoad, Pending, Visible, TypeOK
  <2>3. ASSUME NEW t \in Tables, t = cur, NEW c \in Columns, OwnSession(t, c, tid)
        PROVE  hd[t][c]["S"].rows = Pending(t)'
    <3>1. CASE nrec > 0
      BY <1>0, <1>6, <2>1, <2>3, <3>1, FinishedLoad, ZenonT(60) DEF LoaderInv, SessionHolds
    <3>2. CASE nrec = 0
      <4>1. ~ nrec > 0
        BY <3>2
      <4>2. work' = work
        BY <1>6, <4>1 DEF FinishLoad
      <4>3. Pending(t)' = Pending(t)
        BY <2>1, <4>2 DEF Pending, Visible
      <4> QED
        BY <1>0, <2>1, <2>3, <3>2, <4>3 DEF LoaderInv
    <3> QED
      BY <1>0, <3>1, <3>2 DEF TypeOK
  <2>4. ASSUME NEW t \in Tables, NEW c \in Columns, OwnSession(t, c, tid)
        PROVE  hd[t][c]["S"].rows = Pending(t)'
    BY <1>0, <2>1, <2>2, <2>3, <2>4 DEF SessionInv
  <2> QED
    BY <2>1, <2>4 DEF SessionInv, OwnSession
<1>7. CASE RemoveOpposite
  <2>1. \A u \in Tables, d \in Columns : hd'[u][d]["S"] = hd[u][d]["S"]
    BY <1>7, RemoveOppositeFacts
  <2> QED
    BY <1>0, <1>7, <2>1, FilesKeepPending DEF RemoveOpposite, SessionInv, OwnSession
<1>8. CASE RenameSession
  <2>1. \A u \in Tables, d \in Columns :
            hd'[u][d]["S"] = hd[u][d]["S"] \/ hd'[u][d]["S"].kind = "none"
    BY <1>8, RenameSessionFacts
  <2>2. pc = "rename" /\ UNCHANGED <<sw, work, tid>>
    BY <1>8 DEF RenameSession
  <2>3. \A t \in Tables : Pending(t)' = Pending(t)
    BY <1>8, FilesKeepPending
  <2> QED
    BY <1>0, <2>1, <2>2, <2>3 DEF SessionInv, OwnSession
<1>9. ASSUME NEW t \in Tables, CommitSwitch(t) PROVE SessionInv'
  <2>1. hd' = hd /\ tid' = tid /\ pc = "switch"
    BY <1>9 DEF CommitSwitch
  <2>2. \A u \in Tables : Pending(u)' = Pending(u)
    BY <1>9, SwitchKeepsPending
  <2> QED
    BY <1>0, <2>1, <2>2 DEF SessionInv, OwnSession
<1> QED
  BY <1>1, <1>2, <1>3, <1>4, <1>5, <1>6, <1>7, <1>8, <1>9, SharedOpen, Zenon
  DEF Next, vars, disk, ctl, StartRollback, EndTransaction, AddTableWR, StartLoad,
      LoaderOpen, LoaderAppend, LoaderNoInput, LoaderError, KillLoader, FailLoad, Commit,
      CommitSaveSession, StartSwitch, ReplaceTables, Rollback, RollbackTable, RollbackAttr,
      EndRollback, Crash

\* The transaction's table objects stay in step with its save sessions.
LEMMA ViewStep == ASSUME CommitProtocolInv, [Next]_vars PROVE ViewInv'
<1>0. TypeOK /\ ViewInv /\ ControlInv /\ LoaderInv
  BY DEF CommitProtocolInv
<1> DEFINE Good(t) == Untouched(t) \/ (Refreshed(t) /\ \A c \in Columns : OwnSession(t, c, tid))
<1>1. CASE UNCHANGED <<hd, tid, views, work, pc, todo, cur>>
  BY <1>0, <1>1 DEF ViewInv, Untouched, Refreshed, OwnSession, Modified
<1>2. CASE pc' \in {"switch", "rollback"}
  BY <1>2 DEF ViewInv
<1>3. CASE EndTransaction
  BY <1>3 DEF ViewInv, EndTransaction, Modified
<1>4. ASSUME UNCHANGED <<hd, tid, views, work>>, pc \in {"idle", "save"}, pc = "save" => todo' \subseteq todo,
             \/ pc' = "load" /\ pc = "idle" /\ cur' \in Modified
             \/ pc' = "save"
             \/ pc' = "remove" /\ pc = "save"
      PROVE  ViewInv'
  <2>1. \A t \in Modified : Good(t)' = Good(t) /\ Untouched(t)' = Untouched(t) /\ Refreshed(t)' = Refreshed(t)
    BY <1>4 DEF Untouched, Refreshed, OwnSession
  <2>2. Modified' = Modified
    BY <1>4 DEF Modified
  <2>3. \A t \in Modified : (pc = "save" => t \in todo) => Good(t)
    BY <1>0, <1>4 DEF ViewInv
  <2> HIDE DEF Good
  <2>4. \A t \in Modified : (pc = "save" => t \in todo) => Good(t)'
    BY <2>1, <2>3
  <2> QED
    BY <1>4, <2>1, <2>2, <2>3, <2>4 DEF ViewInv, Good
<1>5. ASSUME NEW t \in Tables, AddTableWR(t) PROVE ViewInv'
  <2>1. /\ pc = "idle" /\ pc' = pc /\ hd' = hd /\ tid' = tid /\ work' = work
        /\ views[t] = NoTable /\ views' = [views EXCEPT ![t] = OpenRead(t)]
    BY <1>5 DEF AddTableWR, disk, ctl
  <2>2. /\ views'[t] = OpenRead(t)
        /\ \A u \in Tables : u # t => views'[u] = views[u]
        /\ work[t] = << >>
    BY <1>0, <2>1 DEF TypeOK, ControlInv
  <2>3. \A c \in Columns : views'[t][c].ssid = Invalid
    BY <2>2 DEF OpenRead
  <2> QED
    BY <1>0, <2>1, <2>2, <2>3 DEF ViewInv, Untouched, Refreshed, OwnSession, Modified
<1>6. CASE LoaderSave
  <2>1. \A u \in Tables, d \in Columns : u # cur => hd'[u][d]["S"] = hd[u][d]["S"]
    BY <1>6, LoaderSaveFacts
  <2>2. UNCHANGED <<tid, views, work, pc, todo, cur>> /\ pc = "load"
    BY <1>6, LoaderSaveFacts DEF LoaderSave, ctl
  <2> QED
    BY <1>0, <2>1, <2>2 DEF ViewInv, Untouched, Refreshed, OwnSession, Modified
<1>7. CASE FinishLoad
  <2>1. /\ hd' = hd /\ sw' = sw /\ tid' = tid /\ cur \in Tables
        /\ pc = "load" /\ lst = "done" /\ pc' = "idle"
    BY <1>0, <1>7 DEF FinishLoad, disk, ControlInv, Modified
  <2>2. ASSUME NEW t \in Tables, t # cur PROVE views'[t] = views[t] /\ work'[t] = work[t]
    BY <1>0, <1>7, <2>1, <2>2 DEF FinishLoad, TypeOK
  <2>3. ASSUME NEW t \in Tables, t = cur
        PROVE  Untouched(t)' \/ (Refreshed(t)' /\ \A c \in Columns : OwnSession(t, c, tid))
    <3>1. CASE nrec > 0
      <4>1. \A c \in Columns : OwnSession(cur, c, tid)
        BY <1>0, <2>1, <3>1, Zenon DEF LoaderInv, SessionHolds
      <4>2. views'[cur] = OpenWrite(cur, tid)
        BY <1>0, <1>7, <2>1, <3>1 DEF FinishLoad, TypeOK
      <4>3. \A c \in Columns : views'[t][c].ssid = tid
        BY <2>3, <4>2 DEF OpenWrite
      <4> QED
        BY <2>1, <2>3, <4>1, <4>3 DEF Refreshed
    <3>2. CASE ~ nrec > 0
      <4>1. views' = views /\ work' = work
        BY <1>7, <3>2 DEF FinishLoad
      <4> QED
        BY <1>0, <2>1, <2>3, <4>1, Zenon DEF ViewInv, LoaderInv, Untouched, Refreshed
    <3> QED
      BY <3>1, <3>2
  <2>4. ASSUME NEW t \in Tables, views'[t] # NoTable
        PROVE  Untouched(t)' \/ (Refreshed(t)' /\ \A c \in Columns : OwnSession(t, c, tid))
    BY <1>0, <2>1, <2>2, <2>3, <2>4, ZenonT(60) DEF ViewInv, Untouched, Refreshed, Modified
  <2> QED
    BY <2>1, <2>4 DEF ViewInv, OwnSession, Modified
<1>8. CASE RemoveOpposite
  <2>1. /\ \A u \in Tables, d \in Columns : hd'[u][d]["S"] = hd[u][d]["S"]
        /\ \A u \in Tables : u # cur => views'[u] = views[u]
    BY <1>8, RemoveOppositeFacts
  <2>2. /\ UNCHANGED <<tid, work>> /\ pc = "remove" /\ Modified' = Modified
        /\ \/ pc' = "rename" /\ UNCHANGED <<todo, cur>>
           \/ pc' = "rollback"
    BY <1>8, StillModified DEF RemoveOpposite, StartRollback
  <2>3. ASSUME NEW t \in Modified, t \in todo, t # cur PROVE Good(t)'
    BY <1>0, <2>1, <2>2, <2>3 DEF ViewInv, Untouched, Refreshed, OwnSession, Modified
  <2> QED
    BY <2>2, <2>3 DEF ViewInv
<1>9. CASE RenameSession
  <2>1. \A u \in Tables, d \in Columns : u # cur => hd'[u][d]["S"] = hd[u][d]["S"]
    BY <1>9, RenameSessionFacts
  <2>2. UNCHANGED <<tid, views, work>> /\ pc = "rename"
    BY <1>9 DEF RenameSession
  <2>3. \/ pc' = "rollback"
        \/ pc' = "remove" /\ todo' = todo /\ cur' = cur
        \/ pc' = "save" /\ todo' = todo \ {cur}
    BY <1>9 DEF RenameSession, StartRollback
  <2>4. ASSUME NEW t \in Modified, t \in todo, t # cur PROVE Good(t)'
    BY <1>0, <2>1, <2>2, <2>4 DEF ViewInv, Untouched, Refreshed, OwnSession, Modified
  <2> QED
    BY <2>2, <2>3, <2>4 DEF ViewInv, Modified
<1>10. ASSUME NEW t \in Tables, StartLoad(t) PROVE ViewInv'
  BY <1>4, <1>10 DEF StartLoad, disk
<1>11. CASE Commit
  <2>1. \/ pc' = "rollback"
        \/ pc = "idle" /\ pc' = "save" /\ UNCHANGED <<hd, tid, views, work>>
    BY <1>11 DEF Commit, StartRollback, disk
  <2> QED
    BY <1>2, <1>4, <2>1
<1>12. ASSUME NEW t \in Tables, CommitSaveSession(t) PROVE ViewInv'
  <2>1. /\ UNCHANGED <<hd, tid, views, work>> /\ pc = "save" /\ todo' \subseteq todo
        /\ pc' = "save" \/ pc' = "remove"
    BY <1>12 DEF CommitSaveSession, disk
  <2> QED
    BY <1>4, <2>1
<1>13. ASSUME NEW t \in Tables, CommitSwitch(t) PROVE ViewInv'
  BY <1>2, <1>13 DEF CommitSwitch, StartRollback
<1>14. CASE RollbackAttr
  BY <1>2, <1>14 DEF RollbackAttr
<1>15. CASE GetNewTransaction
  <2>1. tid = Invalid /\ pc' = pc /\ views' = views
    BY <1>15 DEF GetNewTransaction, ctl
  <2>2. Modified' = {} /\ pc' = "idle"
    BY <1>0, <2>1 DEF ControlInv, Modified
  <2> QED
    BY <2>2 DEF ViewInv
<1> QED
  BY <1>1, <1>2, <1>3, <1>5, <1>6, <1>7, <1>8, <1>9, <1>10, <1>11, <1>12, <1>13, <1>14,
     <1>15, SharedOpen, ZenonT(60)
  DEF Next, vars, disk, ctl, StartRollback, LoaderOpen, LoaderAppend, LoaderNoInput,
      LoaderError, KillLoader, FailLoad, StartSwitch, ReplaceTables, Rollback,
      RollbackTable, EndRollback, Crash

\* The loader's rows and the TS files it has written stay in step.
LEMMA LoaderStep == ASSUME CommitProtocolInv, [Next]_vars PROVE LoaderInv'
<1>0. TypeOK /\ ColumnsAgree /\ ControlInv /\ SessionInv /\ ViewInv /\ LoaderInv
  BY DEF CommitProtocolInv
<1>1. CASE UNCHANGED <<sw, hd, tid, views, work, pc, cur, lst, lrows, latt, nrec, loads>>
  BY <1>0, <1>1, ZenonT(60)
  DEF LoaderInv, Saved, Unsaved, SessionHolds, OwnSession, Refreshed, Pending, Visible
<1>2. CASE pc' # "load"
  BY <1>0, <1>2, Zenon DEF LoaderInv
<1>3. CASE lst' = "failed"
  BY <1>0, <1>3, Zenon DEF LoaderInv, Saved, Unsaved
<1>4. ASSUME NEW t \in Tables, StartLoad(t) PROVE LoaderInv'
  <2>1. /\ UNCHANGED <<sw, hd, tid, views, work>> /\ pc = "idle" /\ t \in Modified
        /\ pc' = "load" /\ lst' = "start" /\ cur' = t /\ tid # Invalid
    BY <1>0, <1>4, Zenon DEF StartLoad, disk, ControlInv
  <2>2. \A c \in Columns : OwnSession(t, c, tid) => hd[t][c]["S"].rows = Pending(t)
    BY <1>0, <2>1 DEF SessionInv
  <2>3. Refreshed(t) => \A c \in Columns : OwnSession(t, c, tid)
    BY <1>0, <2>1 DEF ViewInv, Refreshed, Untouched
  <2> QED
    BY <1>0, <2>1, <2>2, <2>3, Zenon
    DEF LoaderInv, Saved, Unsaved, SessionHolds, OwnSession, Refreshed, Pending,
        Visible
<1>5. CASE LoaderOpen
  <2>1. /\ UNCHANGED <<sw, hd, tid, views, work, pc, cur, loads>> /\ lst = "start"
        /\ pc = "load" /\ cur \in Tables
    BY <1>0, <1>5 DEF LoaderOpen, disk, ctl, ControlInv, Modified
  <2>2. CASE lst' = "failed"
    BY <1>0, <2>1, <2>2, Zenon DEF LoaderInv, Saved, Unsaved
  <2>3. CASE lst' = "opened" /\ lrows' = [c \in Columns |-> OpenWrite(cur, tid)[c].rows]
    <3>1. ASSUME NEW c \in Columns PROVE lrows'[c] = Pending(cur)
      <4>1. CASE OwnSession(cur, c, tid)
        BY <1>0, <2>1, <2>3, <4>1, ZenonT(60) DEF OpenWrite, LoaderInv, Unsaved
      <4>2. CASE ~ OwnSession(cur, c, tid)
        <5>1. work[cur] = << >>
          BY <1>0, <2>1, <4>2, Zenon DEF LoaderInv, Unsaved, ViewInv, Untouched
        <5>2. Pending(cur) = Visible(cur, 1)
          <6>1. Visible(cur, 1) \in Seq(Nat)
            BY <1>0, <2>1, PendingType
          <6> QED
            BY <5>1, <6>1, ConcatEmptySeq DEF Pending
        <5>3. Visible(cur, 1) = Visible(cur, c)
          BY <1>0, <2>1 DEF ColumnsAgree
        <5> QED
          BY <2>1, <2>3, <4>2, <5>2, <5>3 DEF OpenWrite
      <4> QED
        BY <4>1, <4>2
    <3> QED
      BY <1>0, <2>1, <2>3, <3>1, Zenon
      DEF LoaderInv, Saved, Unsaved, SessionHolds, OwnSession, Refreshed, Pending,
          Visible
  <2> QED
    BY <1>5, <2>2, <2>3 DEF LoaderOpen
<1>6. CASE LoaderAppend
  <2>1. /\ UNCHANGED <<sw, hd, tid, views, work, pc, cur, loads>> /\ lst = "opened"
        /\ lst' = "save" /\ latt' = 1
        /\ lrows' = [c \in Columns |-> lrows[c] \o Batch(nrec', loads)]
    BY <1>6 DEF LoaderAppend, disk, ctl
  <2>2. \A c \in Columns : c >= 1 /\ ~ (c < 1)
    BY DEF Columns
  <2> QED
    BY <1>0, <2>1, <2>2, Zenon
    DEF LoaderInv, Saved, Unsaved, SessionHolds, OwnSession, Refreshed, Pending,
        Visible
<1>7. CASE LoaderNoInput
  <2>1. /\ UNCHANGED <<sw, hd, tid, views, work, pc, cur, loads>> /\ lst = "opened"
        /\ lst' = "done" /\ nrec' = 0
    BY <1>7 DEF LoaderNoInput, disk, ctl
  <2>2. \A c \in Columns : ~ Saved(c)' /\ ~ Unsaved(c)' /\ Unsaved(c)
    BY <2>1 DEF Saved, Unsaved
  <2>3. ~ nrec' > 0
    BY <2>1
  <2> QED
    BY <1>0, <2>1, <2>2, <2>3, Zenon
    DEF LoaderInv, SessionHolds, OwnSession, Refreshed, Pending, Visible
<1>8. CASE LoaderSave
  <2>1. /\ UNCHANGED <<sw, tid, views, work, pc, cur, lrows, nrec, loads>>
        /\ pc = "load" /\ cur \in Tables /\ latt \in Columns /\ sw[cur] \in {"A", "B"}
    BY <1>0, <1>8, LoaderSaveFacts, Zenon DEF LoaderSave, ctl, Modified, TypeOK
  <2>2. \A d \in Columns : d # latt => hd'[cur][d]["S"] = hd[cur][d]["S"]
    BY <1>8, <2>1, LoaderSaveFacts
  <2>3. hd'[cur][1][sw[cur]] = hd[cur][1][sw[cur]]
    BY <1>8, <2>1, LoaderSaveFacts, ColumnFacts
  <2>4. Pending(cur)' = Pending(cur) /\ Refreshed(cur)' = Refreshed(cur)
    BY <2>1, <2>3 DEF Pending, Visible, Refreshed
  <2>5. CASE lst \in {"save", "saveEmpty"}
    <3>1. lst' \in {"saveEmpty", "savePartial"} /\ latt' = latt
      BY <1>8, <2>5 DEF LoaderSave
    <3>2. \A d \in Columns : d < latt \/ d > latt => d # latt
      BY DEF Columns
    <3>3. \A d \in Columns : d > latt => d >= latt
      BY <2>1 DEF Columns
    <3> QED
      BY <1>0, <2>1, <2>2, <2>4, <2>5, <3>1, <3>2, <3>3, ZenonT(60)
      DEF LoaderInv, Saved, Unsaved, SessionHolds, OwnSession
  <2>6. CASE lst = "savePartial"
    <3> DEFINE all == Pending(cur) \o Batch(nrec, loads)
    <3>1. hd'[cur][latt]["S"] = FullHeader(lrows[latt], tid) /\ lrows[latt] = all
      BY <1>0, <1>8, <2>1, <2>6, LoaderSaveFacts, Zenon DEF LoaderInv
    <3>2. \A d \in Columns : d < latt \/ d = latt => SessionHolds(cur, d, all)'
      <4>1. \A d \in Columns : d < latt => SessionHolds(cur, d, all)
        BY <1>0, <2>1, <2>6, Zenon DEF LoaderInv, Saved
      <4>2. all' = all
        BY <2>1, <2>4
      <4>3. \A d \in Columns : d < latt => d # latt
        BY <2>1 DEF Columns
      <4> HIDE DEF all
      <4> QED
        BY <2>1, <2>2, <3>1, <4>1, <4>2, <4>3 DEF SessionHolds, OwnSession, FullHeader
    <3>3. CASE latt = NoAttr
      <4>1. lst' = "done"
        BY <1>8, <2>6, <3>3 DEF LoaderSave
      <4>2. \A d \in Columns : d < latt \/ d = latt
        BY <3>3 DEF Columns
      <4>3. nrec = 0 => all = Pending(cur)
        <5>1. Pending(cur) \in Seq(Nat)
          BY <1>0, <2>1, PendingType
        <5>2. nrec = 0 => Batch(nrec, loads) = << >>
          BY <1>0, EmptyBatch DEF TypeOK
        <5> QED
          BY <5>1, <5>2, ConcatEmptySeq
      <4>4. all' = all
        BY <2>1, <2>4
      <4> HIDE DEF all
      <4>5. \A d \in Columns : SessionHolds(cur, d, all)'
        BY <3>2, <4>2
      <4> QED
        BY <1>0, <2>1, <2>4, <4>1, <4>3, <4>4, <4>5, Zenon
        DEF LoaderInv, Saved, Unsaved, SessionHolds, all
    <3>4. CASE latt # NoAttr
      <4>1. lst' = "save" /\ latt' = latt + 1
        BY <1>8, <2>6, <3>4 DEF LoaderSave
      <4>2. \A d \in Columns : /\ d < latt + 1 => d < latt \/ d = latt
                               /\ d >= latt + 1 => d > latt /\ d # latt
        BY <2>1 DEF Columns
      <4>3. \A d \in Columns : lrows'[d] = all'
        BY <1>0, <2>1, <2>4, <2>6, Zenon DEF LoaderInv
      <4>4. \A d \in Columns : Saved(d)' => SessionHolds(cur, d, all)'
        BY <3>2, <4>1, <4>2 DEF Saved
      <4>5. \A d \in Columns : Unsaved(d)' => Unsaved(d) /\ d # latt
        BY <2>6, <4>1, <4>2 DEF Unsaved
      <4>6. ASSUME NEW d \in Columns, Unsaved(d)'
            PROVE  /\ OwnSession(cur, d, tid)' => hd'[cur][d]["S"].rows = Pending(cur)'
                   /\ Refreshed(cur)' => OwnSession(cur, d, tid)'
        BY <1>0, <2>1, <2>2, <2>4, <4>5, <4>6, ZenonT(60) DEF LoaderInv, OwnSession
      <4> HIDE DEF all
      <4> QED
        BY <1>0, <2>1, <4>1, <4>3, <4>4, <4>6, Zenon DEF LoaderInv, all
    <3> QED
      BY <3>3, <3>4
  <2> QED
    BY <1>8, <2>5, <2>6 DEF LoaderSave
<1>9. ASSUME NEW t \in Tables, AddTableWR(t) \/ CommitSaveSession(t) \/ CommitSwitch(t) \/ RollbackTable(t)
      PROVE  LoaderInv'
  BY <1>2, <1>9
  DEF AddTableWR, CommitSaveSession, CommitSwitch, RollbackTable, StartRollback, ctl
<1>10. CASE GetNewTransaction
  <2>1. pc' # "load"
    BY <1>0, <1>10, Zenon DEF GetNewTransaction, ctl, ControlInv
  <2> QED
    BY <1>2, <2>1
<1> QED
  BY <1>1, <1>2, <1>3, <1>4, <1>5, <1>6, <1>7, <1>8, <1>9, <1>10, SharedOpen, ZenonT(60)
  DEF Next, vars, ctl, loader, disk, StartRollback, EndTransaction, LoaderError, KillLoader,
      FinishLoad, FailLoad, Commit, RemoveOpposite, RenameSession, StartSwitch,
      ReplaceTables, Rollback, RollbackAttr, EndRollback, Crash

\* The headers renamed so far, and those still to be renamed, hold the pending
\* rows.
LEMMA CommitStep == ASSUME CommitProtocolInv, [Next]_vars PROVE CommitInv'
<1>0. TypeOK /\ ControlInv /\ SessionInv /\ ViewInv /\ CommitInv
  BY DEF CommitProtocolInv
<1>1. CASE UNCHANGED <<sw, hd, tid, views, work, pc, todo, cur, att, res>>
  BY <1>0, <1>1, Zenon
  DEF CommitInv, SessionHolds, OppositeHolds, OwnSession, Pending, Visible, Modified
<1>2. CASE pc' \in {"idle", "load", "rollback"}
  BY <1>0, <1>2, Zenon DEF CommitInv
<1>3. CASE Commit
  <2>1. \/ pc' = "rollback"
        \/ pc' = "save" /\ views' = views /\ todo' = Modified
    BY <1>3 DEF Commit, StartRollback
  <2> QED
    BY <1>0, <1>2, <2>1, Zenon DEF CommitInv, Modified
<1>4. ASSUME NEW t \in Tables, CommitSaveSession(t) PROVE CommitInv'
  <2>1. /\ UNCHANGED <<sw, hd, tid, views, work, res>> /\ pc = "save" /\ t \in todo /\ t \in Modified
        /\ tid # Invalid /\ res[t] = Invalid
    BY <1>0, <1>4, Zenon DEF CommitSaveSession, disk, ControlInv
  <2>2. CASE \E c \in Columns : views[t][c].ssid # tid
    <3>1. work[t] = << >>
      BY <1>0, <2>1, <2>2, Zenon DEF ViewInv, Untouched, Refreshed
    <3>2. pc' = pc /\ todo' = todo \ {t}
      BY <1>4, <2>2 DEF CommitSaveSession
    <3> QED
      BY <1>0, <2>1, <3>1, <3>2, ZenonT(60) DEF CommitInv, OppositeHolds, Pending, Visible, Modified
  <2>3. CASE ~ \E c \in Columns : views[t][c].ssid # tid
    <3>1. \A c \in Columns : SessionHolds(t, c, Pending(t))
      BY <1>0, <2>1, <2>3, Zenon DEF ViewInv, Untouched, Refreshed, SessionInv, SessionHolds
    <3>2. pc' = "remove" /\ todo' = todo /\ cur' = t /\ att' = 1
      BY <1>4, <2>3 DEF CommitSaveSession
    <3>3. \A c \in Columns : ~ (c < 1)
      BY DEF Columns
    <3> QED
      BY <1>0, <2>1, <3>1, <3>2, <3>3, Zenon
      DEF CommitInv, SessionHolds, OppositeHolds, Pending, Visible, OwnSession,
          Modified
  <2> QED
    BY <2>2, <2>3
<1>5. CASE RemoveOpposite
  <2>1. UNCHANGED <<sw, work, tid>> /\ \A u \in Tables : sw[u] \in {"A", "B"}
    BY <1>0, <1>5 DEF RemoveOpposite, TypeOK
  <2>3. \A u \in Tables : Pending(u)' = Pending(u)
    BY <1>5, FilesKeepPending
  <2>4. /\ cur \in Modified /\ cur \in todo /\ cur \in Tables /\ att \in Columns /\ pc = "remove"
        /\ Other(sw[cur]) \in {"A", "B"}
    BY <1>5, RemoveOppositeFacts DEF RemoveOpposite, Modified
  <2>5. \A d \in Columns : hd'[cur][d]["S"] = hd[cur][d]["S"]
    BY <1>5, <2>4, RemoveOppositeFacts
  <2>6. \A d \in Columns : d < att => hd'[cur][d][Other(sw[cur])] = hd[cur][d][Other(sw[cur])]
    <3>1. \A d \in Columns : d < att => d # att
      BY <2>4, ColumnFacts
    <3> QED
      BY <1>5, <2>4, <3>1, RemoveOppositeFacts
  <2>7. \A u \in Tables, d \in Columns :
            u # cur => hd'[u][d][Other(sw[u])] = hd[u][d][Other(sw[u])]
    BY <1>5, <2>1, RemoveOppositeFacts DEF Other
  <2>8. CASE pc' = "rollback"
    BY <1>0, <2>8 DEF CommitInv
  <2>9. CASE pc' = "rename" /\ UNCHANGED <<todo, cur, att, res>>
    <3>1. Modified' = Modified
      BY <1>5, <2>4, RemoveOppositeFacts, NoTableAssumption, Zenon DEF Modified, Attr, Columns
    <3>2. ASSUME NEW c \in Columns
          PROVE  /\ c < att => OppositeHolds(cur, c, Pending(cur))'
                 /\ c >= att => SessionHolds(cur, c, Pending(cur))'
      BY <1>0, <2>1, <2>3, <2>4, <2>5, <2>6, <2>9, Zenon
      DEF CommitInv, OppositeHolds, SessionHolds, OwnSession
    <3>3. ASSUME NEW u \in Modified \ todo
          PROVE  \/ res[u] # Invalid /\ \A c \in Columns : OppositeHolds(u, c, Pending(u))'
                 \/ res[u] = Invalid /\ work[u] = << >>
      BY <1>0, <2>1, <2>3, <2>4, <2>7, Zenon DEF CommitInv, OppositeHolds, Modified
    <3> QED
      BY <1>0, <2>1, <2>9, <3>1, <3>2, <3>3, Zenon DEF CommitInv
  <2> QED
    BY <1>5, <2>8, <2>9 DEF RemoveOpposite, StartRollback
<1>6. CASE RenameSession
  <2>1. UNCHANGED <<sw, work, tid>> /\ \A u \in Tables : sw[u] \in {"A", "B"}
    BY <1>0, <1>6, Zenon DEF RenameSession, TypeOK
  <2>3. \A u \in Tables : Pending(u)' = Pending(u)
    BY <1>6, FilesKeepPending
  <2>4. /\ cur \in Modified /\ cur \in todo /\ cur \in Tables /\ att \in Columns /\ pc = "rename"
        /\ Other(sw[cur]) \in {"A", "B"} /\ views' = views /\ tid # Invalid
    BY <1>0, <1>6, RenameSessionFacts, ZenonT(60) DEF RenameSession, Modified, ControlInv
  <2>5. \A d \in Columns : d # att =>
            /\ hd'[cur][d]["S"] = hd[cur][d]["S"]
            /\ hd'[cur][d][Other(sw[cur])] = hd[cur][d][Other(sw[cur])]
    BY <1>6, <2>4, RenameSessionFacts
  <2>6. \A u \in Tables, d \in Columns :
            u # cur => hd'[u][d][Other(sw[u])] = hd[u][d][Other(sw[u])]
    BY <1>6, <2>1, RenameSessionFacts DEF Other
  <2>7. CASE pc' = "rollback"
    BY <1>0, <2>7 DEF CommitInv
  <2>8. CASE pc' # "rollback"
    <3>1. hd'[cur][att][Other(sw[cur])] = hd[cur][att]["S"]
      BY <1>6, <2>8, RenameSessionFacts DEF StartRollback
    <3>2. SessionHolds(cur, att, Pending(cur))
      BY <1>0, <2>4 DEF CommitInv, Columns
    <3>3. \A c \in Columns : c < att => c # att
      BY <2>4 DEF Columns
    <3>4. ASSUME NEW u \in Tables, u = cur, NEW c \in Columns, c < att \/ c = att
          PROVE  OppositeHolds(u, c, Pending(u))'
      BY <1>0, <2>1, <2>3, <2>4, <2>5, <3>1, <3>2, <3>3, <3>4, Zenon
      DEF CommitInv, OppositeHolds, SessionHolds, OwnSession
    <3>5. ASSUME NEW u \in Modified \ todo
          PROVE  \/ res[u] # Invalid /\ \A c \in Columns : OppositeHolds(u, c, Pending(u))'
                 \/ res[u] = Invalid /\ work[u] = << >>
      BY <1>0, <2>1, <2>3, <2>4, <2>6, Zenon DEF CommitInv, OppositeHolds, Modified
    <3>6. CASE pc' = "remove" /\ att' = att + 1 /\ UNCHANGED <<todo, cur, res>>
      <4>1. \A c \in Columns : /\ c < att + 1 => c < att \/ c = att
                               /\ c >= att + 1 => c >= att /\ c # att
        BY <2>4 DEF Columns
      <4>2. ASSUME NEW c \in Columns, c >= att + 1 PROVE SessionHolds(cur, c, Pending(cur))'
        BY <1>0, <2>1, <2>3, <2>4, <2>5, <3>6, <4>1, <4>2, Zenon
        DEF CommitInv, SessionHolds, OwnSession
      <4>3. ASSUME NEW c \in Columns, c < att + 1 PROVE OppositeHolds(cur, c, Pending(cur))'
        BY <2>4, <3>4, <3>6, <4>1, <4>3
      <4> QED
        BY <1>0, <2>1, <2>4, <3>5, <3>6, <4>2, <4>3, Zenon DEF CommitInv, Modified
    <3>7. CASE /\ att = NoAttr /\ pc' = "save" /\ todo' = todo \ {cur}
               /\ res' = [res EXCEPT ![cur] = tid]
      <4>1. \A c \in Columns : c < att \/ c = att
        BY <3>7 DEF Columns
      <4>2. res'[cur] = tid /\ \A u \in Tables : u # cur => res'[u] = res[u]
        BY <1>0, <2>4, <3>7 DEF TypeOK
      <4>3. ASSUME NEW u \in Tables, u = cur PROVE \A c \in Columns : OppositeHolds(u, c, Pending(u))'
        BY <3>4, <4>1, <4>3
      <4> QED
        BY <1>0, <2>1, <2>4, <3>5, <3>7, <4>2, <4>3, Zenon DEF CommitInv, Modified
    <3> QED
      BY <1>6, <2>4, <2>8, <3>6, <3>7 DEF RenameSession, StartRollback, Columns
  <2> QED
    BY <2>7, <2>8
<1>7. CASE StartSwitch
  <2>1. /\ UNCHANGED <<sw, hd, tid, views, work, res>> /\ pc = "save" /\ todo = {}
        /\ pc' = "switch" /\ todo' = Modified
    BY <1>7 DEF StartSwitch, disk
  <2> QED
    BY <1>0, <2>1, Zenon DEF CommitInv, OppositeHolds, Pending, Visible, Modified
<1>8. ASSUME NEW t \in Tables, CommitSwitch(t) PROVE CommitInv'
  <2>1. /\ UNCHANGED <<hd, views>> /\ pc = "switch" /\ t \in todo /\ todo \subseteq Tables
        /\ \A u \in Tables : Pending(u)' = Pending(u)
    BY <1>0, <1>8, SwitchKeepsPending, Zenon DEF CommitSwitch, ControlInv, Modified
  <2>2. CASE pc' = "rollback"
    BY <1>0, <2>2, Zenon DEF CommitInv
  <2>3. CASE UNCHANGED <<pc, res>> /\ todo' = todo \ {t}
    <3>1. \A u \in Tables : u # t => sw'[u] = sw[u] /\ work'[u] = work[u]
      BY <1>0, <1>8 DEF CommitSwitch, TypeOK
    <3> QED
      BY <1>0, <2>1, <2>3, <3>1, ZenonT(60) DEF CommitInv, OppositeHolds
  <2> QED
    BY <1>8, <2>2, <2>3 DEF CommitSwitch, StartRollback
<1>9. CASE GetNewTransaction
  <2>1. pc' = "idle"
    BY <1>0, <1>9, Zenon DEF GetNewTransaction, ctl, ControlInv
  <2> QED
    BY <1>2, <2>1
<1>10. CASE LoaderOpen \/ LoaderAppend \/ LoaderNoInput \/ LoaderError \/ LoaderSave \/ KillLoader
  <2>1. pc' = "load"
    BY <1>0, <1>10, Zenon
    DEF LoaderOpen, LoaderAppend, LoaderNoInput, LoaderError, LoaderSave, KillLoader, ctl,
        ControlInv
  <2> QED
    BY <1>2, <2>1
<1> QED
  BY <1>1, <1>2, <1>3, <1>4, <1>5, <1>6, <1>7, <1>8, <1>9, <1>10, SharedOpen, ZenonT(60)
  DEF Next, vars, ctl, disk, StartRollback, EndTransaction, AddTableWR, StartLoad,
      FinishLoad, FailLoad, ReplaceTables, Rollback, RollbackTable, RollbackAttr,
      EndRollback, Crash
=============================================================================
