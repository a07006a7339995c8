-------------------------- MODULE TableCommitTypes --------------------------
(***************************************************************************)
(* Type correctness of TableCommit is inductive together with the protocol *)
(* invariant; and what each operation on a header file changes.            *)
(***************************************************************************)
EXTENDS TableCommitInv, SequenceTheorems, TLAPS

USE NoAttrAssumption, InvalidAssumption

\* Columns is a non-empty interval.
LEMMA ColumnFacts == 1 \in Columns /\ NoAttr \in Columns /\ Columns \subseteq Nat
BY DEF Columns

\* A batch of rows is a sequence.
LEMMA BatchType == ASSUME NEW n \in Nat, NEW l \in Nat PROVE Batch(n, l) \in Seq(Nat)
BY DEF Batch

\* The header values the actions write are headers.
LEMMA HeaderType ==
    /\ \A k \in {"none", "empty", "partial", "full"} : File(k) \in Header
    /\ \A r \in Seq(Nat), x \in TransIds \cup {Invalid} : FullHeader(r, x) \in Header
BY DEF File, FullHeader, Header

\* A header file, taken apart.
LEMMA HeaderAt ==
    ASSUME TypeOK, NEW t \in Tables, NEW c \in Columns, NEW f \in {"A", "B", "S"}
    PROVE  /\ hd[t][c][f] \in Header
           /\ hd[t][c][f].rows \in Seq(Nat)
           /\ hd[t][c][f].sid \in TransIds \cup {Invalid}
<1>1. hd[t][c][f] \in Header
  BY DEF TypeOK
<1> QED
  BY <1>1 DEF Header

\* The headers the switch selects.
LEMMA VisibleType ==
    ASSUME TypeOK, NEW t \in Tables, NEW c \in Columns
    PROVE  /\ sw[t] \in {"A", "B"}
           /\ Visible(t, c) \in Seq(Nat)
BY HeaderAt DEF TypeOK, Visible

\* A file operation changes the file it names and no other.
LEMMA WriteFileFacts ==
    ASSUME TypeOK, NEW t \in Tables, NEW c \in Columns, NEW f \in {"A", "B", "S"},
           NEW h \in Header, WriteFile(t, c, f, h)
    PROVE  /\ hd' \in [Tables -> [Columns -> [{"A", "B", "S"} -> Header]]]
           /\ hd'[t][c][f] = h
           /\ \A u \in Tables, d \in Columns, g \in {"A", "B", "S"} :
                u # t \/ d # c \/ g # f => hd'[u][d][g] = hd[u][d][g]
<1>1. hd \in [Tables -> [Columns -> [{"A", "B", "S"} -> Header]]]
  BY DEF TypeOK
<1>2. hd' = [hd EXCEPT ![t][c][f] = h]
  BY DEF WriteFile
<1> QED
  BY <1>1, <1>2

\* A rename moves a header over another of the same column and leaves no source.
LEMMA RenameFileFacts ==
    ASSUME TypeOK, NEW t \in Tables, NEW c \in Columns,
           NEW f \in {"A", "B", "S"}, NEW g \in {"A", "B", "S"}, f # g,
           RenameFile(t, c, f, g)
    PROVE  /\ hd' \in [Tables -> [Columns -> [{"A", "B", "S"} -> Header]]]
           /\ hd'[t][c][g] = hd[t][c][f]
           /\ hd'[t][c][f] = File("none")
           /\ \A u \in Tables, d \in Columns, x \in {"A", "B", "S"} :
                u # t \/ d # c \/ x \notin {f, g} => hd'[u][d][x] = hd[u][d][x]
<1>1. hd \in [Tables -> [Columns -> [{"A", "B", "S"} -> Header]]]
  BY DEF TypeOK
<1>2. hd' = [hd EXCEPT ![t][c] = [x \in {"A", "B", "S"} |->
                IF x = g THEN hd[t][c][f]
                ELSE IF x = f THEN File("none") ELSE hd[t][c][x]]]
  BY DEF RenameFile
<1>3. File("none") \in Header
  BY HeaderType
<1> QED
  BY <1>1, <1>2, <1>3

\* Opening a table gives well-formed column objects.
LEMMA OpenType ==
    ASSUME TypeOK, NEW t \in Tables
    PROVE  /\ OpenRead(t) \in [Columns -> Attr]
           /\ OpenWrite(t, tid) \in [Columns -> Attr]
<1>1. \A c \in Columns : Visible(t, c) \in Seq(Nat) /\ hd[t][c]["S"].rows \in Seq(Nat)
  BY VisibleType, HeaderAt
<1>2. tid \in TransIds \cup {Invalid}
  BY DEF TypeOK
<1>3. OpenRead(t) \in [Columns -> Attr]
  BY <1>1 DEF OpenRead, Attr
<1>4. OpenWrite(t, tid) \in [Columns -> Attr]
  BY <1>1, <1>2 DEF OpenWrite, Attr
<1> QED
  BY <1>3, <1>4

\* Resetting the save session of a column object.
LEMMA WithoutSessionType == \A a \in Attr : WithoutSession(a) \in Attr
BY DEF WithoutSession, Attr

\* Every action keeps the types.
LEMMA TypeStep == ASSUME CommitProtocolInv, [Next]_vars PROVE TypeOK'
<1> USE ColumnFacts DEF CommitProtocolInv
<1>1. CASE GetNewTransaction
  BY <1>1 DEF TypeOK, GetNewTransaction, disk, ctl, loader
<1>2. ASSUME NEW t \in Tables, GetTableShared(t) PROVE TypeOK'
  <2>1. OpenRead(t)[1].ssid = Invalid
    BY DEF OpenRead
  <2> QED
    BY <1>2, <2>1, OpenType DEF TypeOK, GetTableShared, ctl, loader
<1>3. ASSUME NEW t \in Tables, AddTableWR(t) PROVE TypeOK'
  BY <1>3, OpenType DEF TypeOK, AddTableWR, disk, ctl, loader
<1>4. ASSUME NEW t \in Tables, StartLoad(t) PROVE TypeOK'
  BY <1>4 DEF TypeOK, StartLoad, disk
<1>5. CASE LoaderOpen
  <2>1. cur \in Tables
    BY <1>5 DEF LoaderOpen, ControlInv, Modified, TypeOK
  <2>2. [c \in Columns |-> OpenWrite(cur, tid)[c].rows] \in [Columns -> Seq(Nat)]
    BY <2>1, OpenType DEF Attr
  <2> QED
    BY <1>5, <2>2, Zenon DEF TypeOK, LoaderOpen, disk, ctl
<1>6. CASE LoaderAppend
  <2>1. PICK n \in 0 .. MaxBatch :
            /\ lrows' = [c \in Columns |-> lrows[c] \o Batch(n, loads)]
            /\ nrec' = n
    BY <1>6 DEF LoaderAppend
  <2>2. lrows' \in [Columns -> Seq(Nat)]
    BY <2>1, BatchType, BoundsAssumption, ConcatProperties DEF TypeOK
  <2>3. /\ UNCHANGED <<sw, hd, tables, tid, used, views, work, pc, todo, cur, att, res, loads>>
        /\ lst' = "save" /\ latt' = 1 /\ nrec' \in Nat
    BY <1>6, <2>1, BoundsAssumption DEF LoaderAppend, disk, ctl
  <2> QED
    BY <2>2, <2>3 DEF TypeOK
<1>7. CASE LoaderNoInput \/ LoaderError \/ KillLoader
  BY <1>7 DEF TypeOK, LoaderNoInput, LoaderError, KillLoader, disk, ctl
<1>8. CASE LoaderSave
  <2>1. cur \in Tables
    BY <1>8 DEF LoaderSave, ControlInv, Modified, TypeOK
  <2>2. PICK h \in Header : WriteFile(cur, latt, "S", h)
    BY <1>8, HeaderType DEF LoaderSave, TypeOK
  <2>3. hd' \in [Tables -> [Columns -> [{"A", "B", "S"} -> Header]]]
    BY <2>1, <2>2, WriteFileFacts DEF TypeOK
  <2>4. latt' \in Columns /\ lst' \in {"save", "saveEmpty", "savePartial", "done"}
    BY <1>8 DEF LoaderSave, TypeOK, Columns
  <2> QED
    BY <1>8, <2>3, <2>4 DEF TypeOK, LoaderSave, ctl
<1>9. CASE FinishLoad
  <2>1. cur \in Tables
    BY <1>9 DEF FinishLoad, ControlInv, Modified, TypeOK
  <2>2. views' \in [Tables -> [Columns -> Attr] \cup {NoTable}]
    BY <1>9, <2>1, OpenType, ZenonT(60) DEF FinishLoad, TypeOK
  <2>3. work' \in [Tables -> Seq(Nat)]
    <3>1. work[cur] \o Batch(nrec, loads) \in Seq(Nat)
      BY <2>1, BatchType, ConcatProperties DEF TypeOK
    <3> QED
      BY <1>9, <3>1, Zenon DEF FinishLoad, TypeOK
  <2> QED
    BY <1>9, <2>2, <2>3 DEF TypeOK, FinishLoad, LoaderGone, disk
<1>10. CASE FailLoad
  BY <1>10 DEF TypeOK, FailLoad, LoaderGone, StartRollback, disk, Modified
<1>11. CASE Commit
  BY <1>11 DEF TypeOK, Commit, StartRollback, disk, Modified, loader
<1>12. ASSUME NEW t \in Tables, CommitSaveSession(t) PROVE TypeOK'
  BY <1>12 DEF TypeOK, CommitSaveSession, disk, loader
<1>13. CASE RemoveOpposite
  <2>1. cur \in Tables /\ views[cur] \in [Columns -> Attr]
    BY <1>13 DEF RemoveOpposite, ControlInv, Modified, TypeOK
  <2>2. views' \in [Tables -> [Columns -> Attr] \cup {NoTable}]
    BY <1>13, <2>1, WithoutSessionType DEF RemoveOpposite, TypeOK
  <2>3. hd' \in [Tables -> [Columns -> [{"A", "B", "S"} -> Header]]]
    BY <1>13, <2>1, WriteFileFacts, HeaderType DEF RemoveOpposite, RemoveFile, TypeOK, Other
  <2> QED
    BY <1>13, <2>2, <2>3 DEF TypeOK, RemoveOpposite, StartRollback, Modified, loader
<1>14. CASE RenameSession
  <2>1. cur \in Tables
    BY <1>14 DEF RenameSession, ControlInv, Modified, TypeOK
  <2>2. hd' \in [Tables -> [Columns -> [{"A", "B", "S"} -> Header]]]
    BY <1>14, <2>1, RenameFileFacts DEF RenameSession, TypeOK, Other
  <2>3. pc' \in {"remove", "save", "rollback"} /\ att' \in Columns
        /\ todo' \subseteq Tables /\ cur' \in Tables \cup {NoTable}
    BY <1>14 DEF RenameSession, StartRollback, TypeOK, Modified, Columns
  <2>4. res' \in [Tables -> TransIds \cup {Invalid}]
    BY <1>14 DEF RenameSession, StartRollback, TypeOK
  <2> QED
    BY <1>14, <2>2, <2>3, <2>4 DEF TypeOK, RenameSession, loader
<1>15. CASE StartSwitch
  BY <1>15 DEF TypeOK, StartSwitch, Modified, disk, loader
<1>16. ASSUME NEW t \in Tables, CommitSwitch(t) PROVE TypeOK'
  <2>1. sw' \in [Tables -> {"A", "B"}] /\ work' \in [Tables -> Seq(Nat)]
    <3>1. \/ sw' = [sw EXCEPT ![t] = Other(@)] /\ work' = [work EXCEPT ![t] = << >>]
          \/ sw' = sw /\ work' = work
      BY <1>16 DEF CommitSwitch
    <3>2. Other(sw[t]) \in {"A", "B"} /\ << >> \in Seq(Nat)
      BY DEF Other
    <3> QED
      BY <3>1, <3>2, ZenonT(60) DEF TypeOK
  <2>2. /\ pc' \in {"switch", "rollback"} /\ todo' \subseteq Tables
        /\ cur' \in Tables \cup {NoTable} /\ att' \in Columns
        /\ res' \in [Tables -> TransIds \cup {Invalid}]
    BY <1>16 DEF TypeOK, CommitSwitch, StartRollback, Modified
  <2> QED
    BY <1>16, <2>1, <2>2, Zenon DEF TypeOK, CommitSwitch, loader
<1>17. CASE ReplaceTables
  BY <1>17 DEF TypeOK, ReplaceTables, EndTransaction, Modified, disk, loader
<1>18. CASE Rollback
  BY <1>18 DEF TypeOK, Rollback, StartRollback, Modified, disk, loader
<1>19. ASSUME NEW t \in Tables, RollbackTable(t) PROVE TypeOK'
  BY <1>19 DEF TypeOK, RollbackTable, disk, loader
<1>20. CASE RollbackAttr
  <2>1. cur \in Tables /\ views[cur] \in [Columns -> Attr]
    BY <1>20 DEF RollbackAttr, ControlInv, Modified, TypeOK
  <2>2. views' \in [Tables -> [Columns -> Attr] \cup {NoTable}]
    <3>1. WithoutSession(views[cur][att]) \in Attr
      BY <2>1, WithoutSessionType DEF TypeOK
    <3>2. [views[cur] EXCEPT ![att] = WithoutSession(@)] \in [Columns -> Attr]
      BY <2>1, <3>1 DEF TypeOK
    <3>3. \/ views' = [views EXCEPT ![cur] = [views[cur] EXCEPT ![att] = WithoutSession(@)]]
          \/ views' = views
      BY <1>20 DEF RollbackAttr
    <3> QED
      BY <3>2, <3>3, Zenon DEF TypeOK
  <2>3. hd' \in [Tables -> [Columns -> [{"A", "B", "S"} -> Header]]]
    BY <1>20, <2>1, WriteFileFacts, HeaderType DEF RollbackAttr, RemoveFile, TypeOK
  <2>4. att' \in Columns /\ todo' \subseteq Tables /\ cur' \in Tables \cup {NoTable}
    BY <1>20 DEF RollbackAttr, TypeOK, Columns
  <2> QED
    BY <1>20, <2>2, <2>3, <2>4 DEF TypeOK, RollbackAttr, loader
<1>21. CASE EndRollback
  BY <1>21 DEF TypeOK, EndRollback, EndTransaction, disk, loader
<1>22. CASE Crash
  BY <1>22 DEF TypeOK, Crash, EndTransaction, LoaderGone, disk
<1>23. CASE UNCHANGED vars
  BY <1>23 DEF TypeOK, vars
<1> QED
  BY <1>1, <1>2, <1>3, <1>4, <1>5, <1>6, <1>7, <1>8, <1>9, <1>10, <1>11, <1>12, <1>13,
     <1>14, <1>15, <1>16, <1>17, <1>18, <1>19, <1>20, <1>21, <1>22, <1>23 DEF Next

-----------------------------------------------------------------------------
(* What the steps that write header files do, file by file. *)

\* The loader writes the TS of one column.
LEMMA LoaderSaveFacts ==
    ASSUME CommitProtocolInv, LoaderSave
    PROVE  /\ pc = "load" /\ cur \in Modified /\ latt \in Columns
           /\ \A u \in Tables, d \in Columns, g \in {"A", "B", "S"} :
                u # cur \/ d # latt \/ g # "S" => hd'[u][d][g] = hd[u][d][g]
           /\ lst \in {"save", "saveEmpty"} => hd'[cur][latt]["S"].kind # "full"
           /\ lst = "savePartial" => hd'[cur][latt]["S"] = FullHeader(lrows[latt], tid)
<1>1. pc = "load" /\ cur \in Modified /\ cur \in Tables /\ latt \in Columns
  BY DEF CommitProtocolInv, TypeOK, ControlInv, LoaderSave, Modified
<1>2. CASE lst = "savePartial"
  <2>1. WriteFile(cur, latt, "S", FullHeader(lrows[latt], tid))
    BY <1>2 DEF LoaderSave
  <2>2. FullHeader(lrows[latt], tid) \in Header
    BY HeaderType DEF CommitProtocolInv, TypeOK
  <2> QED
    BY <1>1, <1>2, <2>1, <2>2, WriteFileFacts DEF CommitProtocolInv
<1>3. CASE lst # "savePartial"
  <2>1. PICK k \in {"empty", "partial"} : WriteFile(cur, latt, "S", File(k))
    BY <1>3 DEF LoaderSave
  <2>2. File(k) \in Header /\ File(k).kind # "full"
    BY HeaderType DEF File
  <2> QED
    BY <1>1, <1>3, <2>1, <2>2, WriteFileFacts DEF CommitProtocolInv
<1> QED
  BY <1>2, <1>3

\* The first half of the commit of a column removes the header that is not
\* current, or nothing if it fails.
LEMMA RemoveOppositeFacts ==
    ASSUME CommitProtocolInv, RemoveOpposite
    PROVE  /\ cur \in Modified /\ cur \in todo /\ att \in Columns
           /\ Other(sw[cur]) \in {"A", "B"} /\ Other(sw[cur]) # sw[cur]
           /\ \A u \in Tables, d \in Columns, g \in {"A", "B", "S"} :
                u # cur \/ d # att \/ g # Other(sw[cur]) => hd'[u][d][g] = hd[u][d][g]
           /\ \A u \in Tables : u # cur => views'[u] = views[u]
           /\ views'[cur] \in [Columns -> Attr]
<1>1. cur \in Modified /\ cur \in Tables /\ cur \in todo /\ att \in Columns
      /\ views[cur] \in [Columns -> Attr]
  BY DEF CommitProtocolInv, TypeOK, ControlInv, RemoveOpposite, Modified
<1>2. Other(sw[cur]) \in {"A", "B"} /\ Other(sw[cur]) # sw[cur]
  BY <1>1 DEF CommitProtocolInv, TypeOK, Other
<1>3. \A u \in Tables, d \in Columns, g \in {"A", "B", "S"} :
        u # cur \/ d # att \/ g # Other(sw[cur]) => hd'[u][d][g] = hd[u][d][g]
  BY <1>1, <1>2, WriteFileFacts, HeaderType DEF RemoveOpposite, RemoveFile, CommitProtocolInv
<1>4. views' = [views EXCEPT ![cur] = [views[cur] EXCEPT ![att] = WithoutSession(@)]]
  BY DEF RemoveOpposite
<1>5. [views[cur] EXCEPT ![att] = WithoutSession(@)] \in [Columns -> Attr]
  BY <1>1, WithoutSessionType
<1> QED
  BY <1>1, <1>2, <1>3, <1>4, <1>5 DEF CommitProtocolInv, TypeOK

\* The second half: TS becomes the header that is not current.
LEMMA RenameSessionFacts ==
    ASSUME CommitProtocolInv, RenameSession
    PROVE  /\ cur \in Modified /\ cur \in todo /\ att \in Columns
           /\ Other(sw[cur]) \in {"A", "B"} /\ Other(sw[cur]) # sw[cur]
           /\ \A u \in Tables, d \in Columns, g \in {"A", "B", "S"} :
                u # cur \/ d # att \/ g \notin {"S", Other(sw[cur])} =>
                    hd'[u][d][g] = hd[u][d][g]
           /\ \/ hd' = hd /\ StartRollback
              \/ /\ hd'[cur][att][Other(sw[cur])] = hd[cur][att]["S"]
                 /\ hd'[cur][att]["S"].kind = "none"
                 /\ pc' # "rollback"
<1>1. cur \in Modified /\ cur \in Tables /\ cur \in todo /\ att \in Columns
  BY DEF CommitProtocolInv, TypeOK, ControlInv, RenameSession, Modified
<1>2. Other(sw[cur]) \in {"A", "B"} /\ Other(sw[cur]) # sw[cur]
  BY <1>1 DEF CommitProtocolInv, TypeOK, Other
<1>3. File("none").kind = "none"
  BY DEF File
<1>4. CASE hd' = hd /\ StartRollback
  BY <1>1, <1>2, <1>4
<1>5. CASE RenameFile(cur, att, "S", Other(sw[cur])) /\ pc' # "rollback"
  BY <1>1, <1>2, <1>3, <1>5, RenameFileFacts DEF CommitProtocolInv
<1> QED
  BY <1>4, <1>5 DEF RenameSession

\* Rollback of a column removes its TS or nothing.
LEMMA RollbackAttrFacts ==
    ASSUME CommitProtocolInv, RollbackAttr
    PROVE  /\ cur \in Modified /\ cur \in todo /\ att \in Columns
           /\ \A u \in Tables, d \in Columns, g \in {"A", "B", "S"} :
                u # cur \/ d # att \/ g # "S" => hd'[u][d][g] = hd[u][d][g]
           /\ hd'[cur][att]["S"] = hd[cur][att]["S"] \/ hd'[cur][att]["S"].kind = "none"
           /\ \A u \in Tables : u # cur => views'[u] = views[u]
           /\ views'[cur] \in [Columns -> Attr]
<1>1. cur \in Modified /\ cur \in Tables /\ cur \in todo /\ att \in Columns
      /\ views[cur] \in [Columns -> Attr]
  BY DEF CommitProtocolInv, TypeOK, ControlInv, RollbackAttr, Modified
<1>2. File("none") \in Header /\ File("none").kind = "none"
  BY HeaderType DEF File
<1>3. CASE hd' = hd /\ views' = views
  BY <1>1, <1>3 DEF CommitProtocolInv, TypeOK
<1>4. CASE /\ RemoveFile(cur, att, "S")
           /\ views' = [views EXCEPT ![cur][att] = WithoutSession(@)]
  <2>1. views' = [views EXCEPT ![cur] = [views[cur] EXCEPT ![att] = WithoutSession(@)]]
    BY <1>4
  <2>2. [views[cur] EXCEPT ![att] = WithoutSession(@)] \in [Columns -> Attr]
    BY <1>1, WithoutSessionType
  <2>3. /\ views'[cur] \in [Columns -> Attr]
        /\ \A u \in Tables : u # cur => views'[u] = views[u]
    BY <1>1, <2>1, <2>2 DEF CommitProtocolInv, TypeOK
  <2> QED
    BY <1>1, <1>2, <1>4, <2>3, WriteFileFacts DEF RemoveFile, CommitProtocolInv
<1> QED
  BY <1>3, <1>4 DEF RollbackAttr
=============================================================================
