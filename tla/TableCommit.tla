---------------------------- MODULE TableCommit ----------------------------
(***************************************************************************)
(* The commit protocol of a Brighthouse table.                             *)
(*                                                                         *)
(* Every column of a table has up to three header files in the table's     *)
(* directory: TA and TB, of which the table's A/B switch file says which   *)
(* is current, and TS, the header of a save session that is not committed. *)
(* LOAD DATA runs in a separate process (bhloader), which opens every      *)
(* column for writing, appends the rows and saves one TS per column.  The  *)
(* server then re-opens the columns for its transaction (RefreshTable).    *)
(* Commit renames every TS over the header that is not current and flips   *)
(* the switch; rollback removes the TS files of the transaction's own      *)
(* session.  The loader can be killed and the server can crash anywhere.   *)
(*                                                                         *)
(* One connection writes: the table write lock excludes a second one (see  *)
(* TableLocks).  A header is abstracted to the rows it describes and to    *)
(* its save session id; where its packs are is the subject of PackStore.   *)
(***************************************************************************)
EXTENDS Naturals, Sequences

CONSTANTS
    Tables,         \* tables of the database
    NoAttr,         \* number of columns of a table
    TransIds,       \* transaction ids GenerateTransactionNumber can return
    MaxLoads,       \* bound on the LOAD statements started
    MaxBatch,       \* bound on the rows of one LOAD statement
    Faults,         \* failures that may happen, a subset of AllFaults
    NoTable,        \* a table that is not open
    Invalid         \* INVALID_TRANSACTION_ID

AllFaults == {"crash", "kill", "rename", "flush", "flip"}

ASSUME NoAttrAssumption == NoAttr \in Nat \ {0}
ASSUME BoundsAssumption == MaxLoads \in Nat /\ MaxBatch \in Nat \ {0}
ASSUME FaultsAssumption == Faults \subseteq AllFaults
ASSUME InvalidAssumption == Invalid \notin TransIds
ASSUME NoTableAssumption ==
    /\ NoTable \notin Tables
    /\ NoTable \notin [1 .. NoAttr -> [rows : Seq(Nat), ssid : TransIds \cup {Invalid}]]

Columns == 1 .. NoAttr

VARIABLES
    sw,         \* sw[t]: the current header set, "A" or "B"
    hd,         \* hd[t][c][f]: header file f \in {"A", "B", "S"} of column c
    tables,     \* m_tables: the shared table objects, for readers
    tid,        \* id of the connection's transaction, Invalid if none yet
    used,       \* ids handed out so far
    views,      \* m_modified_tables: the transaction's own table objects
    work,       \* rows of the transaction's finished LOADs (history)
    pc,         \* where the connection's thread is
    todo,       \* tables the current loop of Commit or Rollback has left
    cur, att,   \* the table and the column being worked on
    res,        \* save_result of every table
    lst,        \* state of the loader process
    lrows,      \* rows of every column as the loader holds them
    latt,       \* the column whose header the loader saves
    nrec,       \* number of records the loader reports
    loads       \* LOAD statements started so far

disk == <<sw, hd>>
loader == <<lst, lrows, latt, nrec, loads>>
ctl == <<pc, todo, cur, att, res>>
vars == <<sw, hd, tables, tid, used, views, work, pc, todo, cur, att, res,
          lst, lrows, latt, nrec, loads>>

\* The switch state FlipState goes to, and the header AttrFileName gives for
\* oppositeName.
Other(f) == IF f = "A" THEN "B" ELSE "A"

\* A header file.  Save creates it empty, writes the column's description and
\* last the session block, so a TS can exist without a session id.
Header == [kind : {"none", "empty", "partial", "full"},
           rows : Seq(Nat), sid : TransIds \cup {Invalid}]
File(kind) == [kind |-> kind, rows |-> << >>, sid |-> Invalid]
FullHeader(rows, sid) == [kind |-> "full", rows |-> rows, sid |-> sid]

\* The part of an RCAttr object in memory that matters here.
Attr == [rows : Seq(Nat), ssid : TransIds \cup {Invalid}]

\* SetSaveSessionId(INVALID_TRANSACTION_ID)
WithoutSession(a) == [rows |-> a.rows, ssid |-> Invalid]

\* The n rows of the l-th LOAD statement.
Batch(n, l) == [i \in 1 .. n |-> l]

\* RemoveFile, IBFile writes and RenameFile, on the header files.
WriteFile(t, c, f, h) == hd' = [hd EXCEPT ![t][c][f] = h]
RemoveFile(t, c, f) == WriteFile(t, c, f, File("none"))
RenameFile(t, c, f, g) ==
    hd' = [hd EXCEPT ![t][c] = [x \in {"A", "B", "S"} |->
            IF x = g THEN hd[t][c][f]
            ELSE IF x = f THEN File("none") ELSE hd[t][c][x]]]

\* Rows a new reader of t would find.
Visible(t, c) == hd[t][c][sw[t]].rows

\* The tables the transaction has opened for writing.
Modified == {t \in Tables : views[t] # NoTable}

\* RCAttr(.., SESSION_READ, ..) of every column: the current header, and no
\* save session whatever TS files there are.
OpenRead(t) ==
    [c \in Columns |-> [rows |-> Visible(t, c), ssid |-> Invalid]]

\* Mutant: any complete TS is taken for the session's own.
OwnSessionAnyId(t, c, id) == hd[t][c]["S"].kind = "full"

\* The TS file of column c belongs to session id.
OwnSession(t, c, id) ==
    /\ hd[t][c]["S"].kind = "full"
    /\ hd[t][c]["S"].sid = id

\* Mutant: a second load of the transaction starts from the current header.
OpenWriteFresh(t, id) ==
    [c \in Columns |-> [rows |-> Visible(t, c), ssid |-> id]]

\* RCAttr(.., SESSION_WRITE, id): continue the session of a TS file that
\* carries this id, otherwise start one from the current header.
OpenWrite(t, id) ==
    [c \in Columns |->
        [rows |-> IF OwnSession(t, c, id) THEN hd[t][c]["S"].rows
                                          ELSE Visible(t, c),
         ssid |-> id]]

\* RCTableImpl::Verify: all columns have the same number of rows.  (It loads every
\* column first.  It also compares the ids of the transactions that last saved them;
\* a LOAD saves every column, so these differ only where the rows do.)
Verify(attrs) == \A c, d \in Columns : Len(attrs[c].rows) = Len(attrs[d].rows)

-----------------------------------------------------------------------------
\* A database whose tables have just been created: CreateTable saves a TS per
\* column, renames it to TB and flips the switch to B.
Init ==
    /\ sw = [t \in Tables |-> "B"]
    /\ hd = [t \in Tables |-> [c \in Columns |->
                [f \in {"A", "B", "S"} |->
                    IF f = "B" THEN FullHeader(<< >>, Invalid)
                               ELSE File("none")]]]
    /\ tables = [t \in Tables |-> NoTable]
    /\ tid = Invalid
    /\ used = {}
    /\ views = [t \in Tables |-> NoTable]
    /\ work = [t \in Tables |-> << >>]
    /\ pc = "idle"
    /\ todo = {}
    /\ cur = NoTable
    /\ att = 1
    /\ res = [t \in Tables |-> Invalid]
    /\ lst = "none"
    /\ lrows = [c \in Columns |-> << >>]
    /\ latt = 1
    /\ nrec = 0
    /\ loads = 0

\* ConnectionInfo::GetNewTransaction.  Ids are drawn from a generator seeded
\* with the clock; that no id comes twice is an assumption of the model.
GetNewTransaction ==
    /\ tid = Invalid
    /\ \E id \in TransIds \ used :
        /\ tid' = id
        /\ used' = used \cup {id}
    /\ UNCHANGED <<disk, tables, views, work, ctl, loader>>

\* RCEngine::GetTableShared: first use of t since the server started.  A table
\* with an open save session would be rolled back here.
GetTableShared(t) ==
    /\ tables[t] = NoTable
    /\ tables' = [tables EXCEPT ![t] = OpenRead(t)]
    /\ IF OpenRead(t)[1].ssid # Invalid
       THEN hd' = [hd EXCEPT ![t] = [c \in Columns |-> [hd[t][c] EXCEPT !["S"] = File("none")]]]
       ELSE hd' = hd
    /\ UNCHANGED <<sw, tid, used, views, work, ctl, loader>>

\* external_lock(F_WRLCK): the transaction gets its own object of the table.
AddTableWR(t) ==
    /\ pc = "idle" /\ tid # Invalid
    /\ tables[t] # NoTable
    /\ views[t] = NoTable
    /\ views' = [views EXCEPT ![t] = OpenRead(t)]
    /\ UNCHANGED <<disk, tables, tid, used, work, ctl, loader>>
-----------------------------------------------------------------------------
\* LOAD DATA.  ExternalLoad starts the loader process and waits for it.
StartLoad(t) ==
    /\ pc = "idle"
    /\ t \in Modified
    /\ loads < MaxLoads
    /\ loads' = loads + 1
    /\ pc' = "load"
    /\ cur' = t
    /\ lst' = "start"
    /\ UNCHANGED <<disk, tables, tid, used, views, work, todo, att, res,
                   lrows, latt, nrec>>

\* The loader opens every column for writing.  The magic number of an empty TS
\* is compared in uninitialized memory: it is refused or ignored.
LoaderOpen ==
    /\ lst = "start"
    /\ \/ /\ lst' = "opened"
          /\ lrows' = [c \in Columns |-> OpenWrite(cur, tid)[c].rows]
       \/ /\ \E c \in Columns : hd[cur][c]["S"].kind = "empty"
          /\ lst' = "failed"
          /\ lrows' = lrows
    /\ UNCHANGED <<disk, tables, tid, used, views, work, ctl, latt, nrec, loads>>

\* DataLoaderImpl::Proceed, up to SavePacks: n rows are appended to every
\* column; if all input rows were rejected, none, and the headers are saved
\* all the same.
LoaderAppend ==
    /\ lst = "opened"
    /\ \E n \in 0 .. MaxBatch :
        /\ lrows' = [c \in Columns |-> lrows[c] \o Batch(n, loads)]
        /\ nrec' = n
    /\ lst' = "save"
    /\ latt' = 1
    /\ UNCHANGED <<disk, tables, tid, used, views, work, ctl, loads>>

\* An input without data: Proceed is not called.
LoaderNoInput ==
    /\ lst = "opened"
    /\ lst' = "done"
    /\ nrec' = 0
    /\ UNCHANGED <<disk, tables, tid, used, views, work, ctl, lrows, latt, loads>>

\* A format error, too many rejected rows, a file that cannot be read.
LoaderError ==
    /\ lst = "opened"
    /\ lst' = "failed"
    /\ UNCHANGED <<disk, tables, tid, used, views, work, ctl, lrows, latt, nrec, loads>>

\* RCAttr::Save of one column after the other, each in three writes.
LoaderSave ==
    /\ \/ /\ lst = "save"
          /\ WriteFile(cur, latt, "S", File("empty"))
          /\ lst' = "saveEmpty"
          /\ latt' = latt
       \/ /\ lst = "saveEmpty"
          /\ WriteFile(cur, latt, "S", File("partial"))
          /\ lst' = "savePartial"
          /\ latt' = latt
       \/ /\ lst = "savePartial"
          /\ WriteFile(cur, latt, "S", FullHeader(lrows[latt], tid))
          /\ lst' = IF latt = NoAttr THEN "done" ELSE "save"
          /\ latt' = IF latt = NoAttr THEN latt ELSE latt + 1
    /\ UNCHANGED <<sw, tables, tid, used, views, work, ctl, lrows, nrec, loads>>

\* KILL of the statement terminates the process, wherever it is.
KillLoader ==
    /\ "kill" \in Faults
    /\ lst \notin {"none", "failed"}
    /\ lst' = "failed"
    /\ UNCHANGED <<disk, tables, tid, used, views, work, ctl, lrows, latt, nrec, loads>>

\* The thread waits for no loader any more.
LoaderGone ==
    /\ lst' = "none"
    /\ lrows' = [c \in Columns |-> << >>]
    /\ latt' = 1
    /\ nrec' = 0
    /\ loads' = loads

\* ExternalLoad after a successful Proceed: RefreshTable re-opens the columns
\* of the transaction's table object, if any row was loaded.
FinishLoad ==
    /\ pc = "load" /\ lst = "done"
    /\ IF nrec > 0
       THEN /\ views' = [views EXCEPT ![cur] = OpenWrite(cur, tid)]
            /\ work' = [work EXCEPT ![cur] = @ \o Batch(nrec, loads)]
       ELSE UNCHANGED <<views, work>>
    /\ LoaderGone
    /\ pc' = "idle"
    /\ cur' = NoTable
    /\ UNCHANGED <<disk, tables, tid, used, todo, att, res>>

\* Rollback of the transaction begins.
StartRollback ==
    /\ pc' = "rollback"
    /\ todo' = Modified
    /\ cur' = NoTable
    /\ att' = 1
    /\ res' = [t \in Tables |-> Invalid]

\* ExternalLoad after a failed or killed loader: the whole transaction is
\* rolled back.
FailLoad ==
    /\ pc = "load" /\ lst = "failed"
    /\ LoaderGone
    /\ StartRollback
    /\ UNCHANGED <<disk, tables, tid, used, views, work>>
-----------------------------------------------------------------------------
\* Transaction::Commit: VerifyTablesIntegrity, and a rollback if it throws.
\* (Without a modified table a commit only ends the transaction.)
Commit ==
    /\ pc = "idle"
    /\ Modified # {}
    /\ IF \A t \in Modified : Verify(views[t])
       THEN /\ pc' = "save"
            /\ todo' = Modified
            /\ UNCHANGED <<cur, att, res>>
       ELSE StartRollback
    /\ UNCHANGED <<disk, tables, tid, used, views, work, loader>>

\* RCTableImpl::CommitSaveSession(id): a table with a column that has no save
\* session of this transaction has nothing to commit.  (Its test that the number of
\* rows is that of the packs cannot fail for a header that RCAttr::Save has written,
\* see PackStore; if it threw, the commit would roll back as after a failing rename.)
CommitSaveSession(t) ==
    /\ pc = "save"
    /\ t \in todo
    /\ IF \E c \in Columns : views[t][c].ssid # tid
       THEN /\ todo' = todo \ {t}
            /\ UNCHANGED <<pc, cur, att>>
       ELSE /\ pc' = "remove"
            /\ cur' = t
            /\ att' = 1
            /\ todo' = todo
    /\ UNCHANGED <<disk, tables, tid, used, views, work, res, loader>>

\* RCAttr::CommitSaveSession, first half: the session id is reset and the
\* header that is not current removed.
RemoveOpposite ==
    /\ pc = "remove"
    /\ views' = [views EXCEPT ![cur][att] = WithoutSession(@)]
    /\ \/ /\ RemoveFile(cur, att, Other(sw[cur]))
          /\ pc' = "rename"
          /\ UNCHANGED <<todo, cur, att, res>>
       \/ /\ "rename" \in Faults
          /\ hd' = hd
          /\ StartRollback
    /\ UNCHANGED <<sw, tables, tid, used, work, loader>>

\* Second half: TS becomes the header that is not current.
RenameSession ==
    /\ pc = "rename"
    /\ \/ /\ RenameFile(cur, att, "S", Other(sw[cur]))
          /\ IF att < NoAttr
             THEN /\ pc' = "remove"
                  /\ att' = att + 1
                  /\ UNCHANGED <<todo, cur, res>>
             ELSE /\ pc' = "save"
                  /\ att' = 1
                  /\ todo' = todo \ {cur}
                  /\ cur' = NoTable
                  /\ res' = [res EXCEPT ![cur] = tid]
       \/ /\ "rename" \in Faults
          /\ hd' = hd
          /\ StartRollback
    /\ UNCHANGED <<sw, tables, tid, used, views, work, loader>>

\* All tables saved: the second loop of Transaction::Commit.
StartSwitch ==
    /\ pc = "save"
    /\ todo = {}
    /\ pc' = "switch"
    /\ todo' = Modified
    /\ UNCHANGED <<disk, tables, tid, used, views, work, cur, att, res, loader>>

\* Mutant: the switch is flipped whether or not a session was saved.
CommitSwitchAlways(t) ==
    /\ pc = "switch"
    /\ t \in todo
    /\ todo' = todo \ {t}
    /\ sw' = [sw EXCEPT ![t] = Other(@)]
    /\ work' = [work EXCEPT ![t] = << >>]
    /\ UNCHANGED <<hd, tables, tid, used, views, pc, cur, att, res, loader>>

\* Mutant: the loop over the modified tables ends with the first one switched.
CommitSwitchFirst(t) ==
    /\ pc = "switch"
    /\ t \in todo
    /\ IF res[t] # Invalid
       THEN /\ sw' = [sw EXCEPT ![t] = Other(@)]
            /\ work' = [work EXCEPT ![t] = << >>]
            /\ todo' = {}
       ELSE /\ UNCHANGED <<sw, work>>
            /\ todo' = todo \ {t}
    /\ UNCHANGED <<hd, tables, tid, used, views, pc, cur, att, res, loader>>

\* FlushTableBuffers, then RCTableImpl::CommitSwitch.  The flush may throw; a
\* flip that fails is only logged.
CommitSwitch(t) ==
    /\ pc = "switch"
    /\ t \in todo
    /\ \/ /\ todo' = todo \ {t}
          /\ \/ /\ res[t] # Invalid
                /\ sw' = [sw EXCEPT ![t] = Other(@)]
                /\ work' = [work EXCEPT ![t] = << >>]
             \/ /\ res[t] = Invalid \/ "flip" \in Faults
                /\ UNCHANGED <<sw, work>>
          /\ UNCHANGED <<pc, cur, att, res>>
       \/ /\ "flush" \in Faults
          /\ StartRollback
          /\ UNCHANGED <<sw, work>>
    /\ UNCHANGED <<hd, tables, tid, used, views, loader>>

\* ConnectionInfo::EndTransaction, at the end of Commit and of Rollback.
EndTransaction ==
    /\ views' = [t \in Tables |-> NoTable]
    /\ work' = [t \in Tables |-> << >>]
    /\ tid' = Invalid
    /\ pc' = "idle"
    /\ todo' = {}
    /\ cur' = NoTable
    /\ att' = 1
    /\ res' = [t \in Tables |-> Invalid]

\* Mutant: the shared table objects are not replaced.
ReplaceTablesNot ==
    /\ pc = "switch"
    /\ todo = {}
    /\ EndTransaction
    /\ UNCHANGED <<disk, tables, used, loader>>

\* The transaction's table objects become the shared ones.
ReplaceTables ==
    /\ pc = "switch"
    /\ todo = {}
    /\ tables' = [t \in Tables |-> IF t \in Modified THEN views[t] ELSE tables[t]]
    /\ EndTransaction
    /\ UNCHANGED <<disk, used, loader>>
-----------------------------------------------------------------------------
\* ROLLBACK, the end of the connection, or a commit of a killed statement.
Rollback ==
    /\ pc = "idle"
    /\ Modified # {}
    /\ StartRollback
    /\ UNCHANGED <<disk, tables, tid, used, views, work, loader>>

\* RCTableImpl::Rollback, one table after the other.
RollbackTable(t) ==
    /\ pc = "rollback"
    /\ cur = NoTable
    /\ t \in todo
    /\ cur' = t
    /\ UNCHANGED <<disk, tables, tid, used, views, work, pc, todo, att, res, loader>>

\* Mutant: the loop over the columns goes one too far.
RollbackAttrOffByOne ==
    /\ pc = "rollback"
    /\ cur # NoTable
    /\ RemoveFile(cur, att, "S")
    /\ IF att <= NoAttr
       THEN att' = att + 1 /\ UNCHANGED <<todo, cur>>
       ELSE att' = 1 /\ todo' = todo \ {cur} /\ cur' = NoTable
    /\ UNCHANGED <<sw, tables, tid, used, views, work, pc, res, loader>>

\* RCAttr::Rollback of one column: TS is removed only if this object has a
\* save session.
RollbackAttr ==
    /\ pc = "rollback"
    /\ cur # NoTable
    /\ IF views[cur][att].ssid = tid
       THEN /\ RemoveFile(cur, att, "S")
            /\ views' = [views EXCEPT ![cur][att] = WithoutSession(@)]
       ELSE UNCHANGED <<hd, views>>
    /\ IF att < NoAttr
       THEN /\ att' = att + 1
            /\ UNCHANGED <<todo, cur>>
       ELSE /\ att' = 1
            /\ todo' = todo \ {cur}
            /\ cur' = NoTable
    /\ UNCHANGED <<sw, tables, tid, used, work, pc, res, loader>>

EndRollback ==
    /\ pc = "rollback"
    /\ cur = NoTable
    /\ todo = {}
    /\ EndTransaction
    /\ UNCHANGED <<disk, tables, used, loader>>

\* The server process dies and is started again; its loader dies with it.
Crash ==
    /\ "crash" \in Faults
    /\ tables' = [t \in Tables |-> NoTable]
    /\ EndTransaction
    /\ LoaderGone
    /\ UNCHANGED <<disk, used>>
-----------------------------------------------------------------------------
Next ==
    \/ GetNewTransaction
    \/ \E t \in Tables :
        \/ GetTableShared(t)
        \/ AddTableWR(t)
        \/ StartLoad(t)
        \/ CommitSaveSession(t)
        \/ CommitSwitch(t)
        \/ RollbackTable(t)
    \/ LoaderOpen \/ LoaderAppend \/ LoaderNoInput \/ LoaderError
    \/ LoaderSave \/ KillLoader \/ FinishLoad \/ FailLoad
    \/ Commit \/ RemoveOpposite \/ RenameSession \/ StartSwitch \/ ReplaceTables
    \/ Rollback \/ RollbackAttr \/ EndRollback
    \/ Crash

Spec == Init /\ [][Next]_vars
-----------------------------------------------------------------------------
TypeOK ==
    /\ sw \in [Tables -> {"A", "B"}]
    /\ hd \in [Tables -> [Columns -> [{"A", "B", "S"} -> Header]]]
    /\ tables \in [Tables -> [Columns -> Attr] \cup {NoTable}]
    /\ tid \in TransIds \cup {Invalid}
    /\ used \subseteq TransIds
    /\ views \in [Tables -> [Columns -> Attr] \cup {NoTable}]
    /\ work \in [Tables -> Seq(Nat)]
    /\ pc \in {"idle", "load", "save", "remove", "rename", "switch", "rollback"}
    /\ todo \subseteq Tables
    /\ cur \in Tables \cup {NoTable}
    /\ att \in Columns
    /\ res \in [Tables -> TransIds \cup {Invalid}]
    /\ lst \in {"none", "start", "opened", "save", "saveEmpty", "savePartial",
                "done", "failed"}
    /\ lrows \in [Columns -> Seq(Nat)]
    /\ latt \in Columns
    /\ nrec \in Nat
    /\ loads \in Nat

\* The headers the switch selects are complete and describe the same rows in
\* every column, at every moment: whatever was killed or crashed in the middle
\* of saving, renaming or rolling back, a table never mixes two versions.
ColumnsAgree ==
    \A t \in Tables, c \in Columns :
        /\ hd[t][c][sw[t]].kind = "full"
        /\ Visible(t, c) = Visible(t, 1)

\* What one LOAD statement can add.
LoadBatches == {Batch(n, l) : n \in 1 .. MaxBatch, l \in 1 .. MaxLoads}

\* The table is the abstract one: its rows change only by the flip of the
\* switch, which appends exactly the rows of the transaction's finished LOADs,
\* never those of a failed, killed or forgotten one whose TS is still there.
TV == INSTANCE TableVersions WITH
        committed <- [t \in Tables |-> Visible(t, 1)],
        Batches <- LoadBatches
AtomicVersions == TV!Spec

\* Between statements the shared table object, which readers use, has the rows
\* of the headers on disk, which writers start from.
SharedIsCurrent ==
    pc = "idle" => \A t \in Tables :
        tables[t] # NoTable => \A c \in Columns : tables[t][c].rows = Visible(t, c)

\* A commit that succeeds has published the rows of every finished LOAD of its
\* transaction: no table is passed over because a column lost its session.
CommitPublishes ==
    pc = "switch" /\ todo = {} => \A t \in Tables : work[t] = << >>

\* Transaction::Rollback tells the client that "the current transaction has
\* been rolled back": none of its rows are visible when it starts to say so.
RolledBackInvisible ==
    [][pc # "rollback" /\ pc' = "rollback" =>
         \A t \in Tables : views[t] # NoTable /\ tables[t] # NoTable =>
            \A c \in Columns : Visible(t, c) = tables[t][c].rows]_vars

\* CommitSwitch says that the system flips the switch when a save session was
\* renamed: the headers on disk are then the ones the commit made shared.
CommitIsDurable ==
    [][pc = "switch" /\ pc' = "idle" /\ tables' # [t \in Tables |-> NoTable] =>
         \A t \in Modified, c \in Columns : tables'[t][c].rows = Visible(t, c)']_vars

\* GetTableShared promises a "rollback if there was no commit": when a table
\* is opened after a restart no uncommitted save session stays behind.
OpenedTableHasNoSession ==
    [][\A t \in Tables : tables[t] = NoTable /\ tables'[t] # NoTable =>
         \A c \in Columns : hd'[t][c]["S"].kind = "none"]_vars
=============================================================================
