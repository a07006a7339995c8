----------------------------- MODULE TableLocks -----------------------------
(***************************************************************************)
(* Table locks: IBTableShared's read and write locks, the TableLockManager *)
(* that owns them, and the way MySQL drives them through external_lock,    *)
(* commit and rollback, KILL, FLUSH TABLES and DROP TABLE.                 *)
(*                                                                         *)
(* A session opens the tables of a statement, takes one external lock per  *)
(* table in order (polling every 100 ms), runs, ends the statement's       *)
(* transaction, and then unlocks.  Under autocommit=0 a write lock stays   *)
(* until COMMIT or ROLLBACK.  A lock refers to its Transaction object by a *)
(* C++ reference, and the object is deleted when the transaction ends:     *)
(* "live" says whether the lock's Transaction still exists.  The id read   *)
(* through a dead reference is any id, so the lock may or may not seem to  *)
(* belong to whoever compares it.                                          *)
(*                                                                         *)
(* The data is abstracted to a version number per table: "ver" is what is  *)
(* on disk, "shared" what m_tables holds, and view[s] what a transaction's *)
(* m_modified_tables holds.  TableCommit models what happens inside one    *)
(* commit; this module models who may be in one.                           *)
(***************************************************************************)
EXTENDS Naturals, Sequences

CONSTANTS Sessions,    \* connections (THD and ConnectionInfo)
          Tables,      \* table names
          MaxReqs,     \* bound on the tables of one statement
          MaxVersion,  \* bound on the versions of a table
          Faults,      \* what else may happen: a subset of AllFaults
          Statements,  \* what clients execute: a subset of AllStatements
          Dropped,     \* the tables that DROP TABLE is used on
          None         \* no session, no version

AllFaults == {"kill", "flush", "close", "open", "commit"}

ASSUME FaultsAssumption == Faults \subseteq AllFaults
ASSUME DroppedAssumption == Dropped \subseteq Tables
ASSUME NoneAssumption == None \notin Sessions /\ None \notin Nat
ASSUME BoundAssumption == MaxReqs \in Nat \ {0} /\ MaxVersion \in Nat

\* "read" and "write" are F_RDLCK and F_WRLCK; "alter" is the F_WRLCK of an
\* ALTER TABLE, which external_lock tells apart.
Request == [table : Tables, mode : {"read", "write", "alter"}]

\* Any statement: an ALTER TABLE names one table.
AllStatements ==
  {q \in UNION {[1 .. n -> Request] : n \in 1 .. MaxReqs} :
     \A k \in DOMAIN q : q[k].mode = "alter" => DOMAIN q = {k}}

ASSUME StatementsAssumption == Statements \subseteq AllStatements

VARIABLES
  pc,          \* pc[s]: what the session is doing
  ret,         \* ret[s]: where a commit or rollback returns to
  stmt,        \* stmt[s]: the tables and modes of the open statement
  acq,         \* acq[s]: the requests whose external lock is held
  killed,      \* thd->killed
  deleted,     \* thd->some_tables_deleted
  old,         \* old[s]: the tables it has open in a version FLUSH made old
  autocommit,  \* ~ OPTION_NOT_AUTOCOMMIT
  rolled,      \* rolled[s]: external_lock(F_UNLCK) has done its rollback
  enlisted,    \* enlisted[s]: trans_register_ha was called for the statement
  view,        \* view[s][t]: the RCTable of t in m_modified_tables, or None
  dirty,       \* dirty[s]: the tables the transaction has loaded into
  todo,        \* todo[s]: the modified tables whose locks are not released
  reads,       \* reads[t]: read_lock_list
  write_lock,  \* write_lock[t]: the session of the write lock, or None
  registered,  \* the tables with an IBTableShared
  dropping,    \* the tables a DROP TABLE has name-locked
  ver,         \* ver[t]: the version on disk
  shared       \* shared[t]: the version of the RCTable in m_tables

session == <<pc, ret, stmt, acq, rolled, enlisted>>
flags == <<killed, deleted, old>>
work == <<view, dirty, todo>>
locks == <<reads, write_lock, registered>>
data == <<ver, shared>>
vars == <<session, flags, autocommit, work, locks, dropping, data>>

Lock == [by : Sessions, req : 1 .. MaxReqs, live : BOOLEAN]

TypeOK ==
  /\ pc \in [Sessions -> {"idle", "lock", "run", "undo", "abort", "reopen", "unlock", "failed",
                         "release", "close"}]
  /\ ret \in [Sessions -> {"idle", "undo", "abort", "reopen", "unlock", "close"}]
  /\ stmt \in [Sessions -> Statements \cup {<< >>}]
  /\ acq \in [Sessions -> SUBSET (1 .. MaxReqs)]
  /\ killed \in [Sessions -> BOOLEAN] /\ deleted \in [Sessions -> BOOLEAN]
  /\ old \in [Sessions -> SUBSET Tables] /\ autocommit \in [Sessions -> BOOLEAN]
  /\ rolled \in [Sessions -> BOOLEAN] /\ enlisted \in [Sessions -> BOOLEAN]
  /\ view \in [Sessions -> [Tables -> Nat \cup {None}]]
  /\ dirty \in [Sessions -> SUBSET Tables] /\ todo \in [Sessions -> SUBSET Tables]
  /\ reads \in [Tables -> SUBSET Lock]
  /\ write_lock \in [Tables -> Sessions \cup {None}]
  /\ registered \subseteq Tables /\ dropping \subseteq Tables
  /\ ver \in [Tables -> Nat] /\ shared \in [Tables -> Nat]

Init ==
  /\ pc = [s \in Sessions |-> "idle"] /\ ret = [s \in Sessions |-> "idle"]
  /\ stmt = [s \in Sessions |-> << >>] /\ acq = [s \in Sessions |-> {}]
  /\ killed = [s \in Sessions |-> FALSE] /\ deleted = [s \in Sessions |-> FALSE]
  /\ old = [s \in Sessions |-> {}] /\ autocommit \in [Sessions -> BOOLEAN]
  /\ rolled = [s \in Sessions |-> FALSE] /\ enlisted = [s \in Sessions |-> FALSE]
  /\ view = [s \in Sessions |-> [t \in Tables |-> None]]
  /\ dirty = [s \in Sessions |-> {}] /\ todo = [s \in Sessions |-> {}]
  /\ reads = [t \in Tables |-> {}] /\ write_lock = [t \in Tables |-> None]
  /\ registered = {} /\ dropping = {}
  /\ ver = [t \in Tables |-> 0] /\ shared = [t \in Tables |-> 0]

\* The session goes on at l.  At the end of a statement MySQL closes the tables
\* and resets the statement's transaction, thd->killed and some_tables_deleted.
Goto(s, l) ==
  /\ pc' = [pc EXCEPT ![s] = l]
  /\ stmt' = [stmt EXCEPT ![s] = IF l = "idle" THEN << >> ELSE @]
  /\ enlisted' = [enlisted EXCEPT ![s] = @ /\ l # "idle"]
  /\ killed' = [killed EXCEPT ![s] = @ /\ l # "idle"]
  /\ deleted' = [deleted EXCEPT ![s] = @ /\ l # "idle"]
  /\ old' = [old EXCEPT ![s] = IF l = "idle" THEN {} ELSE @]

Modified(s) == {t \in Tables : view[s][t] # None}
Opened(s) == {stmt[s][k].table : k \in DOMAIN stmt[s]}

\* The locks on t whose Transaction has been deleted.
Dangling(t) == {l \in reads[t] : ~ l.live}
-----------------------------------------------------------------------------
\* Opening a statement's tables: BrighthouseHandler::open registers each of
\* them.  A table that is name-locked, or open elsewhere in an old version,
\* cannot be opened, and ALTER TABLE first ends the session's transaction.
Open(s) ==
  \E q \in Statements :
    /\ pc[s] = "idle"
    /\ \A k \in DOMAIN q : q[k].table \notin dropping \cup UNION {old[r] : r \in Sessions}
    /\ (\E k \in DOMAIN q : q[k].mode = "alter") => Modified(s) = {}
    /\ stmt' = [stmt EXCEPT ![s] = q]
    /\ registered' = registered \cup {q[k].table : k \in DOMAIN q}
    /\ pc' = [pc EXCEPT ![s] = "lock"]
    /\ UNCHANGED <<ret, acq, rolled, enlisted, flags, autocommit, work, reads, write_lock,
                   dropping, data>>

Waiting(s) == pc[s] = "lock" /\ acq[s] # DOMAIN stmt[s]
NextReq(s, k) ==
  /\ k \in DOMAIN stmt[s] \ acq[s]
  /\ \A j \in DOMAIN stmt[s] \ acq[s] : k <= j
Polls(s) == ~ killed[s] /\ ~ deleted[s]

HasWriteLockForThread(s, t) == write_lock[t] = s

\* One outcome of the comparison of ids.  A lock whose Transaction is deleted may
\* also seem to be another's; the loop then polls once more, which changes nothing.
HasReadLockForOtherThread(s, t) == \E l \in reads[t] : l.by # s /\ l.live

\* A lock recorded for the request before its own.
CreateReadLockForLast(s, k) == [by |-> s, req |-> k - 1, live |-> TRUE]
CreateReadLockForThread(s, k) == [by |-> s, req |-> k, live |-> TRUE]

\* One successful turn of AcquireReadLock's polling loop.
AcquireReadLock(s, k) ==
  LET t == stmt[s][k].table IN
    /\ Waiting(s) /\ NextReq(s, k) /\ Polls(s)
    /\ stmt[s][k].mode = "read"
    /\ HasWriteLockForThread(s, t) \/ write_lock[t] = None
    /\ reads' = [reads EXCEPT ![t] = @ \cup {CreateReadLockForThread(s, k)}]
    /\ acq' = [acq EXCEPT ![s] = @ \cup {k}]
    /\ UNCHANGED <<pc, ret, stmt, rolled, enlisted, flags, autocommit, work, write_lock,
                   registered, dropping, data>>

\* What follows a write lock in external_lock: trans_register_ha, and AddTableWR
\* unless the statement is an ALTER TABLE.  AddTableWR opens the transaction's
\* own RCTable from the files, once per transaction; when that throws,
\* external_lock reports the error and still returns success.
WriteLocked(s, k, t) ==
  /\ write_lock' = [write_lock EXCEPT ![t] = s]
  /\ acq' = [acq EXCEPT ![s] = @ \cup {k}]
  /\ enlisted' = [enlisted EXCEPT ![s] = TRUE]
  /\ \/ /\ stmt[s][k].mode = "write" /\ view[s][t] = None
        /\ view' = [view EXCEPT ![s][t] = ver[t]]
     \/ /\ stmt[s][k].mode = "alter" \/ view[s][t] # None \/ "open" \in Faults
        /\ view' = view
  /\ UNCHANGED <<pc, ret, stmt, rolled, flags, autocommit, dirty, todo, reads, registered,
                 dropping, data>>

\* AcquireWriteLock without the test for other readers.
AcquireWriteLockBesideReaders(s, k) ==
  LET t == stmt[s][k].table IN
    /\ Waiting(s) /\ NextReq(s, k) /\ Polls(s)
    /\ stmt[s][k].mode # "read"
    /\ HasWriteLockForThread(s, t) \/ write_lock[t] = None
    /\ WriteLocked(s, k, t)

\* One successful turn of AcquireWriteLock's polling loop.
AcquireWriteLock(s, k) ==
  LET t == stmt[s][k].table IN
    /\ Waiting(s) /\ NextReq(s, k) /\ Polls(s)
    /\ stmt[s][k].mode # "read"
    /\ \/ HasWriteLockForThread(s, t)
       \/ write_lock[t] = None /\ ~ HasReadLockForOtherThread(s, t)
    /\ WriteLocked(s, k, t)

\* A loop that looks at thd->killed only, and polls on if tables were deleted.
AcquireFailsIfKilled(s) ==
  /\ Waiting(s) /\ ~ Polls(s)
  /\ \/ /\ killed[s] /\ Goto(s, "undo")
        /\ UNCHANGED <<ret, acq, rolled, autocommit, work, locks, dropping, data>>
     \/ ~ killed[s] /\ UNCHANGED vars

\* The polling loop gives up, and lock_external undoes the locks taken so far.
AcquireFails(s) ==
  /\ Waiting(s) /\ ~ Polls(s)
  /\ Goto(s, "undo")
  /\ UNCHANGED <<ret, acq, rolled, autocommit, work, locks, dropping, data>>

\* mysql_lock_tables has every lock: it gives them back to reopen the tables that
\* FLUSH or DROP have marked, or because the thread was killed, or the statement
\* runs.
AllLocked(s) ==
  /\ pc[s] = "lock" /\ ~ Waiting(s)
  /\ \/ deleted[s] /\ Goto(s, "reopen")
     \/ ~ deleted[s] /\ killed[s] /\ Goto(s, "abort")
     \/ ~ deleted[s] /\ ~ killed[s] /\ Goto(s, "run")
  /\ UNCHANGED <<ret, acq, rolled, autocommit, work, locks, dropping, data>>

\* LOAD DATA into a table of the statement; RefreshTable asserts that the table
\* is in m_modified_tables.
Load(s) ==
  \E k \in DOMAIN stmt[s] :
    LET t == stmt[s][k].table IN
      /\ pc[s] = "run" /\ stmt[s][k].mode = "write"
      /\ t \in Modified(s) /\ ver[t] < MaxVersion
      /\ dirty' = [dirty EXCEPT ![s] = @ \cup {t}]
      /\ UNCHANGED <<session, flags, autocommit, view, todo, locks, dropping, data>>
-----------------------------------------------------------------------------
\* drop_rename_mutex, held through Commit, Rollback and DropTable.
DropRenameMutexFree == \A s \in Sessions : pc[s] # "release"

\* Transaction::Rollback of s, which then continues at l.
Rollback(s, l) ==
  /\ DropRenameMutexFree
  /\ todo' = [todo EXCEPT ![s] = Modified(s)]
  /\ dirty' = [dirty EXCEPT ![s] = {}]
  /\ ret' = [ret EXCEPT ![s] = l]
  /\ Goto(s, "release")
  /\ UNCHANGED <<acq, autocommit, view, locks, dropping, data>>

\* Commit that publishes the RCTable as it was before the LOADs.
CommitUnrefreshed(s, l) ==
  /\ DropRenameMutexFree
  /\ ver' = [t \in Tables |-> IF t \in dirty[s] THEN ver[t] + 1 ELSE ver[t]]
  /\ shared' = [t \in Tables |-> IF t \in Modified(s) THEN view[s][t] ELSE shared[t]]
  /\ todo' = [todo EXCEPT ![s] = Modified(s)]
  /\ dirty' = [dirty EXCEPT ![s] = {}]
  /\ ret' = [ret EXCEPT ![s] = l]
  /\ Goto(s, "release")
  /\ UNCHANGED <<acq, autocommit, view, locks, dropping>>

\* Transaction::Commit of s up to the release of its locks: the tables loaded
\* into get a new version, and ReplaceTable puts the transaction's RCTable of
\* every modified table into m_tables.
Commit(s, l) ==
  /\ DropRenameMutexFree
  /\ ver' = [t \in Tables |-> IF t \in dirty[s] THEN ver[t] + 1 ELSE ver[t]]
  /\ shared' = [t \in Tables |->
       IF t \in dirty[s] THEN ver[t] + 1
       ELSE IF t \in Modified(s) THEN view[s][t] ELSE shared[t]]
  /\ todo' = [todo EXCEPT ![s] = Modified(s)]
  /\ dirty' = [dirty EXCEPT ![s] = {}]
  /\ ret' = [ret EXCEPT ![s] = l]
  /\ Goto(s, "release")
  /\ UNCHANGED <<acq, autocommit, view, locks, dropping>>

\* Transaction::Commit of s throws.  Until the last table has been flushed some of
\* the tables loaded into may have got their new version, and none its RCTable in
\* m_tables.  drop_rename_mutex is free until the rollback that follows.
CommitFails(s, l) ==
  \E done \in SUBSET dirty[s] :
    /\ "commit" \in Faults /\ DropRenameMutexFree
    /\ Modified(s) \ done # {}
    /\ ver' = [t \in Tables |-> IF t \in done THEN ver[t] + 1 ELSE ver[t]]
    /\ dirty' = [dirty EXCEPT ![s] = @ \ done]
    /\ ret' = [ret EXCEPT ![s] = l]
    /\ Goto(s, "failed")
    /\ UNCHANGED <<acq, autocommit, view, todo, locks, dropping, shared>>

\* rcbase_commit rolls back what it could not commit.
RollbackFailed(s) == pc[s] = "failed" /\ UNCHANGED rolled /\ Rollback(s, ret[s])

\* rcbase_commit at the end of a statement (all = false).
rcbase_commit(s, l) ==
  \/ killed[s] /\ Rollback(s, l)
  \/ ~ killed[s] /\ autocommit[s] /\ (Commit(s, l) \/ CommitFails(s, l))
  \/ /\ ~ killed[s] /\ ~ autocommit[s]
     /\ Goto(s, l)
     /\ UNCHANGED <<ret, acq, autocommit, work, locks, dropping, data>>

\* IBTableShared::ReleaseLocks of one modified table: the locks whose id is the
\* one of s's transaction, among them any dangling ones.
ReleaseLocks(s, t) ==
  \E d \in SUBSET Dangling(t) :
    /\ pc[s] = "release" /\ t \in todo[s]
    /\ write_lock' = IF HasWriteLockForThread(s, t)
                     THEN [write_lock EXCEPT ![t] = None] ELSE write_lock
    /\ reads' = [reads EXCEPT ![t] = {l \in @ : ~ (l.by = s /\ l.live) /\ l \notin d}]
    /\ todo' = [todo EXCEPT ![s] = @ \ {t}]
    /\ UNCHANGED <<session, flags, autocommit, view, dirty, registered, dropping, data>>

\* A read lock once the transaction of s has been deleted.
AfterTransaction(s, l) == [by |-> l.by, req |-> l.req, live |-> l.live /\ l.by # s]

\* The end of Commit or Rollback (m_modified_tables.clear, ReleaseWriteLocks of
\* every table), and EndTransaction, which deletes the Transaction.
EndTransaction(s) ==
  /\ pc[s] = "release" /\ todo[s] = {}
  /\ view' = [view EXCEPT ![s] = [t \in Tables |-> None]]
  /\ write_lock' = [t \in Tables |-> IF write_lock[t] = s THEN None ELSE write_lock[t]]
  /\ reads' = [t \in Tables |-> {AfterTransaction(s, l) : l \in reads[t]}]
  /\ Goto(s, ret[s])
  /\ ret' = [ret EXCEPT ![s] = "idle"]
  /\ UNCHANGED <<acq, rolled, autocommit, dirty, todo, registered, dropping, data>>
-----------------------------------------------------------------------------
\* ha_autocommit_or_rollback, for a statement that trans_register_ha has
\* enlisted, with or without an error.
EndStatement(s, error, l) ==
  /\ UNCHANGED rolled
  /\ \/ enlisted[s] /\ error /\ Rollback(s, l)
     \/ enlisted[s] /\ ~ error /\ rcbase_commit(s, l)
     \/ /\ ~ enlisted[s]
        /\ Goto(s, l)
        /\ UNCHANGED <<ret, acq, autocommit, work, locks, dropping, data>>

\* close_thread_tables after the statement has run: the transaction first, the
\* locks afterwards.
Finish(s) == pc[s] = "run" /\ \E error \in BOOLEAN : EndStatement(s, error, "unlock")

\* external_lock(F_UNLCK) of a killed thread begins with a rollback.
RollbackKilled(s) ==
  /\ pc[s] \in {"unlock", "undo", "abort", "reopen"} /\ acq[s] # {}
  /\ killed[s] /\ ~ rolled[s]
  /\ rolled' = [rolled EXCEPT ![s] = TRUE]
  /\ Rollback(s, pc[s])

\* unlock_external goes through the tables in order, lock_external's undo
\* backwards.
UnlockReq(s, k) ==
  /\ k \in acq[s]
  /\ \A j \in acq[s] : IF pc[s] = "undo" THEN j <= k ELSE k <= j

\* A read lock is released always, a write lock if "all" holds, through a weak
\* pointer that has expired when the lock is gone.
ReleaseLockIf(s, k, all) ==
  LET t == stmt[s][k].table
      read == stmt[s][k].mode = "read" IN
    /\ reads' = [reads EXCEPT ![t] = {l \in @ : ~ (read /\ l.by = s /\ l.req = k)}]
    /\ write_lock' = [write_lock EXCEPT ![t] = IF ~ read /\ all /\ @ = s THEN None ELSE @]

ReleaseLockAlways(s, k) == ReleaseLockIf(s, k, TRUE)
ReleaseLockKeepsReads(s, k) ==
  /\ reads' = reads
  /\ write_lock' = [write_lock EXCEPT ![stmt[s][k].table] = IF @ = s THEN None ELSE @]

ReleaseLockIfNeeded(s, k) ==
  ReleaseLockIf(s, k, autocommit[s] \/ stmt[s][k].mode = "alter")

\* The rest of external_lock(F_UNLCK).
Unlock(s, k) ==
  /\ pc[s] \in {"unlock", "undo", "abort", "reopen"} /\ UnlockReq(s, k)
  /\ killed[s] => rolled[s]
  /\ ReleaseLockIfNeeded(s, k)
  /\ acq' = [acq EXCEPT ![s] = @ \ {k}]
  /\ rolled' = [rolled EXCEPT ![s] = FALSE]
  /\ UNCHANGED <<pc, ret, stmt, enlisted, flags, autocommit, work, registered, dropping, data>>

\* The tables are closed.  After a failed lock or before a reopen the
\* statement's transaction ends only now, without the locks; a reopened
\* statement then starts again.
Close(s) ==
  /\ acq[s] = {}
  /\ \/ /\ pc[s] = "unlock"
        /\ Goto(s, "idle")
        /\ UNCHANGED <<ret, acq, rolled, autocommit, work, locks, dropping, data>>
     \/ pc[s] \in {"undo", "abort"} /\ EndStatement(s, TRUE, "idle")
     \/ pc[s] = "reopen" /\ EndStatement(s, FALSE, "idle")

\* COMMIT and ROLLBACK (also a killed COMMIT), and the end of a connection.
CommitStatement(s) ==
  /\ pc[s] = "idle" /\ ~ autocommit[s] /\ UNCHANGED rolled
  /\ Commit(s, "idle") \/ CommitFails(s, "idle")
RollbackStatement(s) ==
  pc[s] = "idle" /\ ~ autocommit[s] /\ UNCHANGED rolled /\ Rollback(s, "idle")
CloseConnection(s) ==
  pc[s] = "idle" /\ "close" \in Faults /\ UNCHANGED rolled /\ Rollback(s, "close")

\* rcbase_close_connection releases the locks of the transaction that follows,
\* and deletes the ConnectionInfo; the next connection starts afresh.
ClearThreadParams(s) ==
  /\ pc[s] = "close"
  /\ Goto(s, "idle")
  /\ \E b \in BOOLEAN : autocommit' = [autocommit EXCEPT ![s] = b]
  /\ reads' = [t \in Tables |-> {l \in reads[t] : ~ (l.by = s /\ l.live)}]
  /\ write_lock' = [t \in Tables |-> IF write_lock[t] = s THEN None ELSE write_lock[t]]
  /\ UNCHANGED <<ret, acq, rolled, work, registered, dropping, data>>
-----------------------------------------------------------------------------
\* KILL QUERY of a statement.
Kill(s) ==
  /\ "kill" \in Faults /\ ~ killed[s] /\ pc[s] \notin {"idle", "close"}
  /\ killed' = [killed EXCEPT ![s] = TRUE]
  /\ UNCHANGED <<session, deleted, old, autocommit, work, locks, dropping, data>>

\* The sessions that have a table of ts open are told to give it up.
MarkDeleted(ts) ==
  deleted' = [s \in Sessions |-> deleted[s] \/ Opened(s) \cap ts # {}]

\* FLUSH TABLES.
Flush ==
  /\ "flush" \in Faults
  /\ MarkDeleted(Tables)
  /\ old' = [s \in Sessions |-> Opened(s)]
  /\ UNCHANGED <<session, killed, autocommit, work, locks, dropping, data>>

\* DROP TABLE name-locks the table and tells its users.
StartDrop(t) ==
  /\ t \in Dropped /\ t \in registered \ dropping
  /\ dropping' = dropping \cup {t}
  /\ MarkDeleted({t})
  /\ UNCHANGED <<session, killed, old, autocommit, work, locks, data>>

\* DropTable that leaves t in the open transactions.
DropTableKeepsModified(t) ==
  /\ t \in dropping /\ DropRenameMutexFree
  /\ \A s \in Sessions : t \notin Opened(s)
  /\ registered' = registered \ {t}
  /\ reads' = [reads EXCEPT ![t] = {}] /\ write_lock' = [write_lock EXCEPT ![t] = None]
  /\ dropping' = dropping \ {t}
  /\ ver' = [ver EXCEPT ![t] = 0] /\ shared' = [shared EXCEPT ![t] = 0]
  /\ UNCHANGED <<session, flags, autocommit, work>>

\* RCEngine::DropTable once nobody has the table open: it takes the table out of
\* every transaction and unregisters its locks.  (It unregisters a table that is in
\* m_tables, where open puts each table it registers; a table whose open failed
\* there stays registered, without locks, as if it had been registered anew.)
\* The next table of that name is a new one.
DropTable(t) ==
  /\ t \in dropping /\ DropRenameMutexFree
  /\ \A s \in Sessions : t \notin Opened(s)
  /\ view' = [s \in Sessions |-> [view[s] EXCEPT ![t] = None]]
  /\ dirty' = [s \in Sessions |-> dirty[s] \ {t}]
  /\ registered' = registered \ {t}
  /\ reads' = [reads EXCEPT ![t] = {}] /\ write_lock' = [write_lock EXCEPT ![t] = None]
  /\ dropping' = dropping \ {t}
  /\ ver' = [ver EXCEPT ![t] = 0] /\ shared' = [shared EXCEPT ![t] = 0]
  /\ UNCHANGED <<session, flags, autocommit, todo>>

\* What a session does by itself once it has a statement to execute.
Step(s) ==
  \/ \E k \in 1 .. MaxReqs : AcquireReadLock(s, k) \/ AcquireWriteLock(s, k) \/ Unlock(s, k)
  \/ AcquireFails(s) \/ AllLocked(s) \/ Finish(s) \/ RollbackKilled(s) \/ Close(s)
  \/ RollbackFailed(s)
  \/ \E t \in Tables : ReleaseLocks(s, t)
  \/ EndTransaction(s) \/ ClearThreadParams(s)

\* What its client asks for.
Ask(s) ==
  Open(s) \/ Load(s) \/ CommitStatement(s) \/ RollbackStatement(s) \/ CloseConnection(s)

Next ==
  \/ \E s \in Sessions : Step(s) \/ Ask(s) \/ Kill(s)
  \/ Flush
  \/ \E t \in Tables : StartDrop(t) \/ DropTable(t)

Spec == Init /\ [][Next]_vars

\* Statements end, polling goes on, and whoever waits for drop_rename_mutex,
\* which is free again and again, gets it.
Fairness ==
  /\ \A s \in Sessions : SF_vars(Step(s))
  /\ \A t \in Tables : SF_vars(DropTable(t))

FairSpec == Spec /\ Fairness
-----------------------------------------------------------------------------
\* s ends its transaction, or, under autocommit=1, a statement of s that will not
\* run unlocks its tables: write locks are given back while their tables are still
\* in m_modified_tables.
GivingBack(s) ==
  \/ pc[s] = "release"
  \/ autocommit[s] /\ pc[s] \in {"undo", "abort", "reopen", "failed"}

GivenBack(s, t) == t \in Modified(s) /\ write_lock[t] # s /\ GivingBack(s)

InUse(s, t) == t \in Opened(s) /\ pc[s] = "run"

\* While a transaction has a table in m_modified_tables and has not given its lock
\* back, no other session runs a statement on that table, and no other transaction
\* has it but one that has given its lock back.  One that has done so has nothing
\* loaded: what AddTableWR, the loader and Commit rely on when they write a table's
\* files, through statement ends, KILL, FLUSH TABLES, DROP TABLE, failing opens
\* and failing commits.
WriterIsAlone ==
  \A s \in Sessions, t \in Tables :
    /\ t \in Modified(s) /\ ~ GivenBack(s, t) =>
         \A r \in Sessions \ {s} : ~ InUse(r, t) /\ (t \in Modified(r) => GivenBack(r, t))
    /\ t \in dirty[s] => t \in Modified(s) /\ ~ GivenBack(s, t)

\* No lock is leaked: a read lock belongs to a request that its session still
\* has to unlock, its Transaction is dead only in the window between the end of
\* the transaction and that unlock, and an idle autocommit session has no write
\* lock.  A leaked lock would block a table until the server restarts.
NoLeakedLock ==
  /\ \A t \in Tables : \A l \in reads[t] :
       /\ l.req \in acq[l.by] /\ stmt[l.by][l.req] = [table |-> t, mode |-> "read"]
       /\ l.live \/ pc[l.by] \in {"unlock", "undo", "abort", "reopen", "release"}
  /\ \A t \in Tables, s \in Sessions :
       write_lock[t] = s => ~ (autocommit[s] /\ pc[s] = "idle")

\* GetTableShare's assertion: the tables of open statements and transactions
\* have an IBTableShared, although DROP TABLE unregisters tables under
\* transactions that have modified them.
SharesRegistered ==
  \A s \in Sessions : Opened(s) \cup Modified(s) \cup todo[s] \subseteq registered

\* The two ways in which m_tables may come to lag behind the disk.  A statement
\* that is made to reopen its tables has given the lock on t back and then commits,
\* which puts the RCTable it opened before into m_tables.
CommitsGivenBack(s, t) == pc[s] = "reopen" /\ pc'[s] = "release" /\ GivenBack(s, t)

\* A commit of several tables throws after t has got its new version.
CommitBreaksOff(s, t) ==
  pc[s] # "failed" /\ pc'[s] = "failed" /\ t \in dirty[s] /\ Modified(s) # {t}

\* Every other step leaves m_tables with the version on disk: no commit that has
\* its locks, and none of one table that fails, replaces the shared RCTable by one
\* that was opened before another transaction's commit, or misses a new version
\* (Transaction::Commit, RCEngine::ReplaceTable).
PublishesCurrent ==
  [][\A t \in Tables :
       shared[t] = ver[t] /\ shared'[t] # ver'[t] =>
         \E s \in Sessions : CommitsGivenBack(s, t) \/ CommitBreaksOff(s, t)]_vars

\* A DROP TABLE goes through, even when the users of the table wait for locks
\* that an idle transaction keeps or that they keep from each other:
\* some_tables_deleted ends their polling.
DropCompletes == \A t \in Tables : t \in dropping ~> t \notin dropping
-----------------------------------------------------------------------------
\* The inductive invariant behind WriterIsAlone and PublishesCurrent.

\* A session keeps the write lock of every table it has modified until it
\* begins to end the transaction; under autocommit=1 that may be while it gives
\* the locks back.  An ALTER TABLE is the only user of its transaction.
TransactionInv(s) ==
  /\ \A t \in Modified(s) : write_lock[t] = s \/ GivingBack(s)
  /\ autocommit[s] /\ Modified(s) # {} =>
       \/ pc[s] \in {"lock", "run", "undo", "abort", "reopen"} /\ enlisted[s]
       \/ pc[s] \in {"failed", "release"}
  /\ (\E k \in DOMAIN stmt[s] : stmt[s][k].mode = "alter") => Modified(s) = {}
  /\ pc[s] = "close" => Modified(s) = {}

\* What a transaction has loaded is in a table it has locked; nobody else gives the
\* table a new version meanwhile.
VersionInv(s) ==
  /\ \A t \in dirty[s] : t \in Modified(s) /\ write_lock[t] = s
  /\ pc[s] = "release" => dirty[s] = {}
  /\ autocommit[s] /\ dirty[s] # {} => pc[s] \in {"run", "failed"}
  /\ pc[s] \notin {"failed", "release"} =>
       \A t \in Modified(s) : write_lock[t] = s => view[s][t] = ver[t]

\* A session that takes locks or runs has, for each request served, a live read
\* lock or the write lock; it runs with all of them.
RequestInv(s) ==
  /\ acq[s] \subseteq DOMAIN stmt[s]
  /\ pc[s] = "run" => acq[s] = DOMAIN stmt[s]
  /\ pc[s] \in {"idle", "close"} => stmt[s] = << >>
  /\ pc[s] \in {"failed", "release"} =>
       stmt[s] = << >> \/ (ret[s] # "close" /\ (ret[s] = "idle" => acq[s] = {}))
  /\ pc[s] \in {"lock", "run"} =>
       \A k \in acq[s] :
         IF stmt[s][k].mode = "read"
         THEN CreateReadLockForThread(s, k) \in reads[stmt[s][k].table]
         ELSE write_lock[stmt[s][k].table] = s

\* A live read lock and a write lock on one table are of one session.
LockInv ==
  \A t \in Tables : \A l \in reads[t] : l.live => write_lock[t] \in {l.by, None}

LockProtocolInv ==
  /\ TypeOK
  /\ \A s \in Sessions : TransactionInv(s) /\ RequestInv(s) /\ VersionInv(s)
  /\ LockInv
=============================================================================
