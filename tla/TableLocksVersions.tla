------------------------- MODULE TableLocksVersions -------------------------
(***************************************************************************)
(* The versions of the tables under the locks: VersionInv is preserved by  *)
(* every step that starts from the invariant of the lock protocol.         *)
(***************************************************************************)
EXTENDS TableLocksTypes

USE NoneAssumption, BoundAssumption

\* What a step of session s leaves alone that VersionInv of another session speaks
\* of: its transaction, its write locks, and the versions of the tables it locks.
VersionFrame(s) ==
  \A r \in Sessions \ {s} :
    /\ pc'[r] = pc[r] /\ autocommit'[r] = autocommit[r]
    /\ view'[r] = view[r] /\ dirty'[r] = dirty[r]
    /\ \A t \in Tables : (write_lock'[t] = r) = (write_lock[t] = r)
    /\ \A t \in Tables : write_lock[t] = r => ver'[t] = ver[t]

\* A step of another session preserves a session's part of the invariant.
LEMMA VersionOther ==
  ASSUME TypeOK, NEW s, VersionFrame(s), NEW r \in Sessions \ {s}, VersionInv(r)
  PROVE  VersionInv(r)'
<1>1. /\ pc'[r] = pc[r] /\ autocommit'[r] = autocommit[r]
      /\ view'[r] = view[r] /\ dirty'[r] = dirty[r]
      /\ \A t \in Tables : (write_lock'[t] = r) = (write_lock[t] = r)
      /\ \A t \in Tables : write_lock[t] = r => ver'[t] = ver[t]
  BY Zenon DEF VersionFrame
<1>2. Modified(r)' = Modified(r)
  BY <1>1 DEF Modified
<1>3. (\A t \in Modified(r) : t \in Tables) /\ (\A t \in dirty[r] : t \in Tables)
  BY DEF Modified, TypeOK
<1> QED
  BY <1>1, <1>2, <1>3 DEF VersionInv

\* A step that changes no transaction, lock or version, and from which a session
\* that has loaded under autocommit=1 comes out running.
LEMMA VersionQuiet ==
  ASSUME TypeOK, NEW s \in Sessions, VersionInv(s),
         UNCHANGED <<autocommit, view, dirty, write_lock, ver>>,
         \A r \in Sessions \ {s} : pc'[r] = pc[r],
         pc[s] \notin {"failed", "release"}, pc'[s] \notin {"failed", "release"},
         autocommit[s] /\ dirty[s] # {} => pc'[s] = "run"
  PROVE  VersionFrame(s) /\ VersionInv(s)'
<1>1. Modified(s)' = Modified(s)
  BY DEF Modified
<1>2. VersionInv(s)'
  BY <1>1 DEF VersionInv
<1>3. VersionFrame(s)
  BY DEF VersionFrame
<1> QED
  BY <1>2, <1>3

\* A transaction that ends, or fails to, gives new versions only to tables that it
\* has locked.
LEMMA VersionEnds ==
  ASSUME TypeOK, NEW s \in Sessions, NEW l, VersionInv(s),
         Rollback(s, l) \/ Commit(s, l) \/ CommitFails(s, l)
  PROVE  VersionFrame(s) /\ VersionInv(s)'
<1>1. PICK m \in {"failed", "release"} :
        Goto(s, m) /\ UNCHANGED <<autocommit, view, write_lock>>
  BY DEF Rollback, Commit, CommitFails, locks
<1>2. /\ dirty'[s] \subseteq dirty[s] /\ (m = "release" => dirty'[s] = {})
      /\ \A r \in Sessions \ {s} : dirty'[r] = dirty[r]
  <2>1. m \in Labels
    BY DEF Labels
  <2>2. pc'[s] = m
    BY <1>1, <2>1, GotoFacts
  <2>3. CASE Rollback(s, l) \/ Commit(s, l)
    BY <2>3 DEF Rollback, Commit, TypeOK
  <2>4. CASE CommitFails(s, l)
    <3>1. m = "failed"
      BY <1>1, <2>2, <2>4 DEF CommitFails, Goto, TypeOK
    <3> QED
      BY <2>4, <3>1 DEF CommitFails, TypeOK
  <2> QED
    BY <2>3, <2>4
<1>3. \A t \in Tables \ dirty[s] : ver'[t] = ver[t]
  BY DEF Rollback, Commit, CommitFails, data, TypeOK
<1>4. pc'[s] = m /\ \A r \in Sessions \ {s} : pc'[r] = pc[r]
  BY <1>1, GotoFacts DEF Labels
<1>5. \A t \in dirty[s] : t \in Modified(s) /\ write_lock[t] = s
  BY Zenon DEF VersionInv
<1>6. VersionFrame(s)
  BY <1>1, <1>2, <1>3, <1>4, <1>5 DEF VersionFrame
<1>7. Modified(s)' = Modified(s)
  BY <1>1 DEF Modified
<1>8. VersionInv(s)'
  BY <1>1, <1>2, <1>4, <1>5, <1>7 DEF VersionInv
<1> QED
  BY <1>6, <1>8

\* The end of a statement's transaction.
LEMMA VersionEndStatement ==
  ASSUME TypeOK, NEW s \in Sessions, NEW l \in {"idle", "unlock"}, NEW e \in BOOLEAN,
         EndStatement(s, e, l), TransactionInv(s), VersionInv(s),
         pc[s] \in {"run", "undo", "abort", "reopen"}
  PROVE  VersionFrame(s) /\ VersionInv(s)'
<1>1. CASE Rollback(s, l) \/ Commit(s, l) \/ CommitFails(s, l)
  BY <1>1, VersionEnds
<1>2. CASE /\ Goto(s, l) /\ (~ enlisted[s] \/ ~ autocommit[s])
           /\ UNCHANGED <<ret, acq, autocommit, work, locks, dropping, data>>
  <2>1. l \in Labels /\ UNCHANGED <<autocommit, view, dirty, write_lock, ver>>
    BY <1>2 DEF Labels, work, locks, data
  <2>2. pc'[s] = l /\ \A r \in Sessions \ {s} : pc'[r] = pc[r]
    BY <1>2, <2>1, GotoFacts
  <2>3. autocommit[s] => dirty[s] = {}
    BY <1>2 DEF TransactionInv, VersionInv
  <2> QED
    BY <2>1, <2>2, <2>3, VersionQuiet
<1> QED
  BY <1>1, <1>2 DEF EndStatement, rcbase_commit

\* A write lock comes with the version on disk.
LEMMA VersionAcquireWrite ==
  ASSUME TypeOK, NEW s \in Sessions, NEW k \in 1 .. MaxReqs, AcquireWriteLock(s, k),
         TransactionInv(s), VersionInv(s)
  PROVE  VersionFrame(s) /\ VersionInv(s)'
<1> DEFINE u == stmt[s][k].table
<1>1. /\ pc[s] = "lock" /\ k \in DOMAIN stmt[s] /\ write_lock[u] \in {s, None}
      /\ write_lock' = [write_lock EXCEPT ![u] = s]
      /\ UNCHANGED <<pc, autocommit, dirty, ver>>
  BY DEF AcquireWriteLock, WriteLocked, Waiting, NextReq, HasWriteLockForThread, data
<1>2. \/ view[s][u] = None /\ view' = [view EXCEPT ![s][u] = ver[u]]
      \/ view' = view
  BY DEF AcquireWriteLock, WriteLocked
<1>3. u \in Tables
  BY <1>1, RequestFacts
<1>4. write_lock'[u] = s /\ \A t \in Tables \ {u} : write_lock'[t] = write_lock[t]
  BY <1>1, <1>3 DEF TypeOK
<1>5. /\ \A r \in Sessions \ {s} : view'[r] = view[r]
      /\ \A t \in Tables \ {u} : view'[s][t] = view[s][t]
      /\ view'[s][u] = view[s][u] \/ (view[s][u] = None /\ view'[s][u] = ver[u])
  <2>1. view \in [Sessions -> [Tables -> Nat \cup {None}]]
    BY DEF TypeOK
  <2> QED
    BY <1>2, <1>3, <2>1
<1>6. VersionFrame(s)
  BY <1>1, <1>3, <1>4, <1>5, SMTT(30) DEF VersionFrame
<1>7. Modified(s) \subseteq Modified(s)' /\ Modified(s)' \subseteq Modified(s) \cup {u}
  BY <1>5 DEF Modified, TypeOK
<1>8. \A t \in Modified(s) : t \in Tables /\ write_lock[t] = s /\ view[s][t] = ver[t]
  BY <1>1 DEF TransactionInv, GivingBack, VersionInv, Modified
<1>9. \A t \in Modified(s)' : view'[s][t] = ver'[t]
  <2> SUFFICES ASSUME NEW t \in Modified(s)' PROVE view'[s][t] = ver'[t]
    OBVIOUS
  <2>1. t \in Tables /\ view'[s][t] # None
    BY DEF Modified
  <2>2. CASE t # u
    BY <1>1, <1>5, <1>7, <1>8, <2>1, <2>2
  <2>3. CASE t = u
    BY <1>1, <1>5, <1>8, <2>1, <2>3 DEF Modified
  <2> QED
    BY <2>2, <2>3
<1>10. VersionInv(s)'
  BY <1>1, <1>4, <1>7, <1>8, <1>9 DEF VersionInv
<1> QED
  BY <1>6, <1>10

\* Locks are given up: by a transaction that has ended, or has nothing loaded.
LEMMA VersionFewerLocks ==
  ASSUME TypeOK, NEW s \in Sessions,
         \A r \in Sessions \ {s} : /\ pc'[r] = pc[r] /\ autocommit'[r] = autocommit[r]
                                   /\ view'[r] = view[r],
         UNCHANGED <<dirty, ver>>, dirty[s] = {},
         \A t \in Tables : write_lock'[t] = write_lock[t]
                           \/ (write_lock[t] = s /\ write_lock'[t] = None),
         pc'[s] \notin {"failed", "release"} =>
           \A t \in Modified(s)' : view'[s][t] = ver[t] \/ write_lock'[t] # s
  PROVE  VersionFrame(s) /\ VersionInv(s)'
<1>1. VersionFrame(s)
  BY DEF VersionFrame
<1>2. VersionInv(s)'
  BY DEF VersionInv
<1> QED
  BY <1>1, <1>2

\* The locks that the end of a transaction, of a request or of a connection gives up.
LEMMA VersionGivesUp ==
  ASSUME TypeOK, NEW s \in Sessions, TransactionInv(s), RequestInv(s), VersionInv(s),
         \/ \E t \in Tables : ReleaseLocks(s, t)
         \/ EndTransaction(s) \/ ClearThreadParams(s)
         \/ \E k \in 1 .. MaxReqs : Unlock(s, k)
  PROVE  VersionFrame(s) /\ VersionInv(s)'
<1>1. ASSUME NEW u \in Tables, ReleaseLocks(s, u) PROVE VersionFrame(s) /\ VersionInv(s)'
  <2>1. pc[s] = "release" /\ UNCHANGED <<pc, autocommit, view, dirty, ver>>
    BY <1>1 DEF ReleaseLocks, session, data
  <2>2. dirty[s] = {}
    BY <2>1 DEF VersionInv
  <2>3. \A t \in Tables : write_lock'[t] = write_lock[t]
                          \/ (write_lock[t] = s /\ write_lock'[t] = None)
    BY <1>1 DEF ReleaseLocks, HasWriteLockForThread, TypeOK
  <2> QED
    BY <2>1, <2>2, <2>3, VersionFewerLocks
<1>2. CASE EndTransaction(s)
  <2>1. /\ pc[s] = "release" /\ Goto(s, ret[s]) /\ UNCHANGED <<autocommit, dirty, ver>>
        /\ view' = [view EXCEPT ![s] = [t \in Tables |-> None]]
        /\ write_lock' = [t \in Tables |-> IF write_lock[t] = s THEN None ELSE write_lock[t]]
    BY <1>2, ZenonT(60) DEF EndTransaction, data
  <2>2. ret[s] \in Labels
    BY DEF TypeOK, Labels
  <2>3. \A r \in Sessions \ {s} : pc'[r] = pc[r] /\ view'[r] = view[r]
    <3>1. \A r \in Sessions \ {s} : pc'[r] = pc[r]
      BY <2>1, <2>2, GotoFacts
    <3>2. \A r \in Sessions \ {s} : view'[r] = view[r]
      BY <2>1 DEF TypeOK
    <3> QED
      BY <3>1, <3>2
  <2>4. dirty[s] = {}
    BY <2>1 DEF VersionInv
  <2>5. Modified(s)' = {}
    BY <2>1 DEF Modified, TypeOK
  <2> QED
    BY <2>1, <2>3, <2>4, <2>5, VersionFewerLocks
<1>3. CASE ClearThreadParams(s)
  <2>1. /\ pc[s] = "close" /\ Goto(s, "idle") /\ UNCHANGED <<view, dirty, ver>>
        /\ write_lock' = [t \in Tables |-> IF write_lock[t] = s THEN None ELSE write_lock[t]]
        /\ \A r \in Sessions \ {s} : autocommit'[r] = autocommit[r]
    BY <1>3 DEF ClearThreadParams, TypeOK, work, data
  <2>2. \A r \in Sessions \ {s} : pc'[r] = pc[r]
    BY <2>1, GotoFacts DEF Labels
  <2>3. Modified(s) = {} /\ Modified(s)' = {}
    BY <2>1 DEF TransactionInv, Modified
  <2>4. dirty[s] = {}
    BY <2>3 DEF VersionInv
  <2> QED
    BY <2>1, <2>2, <2>3, <2>4, VersionFewerLocks
<1>4. ASSUME NEW k \in 1 .. MaxReqs, Unlock(s, k) PROVE VersionFrame(s) /\ VersionInv(s)'
  <2> DEFINE u == stmt[s][k].table
             all == autocommit[s] \/ stmt[s][k].mode = "alter"
  <2>1. /\ pc[s] \in {"unlock", "undo", "abort", "reopen"} /\ k \in acq[s]
        /\ write_lock' = [write_lock EXCEPT ![u] =
                            IF stmt[s][k].mode # "read" /\ all /\ @ = s THEN None ELSE @]
        /\ UNCHANGED <<pc, autocommit, view, dirty, ver>>
    BY <1>4 DEF Unlock, UnlockReq, ReleaseLockIfNeeded, ReleaseLockIf, work, data
  <2>2. CASE ~ all
    <3>1. write_lock' = write_lock
      BY <2>1, <2>2 DEF TypeOK
    <3> QED
      BY <2>1, <2>2, <3>1, VersionQuiet
  <2>3. CASE all
    <3>1. k \in DOMAIN stmt[s]
      BY <2>1 DEF RequestInv
    <3>2. dirty[s] = {}
      BY <2>1, <2>3, <3>1 DEF TransactionInv, VersionInv
    <3>3. \A t \in Tables : write_lock'[t] = write_lock[t]
                            \/ (write_lock[t] = s /\ write_lock'[t] = None)
      BY <2>1 DEF TypeOK
    <3>4. Modified(s)' = Modified(s) /\ \A t \in Modified(s) : t \in Tables
      BY <2>1 DEF Modified
    <3>5. \A t \in Modified(s)' : view'[s][t] = ver[t] \/ write_lock'[t] # s
      BY <2>1, <3>3, <3>4 DEF VersionInv
    <3> QED
      BY <2>1, <3>2, <3>3, <3>5, VersionFewerLocks
  <2> QED
    BY <2>2, <2>3
<1> QED
  BY <1>1, <1>2, <1>3, <1>4

\* Everything a session does, at its client's demand or by itself.
LEMMA VersionSession ==
  ASSUME TypeOK, NEW s \in Sessions, Step(s) \/ Ask(s),
         TransactionInv(s), RequestInv(s), VersionInv(s)
  PROVE  VersionFrame(s) /\ VersionInv(s)'
<1>1. CASE AcquireFails(s) \/ AllLocked(s) \/ (\E k \in 1 .. MaxReqs : AcquireReadLock(s, k))
  <2>1. pc[s] = "lock" /\ UNCHANGED <<autocommit, view, dirty, write_lock, ver>>
    BY <1>1 DEF AcquireFails, AllLocked, AcquireReadLock, Waiting, work, locks, data
  <2>2. (\E l \in {"run", "undo", "abort", "reopen"} : Goto(s, l)) \/ pc' = pc
    BY <1>1 DEF AcquireFails, AllLocked, AcquireReadLock
  <2>3. pc'[s] \notin {"failed", "release"} /\ \A r \in Sessions \ {s} : pc'[r] = pc[r]
    BY <2>1, <2>2, GotoFacts DEF Labels
  <2>4. autocommit[s] => dirty[s] = {}
    BY <2>1 DEF VersionInv
  <2> QED
    BY <2>1, <2>3, <2>4, VersionQuiet
<1>2. CASE Finish(s)
  BY <1>2, VersionEndStatement DEF Finish
<1>3. CASE RollbackKilled(s) \/ RollbackFailed(s)
  BY <1>3, VersionEnds DEF RollbackKilled, RollbackFailed
<1>4. CASE Close(s)
  <2>1. CASE pc[s] = "unlock" /\ Goto(s, "idle")
             /\ UNCHANGED <<ret, acq, rolled, autocommit, work, locks, dropping, data>>
    <3>1. UNCHANGED <<autocommit, view, dirty, write_lock, ver>>
      BY <2>1 DEF work, locks, data
    <3>2. pc'[s] = "idle" /\ \A r \in Sessions \ {s} : pc'[r] = pc[r]
      BY <2>1, GotoFacts DEF Labels
    <3>3. autocommit[s] => dirty[s] = {}
      BY <2>1 DEF VersionInv
    <3> QED
      BY <2>1, <3>1, <3>2, <3>3, VersionQuiet
  <2> QED
    BY <1>4, <2>1, VersionEndStatement, Zenon DEF Close
<1>5. CASE CommitStatement(s) \/ RollbackStatement(s) \/ CloseConnection(s)
  BY <1>5, VersionEnds DEF CommitStatement, RollbackStatement, CloseConnection
<1>6. CASE Open(s)
  <2>1. pc[s] = "idle" /\ pc' = [pc EXCEPT ![s] = "lock"]
        /\ UNCHANGED <<autocommit, view, dirty, write_lock, ver>>
    BY <1>6 DEF Open, work, data
  <2>2. pc'[s] = "lock" /\ \A r \in Sessions \ {s} : pc'[r] = pc[r]
    BY <2>1 DEF TypeOK
  <2>3. autocommit[s] => dirty[s] = {}
    BY <2>1 DEF VersionInv
  <2> QED
    BY <2>1, <2>2, <2>3, VersionQuiet
<1>7. CASE Load(s)
  <2>1. PICK t \in Modified(s) : dirty' = [dirty EXCEPT ![s] = @ \cup {t}]
    BY <1>7 DEF Load
  <2>2. pc[s] = "run" /\ UNCHANGED <<pc, autocommit, view, write_lock, ver>>
    BY <1>7 DEF Load, session, locks, data
  <2>3. dirty'[s] = dirty[s] \cup {t} /\ \A r \in Sessions \ {s} : dirty'[r] = dirty[r]
    BY <2>1 DEF TypeOK
  <2>4. Modified(s)' = Modified(s) /\ write_lock[t] = s
    BY <2>1, <2>2 DEF Modified, TransactionInv, GivingBack
  <2>5. VersionInv(s)'
    BY <2>1, <2>2, <2>3, <2>4 DEF VersionInv
  <2>6. VersionFrame(s)
    BY <2>2, <2>3 DEF VersionFrame
  <2> QED
    BY <2>5, <2>6
<1> QED
  BY <1>1, <1>2, <1>3, <1>4, <1>5, <1>6, <1>7, VersionAcquireWrite, VersionGivesUp, ZenonT(60)
  DEF Step, Ask

\* DROP TABLE takes the table out of every transaction.
LEMMA VersionDropTable ==
  ASSUME TypeOK, NEW u \in Tables, DropTable(u), NEW s \in Sessions, VersionInv(s)
  PROVE  VersionInv(s)'
<1>1. /\ view'[s] = [view[s] EXCEPT ![u] = None] /\ dirty'[s] = dirty[s] \ {u}
      /\ \A t \in Tables \ {u} : write_lock'[t] = write_lock[t] /\ ver'[t] = ver[t]
      /\ UNCHANGED <<pc, autocommit>>
  BY DEF DropTable, session, TypeOK
<1>2. Modified(s)' = Modified(s) \ {u} /\ \A t \in Modified(s)' : view'[s][t] = view[s][t]
  <2>1. view'[s][u] = None /\ \A t \in Tables \ {u} : view'[s][t] = view[s][t]
    BY <1>1 DEF TypeOK
  <2> QED
    BY <2>1 DEF Modified
<1>3. (\A t \in Modified(s) : t \in Tables) /\ (\A t \in dirty[s] : t \in Tables)
  BY DEF Modified, TypeOK
<1> QED
  BY <1>1, <1>2, <1>3 DEF VersionInv

\* Every step preserves the invariant of the versions.
LEMMA VersionStep ==
  ASSUME LockProtocolInv, [Next]_vars PROVE \A s \in Sessions : VersionInv(s)'
<1>1. TypeOK /\ \A s \in Sessions : TransactionInv(s) /\ RequestInv(s) /\ VersionInv(s)
  BY DEF LockProtocolInv
<1>2. ASSUME NEW s \in Sessions, Step(s) \/ Ask(s) PROVE \A r \in Sessions : VersionInv(r)'
  BY <1>1, <1>2, VersionSession, VersionOther
<1>3. ASSUME UNCHANGED <<pc, autocommit, view, dirty, write_lock, ver>>
      PROVE  \A r \in Sessions : VersionInv(r)'
  <2>1. \A r \in Sessions : Modified(r)' = Modified(r)
    BY <1>3 DEF Modified
  <2> QED
    BY <1>1, <1>3, <2>1 DEF VersionInv
<1>4. ASSUME \/ \E s \in Sessions : Kill(s)
             \/ Flush
             \/ \E t \in Tables : StartDrop(t)
             \/ UNCHANGED vars
      PROVE  UNCHANGED <<pc, autocommit, view, dirty, write_lock, ver>>
  BY <1>4, Zenon DEF Kill, Flush, StartDrop, vars, session, work, locks, data
<1> QED
  BY <1>1, <1>2, <1>3, <1>4, VersionDropTable DEF Next
=============================================================================
