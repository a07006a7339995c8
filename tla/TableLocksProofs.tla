-------------------------- MODULE TableLocksProofs --------------------------
(***************************************************************************)
(* The inductive invariant of the table locks, the exclusion it gives, and *)
(* what commits publish under it.                                          *)
(***************************************************************************)
EXTENDS TableLocksVersions

USE NoneAssumption, BoundAssumption

\* What a step of session s leaves alone: the other sessions' control state and
\* transactions, their write locks and their live read locks.
Frame(s) ==
  \A r \in Sessions \ {s} :
    /\ pc'[r] = pc[r] /\ ret'[r] = ret[r] /\ stmt'[r] = stmt[r] /\ acq'[r] = acq[r]
    /\ enlisted'[r] = enlisted[r] /\ autocommit'[r] = autocommit[r] /\ view'[r] = view[r]
    /\ \A t \in Tables : write_lock[t] = r => write_lock'[t] = r
    /\ \A t \in Tables : \A l \in reads[t] : l.by = r /\ l.live => l \in reads'[t]

\* A step of another session preserves a session's part of the invariant.
LEMMA FrameKeeps ==
  ASSUME TypeOK, NEW s, Frame(s), NEW r \in Sessions \ {s}, TransactionInv(r), RequestInv(r)
  PROVE  TransactionInv(r)' /\ RequestInv(r)'
<1>1. /\ pc'[r] = pc[r] /\ ret'[r] = ret[r] /\ stmt'[r] = stmt[r] /\ acq'[r] = acq[r]
      /\ enlisted'[r] = enlisted[r] /\ autocommit'[r] = autocommit[r] /\ view'[r] = view[r]
      /\ \A t \in Tables : write_lock[t] = r => write_lock'[t] = r
      /\ \A t \in Tables : \A l \in reads[t] : l.by = r /\ l.live => l \in reads'[t]
  BY Zenon DEF Frame
<1>2. Modified(r)' = Modified(r)
  BY <1>1 DEF Modified
<1>3. TransactionInv(r)'
  BY <1>1, <1>2 DEF TransactionInv, GivingBack, Modified
<1>4. ASSUME pc[r] \in {"lock", "run"}, NEW k \in acq[r]
      PROVE  IF stmt[r][k].mode = "read"
             THEN CreateReadLockForThread(r, k) \in reads'[stmt[r][k].table]
             ELSE write_lock'[stmt[r][k].table] = r
  <2>1. stmt[r][k].table \in Tables
    BY <1>4, RequestFacts DEF RequestInv
  <2>2. CreateReadLockForThread(r, k).by = r /\ CreateReadLockForThread(r, k).live
    BY DEF CreateReadLockForThread
  <2> QED
    BY <1>1, <1>4, <2>1, <2>2 DEF RequestInv
<1>5. RequestInv(r)'
  BY <1>1, <1>4 DEF RequestInv, CreateReadLockForThread
<1> QED
  BY <1>3, <1>5

\* Locks are only given up: live locks stay compatible.
LEMMA FewerLocks ==
  ASSUME LockInv,
         \A t \in Tables : write_lock'[t] \in {write_lock[t], None},
         \A t \in Tables : \A l \in reads'[t] : l.live => l \in reads[t]
  PROVE  LockInv'
BY DEF LockInv

\* A step that changes no lock: the session only goes on, with its transaction
\* as it is.
LEMMA GotoKeeps ==
  ASSUME TypeOK, NEW s \in Sessions, NEW l \in Labels, Goto(s, l),
         TransactionInv(s), RequestInv(s), LockInv,
         UNCHANGED <<acq, autocommit, view, reads, write_lock>>,
         \A r \in Sessions \ {s} : ret'[r] = ret[r],
         Modified(s) # {} =>
           \/ l = "release"
           \/ l = "failed" /\ (autocommit[s] \/ \A t \in Modified(s) : write_lock[t] = s)
           \/ l # "close" /\ (\A t \in Modified(s) : write_lock[t] = s)
              /\ (autocommit[s] => l \in {"run", "undo", "abort", "reopen"} /\ enlisted[s]),
         l = "run" => pc[s] = "lock" /\ acq[s] = DOMAIN stmt[s],
         l # "lock",
         l = "idle" => acq[s] = {},
         l = "close" => stmt[s] = << >>,
         l \in {"failed", "release"} =>
           stmt[s] = << >> \/ (ret'[s] # "close" /\ (ret'[s] = "idle" => acq[s] = {}))
  PROVE  Frame(s) /\ TransactionInv(s)' /\ RequestInv(s)' /\ LockInv'
<1>1. /\ pc'[s] = l /\ stmt'[s] = IF l = "idle" THEN << >> ELSE stmt[s]
      /\ l # "idle" => enlisted'[s] = enlisted[s]
      /\ \A r \in Sessions \ {s} :
           pc'[r] = pc[r] /\ stmt'[r] = stmt[r] /\ enlisted'[r] = enlisted[r]
  BY GotoFacts
<1>2. Frame(s)
  BY <1>1 DEF Frame
<1>3. Modified(s)' = Modified(s) /\ LockInv'
  BY DEF Modified, LockInv
<1>4. TransactionInv(s)'
  <2>1. \A t \in Modified(s)' : write_lock'[t] = s \/ GivingBack(s)'
    BY <1>1, <1>3, Zenon DEF TransactionInv, GivingBack
  <2>2. autocommit'[s] /\ Modified(s)' # {} =>
          \/ pc'[s] \in {"lock", "run", "undo", "abort", "reopen"} /\ enlisted'[s]
          \/ pc'[s] \in {"failed", "release"}
    BY <1>1, <1>3 DEF TransactionInv, GivingBack
  <2>3. (\E k \in DOMAIN stmt'[s] : stmt'[s][k].mode = "alter") => Modified(s)' = {}
    BY <1>1, <1>3 DEF TransactionInv, GivingBack
  <2>4. pc'[s] = "close" => Modified(s)' = {}
    BY <1>1, <1>3 DEF TransactionInv, GivingBack
  <2> QED
    BY <2>1, <2>2, <2>3, <2>4, Zenon DEF TransactionInv, GivingBack
<1>5. RequestInv(s)'
  BY <1>1 DEF RequestInv, Labels, CreateReadLockForThread
<1> QED
  BY <1>2, <1>3, <1>4, <1>5

\* Rollback and Commit keep the invariant where the code calls them.
LEMMA RollbackKeeps ==
  ASSUME TypeOK, NEW s \in Sessions, NEW l,
         Rollback(s, l) \/ Commit(s, l) \/ CommitFails(s, l),
         TransactionInv(s), RequestInv(s), LockInv,
         stmt[s] = << >> \/ (l # "close" /\ (l = "idle" => acq[s] = {}))
  PROVE  Frame(s) /\ TransactionInv(s)' /\ RequestInv(s)' /\ LockInv'
<1>1. PICK m \in {"failed", "release"} :
        /\ Goto(s, m) /\ ret' = [ret EXCEPT ![s] = l] /\ pc[s] # "release"
        /\ UNCHANGED <<acq, autocommit, view, reads, write_lock>>
  BY DEF Rollback, Commit, CommitFails, DropRenameMutexFree, locks
<1>2. ret'[s] = l /\ \A r \in Sessions \ {s} : ret'[r] = ret[r]
  BY <1>1 DEF TypeOK
<1>3. m \in Labels
  BY DEF Labels
<1>4. autocommit[s] \/ \A t \in Modified(s) : write_lock[t] = s
  BY <1>1 DEF TransactionInv, GivingBack
<1> QED
  BY <1>1, <1>2, <1>3, <1>4, GotoKeeps

\* The end of a statement's transaction.
LEMMA EndStatementKeeps ==
  ASSUME TypeOK, NEW s \in Sessions, NEW l \in {"idle", "unlock"}, NEW e \in BOOLEAN,
         EndStatement(s, e, l), TransactionInv(s), RequestInv(s), LockInv,
         \/ pc[s] = "run" /\ l = "unlock"
         \/ pc[s] \in {"undo", "abort", "reopen"} /\ l = "idle" /\ acq[s] = {}
  PROVE  Frame(s) /\ TransactionInv(s)' /\ RequestInv(s)' /\ LockInv'
<1>1. CASE Rollback(s, l) \/ Commit(s, l) \/ CommitFails(s, l)
  BY <1>1, RollbackKeeps
<1>2. CASE /\ Goto(s, l) /\ (~ enlisted[s] \/ ~ autocommit[s])
           /\ UNCHANGED <<ret, acq, autocommit, work, locks, dropping, data>>
  <2>1. l \in Labels /\ UNCHANGED <<acq, autocommit, view, reads, write_lock, ret>>
    BY <1>2 DEF Labels, work, locks
  <2>2. Modified(s) # {} => (\A t \in Modified(s) : write_lock[t] = s) /\ ~ autocommit[s]
    BY <1>2 DEF TransactionInv, GivingBack
  <2> QED
    BY <1>2, <2>1, <2>2, GotoKeeps
<1> QED
  BY <1>1, <1>2 DEF EndStatement, rcbase_commit

\* A read lock is granted beside no other session's write lock.
LEMMA AcquireReadKeeps ==
  ASSUME TypeOK, NEW s \in Sessions, NEW k \in 1 .. MaxReqs, AcquireReadLock(s, k),
         TransactionInv(s), RequestInv(s), LockInv
  PROVE  Frame(s) /\ TransactionInv(s)' /\ RequestInv(s)' /\ LockInv'
<1> DEFINE u == stmt[s][k].table
           new == CreateReadLockForThread(s, k)
<1>1. /\ pc[s] = "lock" /\ k \in DOMAIN stmt[s] /\ stmt[s][k].mode = "read"
      /\ write_lock[u] = s \/ write_lock[u] = None
      /\ reads' = [reads EXCEPT ![u] = @ \cup {new}]
      /\ acq' = [acq EXCEPT ![s] = @ \cup {k}]
      /\ UNCHANGED <<pc, ret, stmt, enlisted, autocommit, view, write_lock>>
  BY DEF AcquireReadLock, Waiting, NextReq, HasWriteLockForThread, work
<1>2. u \in Tables
  BY <1>1, RequestFacts
<1>3. new.by = s
  BY DEF CreateReadLockForThread
<1>4. \A t \in Tables : reads[t] \subseteq reads'[t] /\ reads'[t] \subseteq reads[t] \cup {new}
  BY <1>1 DEF TypeOK
<1>5. reads'[u] = reads[u] \cup {new} /\ \A t \in Tables \ {u} : reads'[t] = reads[t]
  BY <1>1, <1>2 DEF TypeOK
<1>6. acq'[s] = acq[s] \cup {k} /\ \A r \in Sessions \ {s} : acq'[r] = acq[r]
  BY <1>1 DEF TypeOK
<1>7. Frame(s)
  BY <1>1, <1>4, <1>6 DEF Frame
<1>8. Modified(s)' = Modified(s)
  BY <1>1 DEF Modified
<1>9. TransactionInv(s)'
  BY <1>1, <1>8 DEF TransactionInv, GivingBack, Modified
<1>10. \A j \in acq[s] : stmt[s][j].table \in Tables
  BY RequestFacts DEF RequestInv
<1>11. RequestInv(s)'
  BY <1>1, <1>4, <1>5, <1>6, <1>10, ZenonT(60) DEF RequestInv, CreateReadLockForThread
<1>12. LockInv'
  BY <1>1, <1>2, <1>3, <1>5, ZenonT(60) DEF LockInv
<1> QED
  BY <1>7, <1>9, <1>11, <1>12

\* A write lock is granted beside no other session's lock.
LEMMA AcquireWriteKeeps ==
  ASSUME TypeOK, NEW s \in Sessions, NEW k \in 1 .. MaxReqs, AcquireWriteLock(s, k),
         TransactionInv(s), RequestInv(s), LockInv
  PROVE  Frame(s) /\ TransactionInv(s)' /\ RequestInv(s)' /\ LockInv'
<1> DEFINE u == stmt[s][k].table
<1>1. /\ pc[s] = "lock" /\ k \in DOMAIN stmt[s] /\ stmt[s][k].mode # "read"
      /\ \/ write_lock[u] = s
         \/ write_lock[u] = None /\ \A l \in reads[u] : l.live => l.by = s
      /\ write_lock' = [write_lock EXCEPT ![u] = s]
      /\ acq' = [acq EXCEPT ![s] = @ \cup {k}]
      /\ enlisted' = [enlisted EXCEPT ![s] = TRUE]
      /\ UNCHANGED <<pc, ret, stmt, autocommit, reads>>
  BY DEF AcquireWriteLock, WriteLocked, Waiting, NextReq, HasWriteLockForThread,
         HasReadLockForOtherThread
<1>2. \/ stmt[s][k].mode = "write" /\ view' = [view EXCEPT ![s][u] = ver[u]]
      \/ view' = view
  BY DEF AcquireWriteLock, WriteLocked
<1>3. u \in Tables
  BY <1>1, RequestFacts
<1>4. write_lock'[u] = s /\ \A t \in Tables \ {u} : write_lock'[t] = write_lock[t]
  BY <1>1, <1>3 DEF TypeOK
<1>5. acq'[s] = acq[s] \cup {k} /\ \A r \in Sessions \ {s} : acq'[r] = acq[r]
  BY <1>1 DEF TypeOK
<1>6. enlisted'[s] /\ \A r \in Sessions \ {s} : enlisted'[r] = enlisted[r]
  BY <1>1 DEF TypeOK
<1>7. /\ \A r \in Sessions \ {s} : view'[r] = view[r]
      /\ \A t \in Tables \ {u} : view'[s][t] = view[s][t]
  BY <1>2, <1>3 DEF TypeOK
<1>8. \A r \in Sessions \ {s} : \A t \in Tables : write_lock[t] = r => write_lock'[t] = r
  BY <1>1, <1>3, <1>4
<1>9. Frame(s)
  BY <1>1, <1>5, <1>6, <1>7, <1>8, ZenonT(60) DEF Frame
<1>10. Modified(s)' \subseteq Modified(s) \cup {u}
  BY <1>7 DEF Modified
<1>11. ASSUME NEW j \in DOMAIN stmt[s], stmt[s][j].mode = "alter" PROVE Modified(s)' = {}
  <2>1. j = k /\ Modified(s) = {}
    BY <1>1, <1>11, RequestFacts DEF TransactionInv, GivingBack
  <2>2. view' = view
    BY <1>2, <1>11, <2>1
  <2> QED
    BY <2>1, <2>2 DEF Modified
<1>12. \A t \in Modified(s)' : write_lock'[t] = s
  <2> SUFFICES ASSUME NEW t \in Modified(s)', t # u PROVE write_lock'[t] = s
    BY <1>4
  <2>1. t \in Modified(s) /\ t \in Tables
    BY <1>10 DEF Modified
  <2> QED
    BY <1>1, <1>4, <2>1 DEF TransactionInv, GivingBack
<1>13. TransactionInv(s)'
  BY <1>1, <1>6, <1>11, <1>12 DEF TransactionInv, GivingBack
<1>14. \A j \in acq[s] : stmt[s][j].table \in Tables
  BY RequestFacts DEF RequestInv
<1>15. RequestInv(s)'
  BY <1>1, <1>4, <1>5, <1>14 DEF RequestInv, CreateReadLockForThread
<1>16. LockInv'
  BY <1>1, <1>4 DEF LockInv
<1> QED
  BY <1>9, <1>13, <1>15, <1>16

\* The release of one modified table touches no live lock of another session.
LEMMA ReleaseLocksKeeps ==
  ASSUME TypeOK, NEW s \in Sessions, NEW u \in Tables, ReleaseLocks(s, u),
         TransactionInv(s), RequestInv(s), LockInv
  PROVE  Frame(s) /\ TransactionInv(s)' /\ RequestInv(s)' /\ LockInv'
<1>1. PICK d \in SUBSET Dangling(u) :
        reads' = [reads EXCEPT ![u] = {l \in @ : ~ (l.by = s /\ l.live) /\ l \notin d}]
  BY Zenon DEF ReleaseLocks
<1>2. /\ pc[s] = "release"
      /\ UNCHANGED <<pc, ret, stmt, acq, enlisted, autocommit, view>>
  BY DEF ReleaseLocks, session
<1>3. \A t \in Tables : write_lock'[t] = write_lock[t] \/ (write_lock[t] = s /\ write_lock'[t] = None)
  BY DEF ReleaseLocks, HasWriteLockForThread, TypeOK
<1>4. \A t \in Tables : reads'[t] \subseteq reads[t]
  BY <1>1 DEF TypeOK
<1>5. \A t \in Tables : \A l \in reads[t] : l.live /\ l.by # s => l \in reads'[t]
  BY <1>1 DEF TypeOK, Dangling
<1>6. Frame(s)
  <2> SUFFICES ASSUME NEW r \in Sessions \ {s}, NEW t \in Tables
               PROVE  /\ write_lock[t] = r => write_lock'[t] = r
                      /\ \A l \in reads[t] : l.by = r /\ l.live => l \in reads'[t]
    BY <1>2, Zenon DEF Frame
  <2>1. write_lock[t] = r => write_lock'[t] = r
    BY <1>3
  <2>2. \A l \in reads[t] : l.by = r /\ l.live => l \in reads'[t]
    BY <1>5
  <2> QED
    BY <2>1, <2>2
<1>7. Modified(s)' = Modified(s)
  BY <1>2 DEF Modified
<1>8. TransactionInv(s)' /\ RequestInv(s)'
  BY <1>2, <1>7 DEF TransactionInv, GivingBack, RequestInv
<1>9. LockInv'
  BY <1>3, <1>4, FewerLocks
<1> QED
  BY <1>6, <1>8, <1>9

\* So does the end of the transaction, whose read locks then dangle.
LEMMA EndTransactionKeeps ==
  ASSUME TypeOK, NEW s \in Sessions, EndTransaction(s),
         TransactionInv(s), RequestInv(s), LockInv
  PROVE  Frame(s) /\ TransactionInv(s)' /\ RequestInv(s)' /\ LockInv'
<1> DEFINE l0 == ret[s]
<1>1. l0 \in Returns /\ l0 \in Labels
  BY DEF TypeOK, Labels, Returns
<1>2. /\ pc[s] = "release" /\ Goto(s, l0) /\ UNCHANGED <<acq, autocommit>>
      /\ ret' = [ret EXCEPT ![s] = "idle"]
      /\ view' = [view EXCEPT ![s] = [t \in Tables |-> None]]
  BY ZenonT(60) DEF EndTransaction
<1>3. /\ write_lock' = [t \in Tables |-> IF write_lock[t] = s THEN None ELSE write_lock[t]]
      /\ reads' = [t \in Tables |-> {AfterTransaction(s, l) : l \in reads[t]}]
  BY ZenonT(60) DEF EndTransaction
<1>4. /\ pc'[s] = l0 /\ stmt'[s] = IF l0 = "idle" THEN << >> ELSE stmt[s]
      /\ \A r \in Sessions \ {s} :
           pc'[r] = pc[r] /\ stmt'[r] = stmt[r] /\ enlisted'[r] = enlisted[r]
  BY <1>1, <1>2, GotoFacts, ZenonT(60)
<1>5. ASSUME NEW t \in Tables, NEW l \in reads[t], l.live, l.by # s
      PROVE  AfterTransaction(s, l) = l
  <2>1. l \in Lock
    BY <1>5 DEF TypeOK
  <2> QED
    BY <1>5, <2>1, Zenon DEF Lock, AfterTransaction
<1>6. \A t \in Tables : \A l \in reads[t] : l.live /\ l.by # s => l \in reads'[t]
  BY <1>3, <1>5
<1>7. ASSUME NEW t \in Tables, NEW m \in reads'[t], m.live PROVE m \in reads[t]
  <2>1. PICK l \in reads[t] : m = AfterTransaction(s, l)
    BY <1>3, <1>7
  <2>2. l.live /\ l.by # s
    BY <1>7, <2>1, ZenonT(60) DEF AfterTransaction
  <2> QED
    BY <1>5, <2>1, <2>2
<1>8. \A t \in Tables : /\ write_lock'[t] \in {write_lock[t], None}
                        /\ \A r \in Sessions \ {s} : write_lock[t] = r => write_lock'[t] = r
  BY <1>3
<1>9. \A r \in Sessions \ {s} : ret'[r] = ret[r] /\ view'[r] = view[r]
  BY <1>2 DEF TypeOK
<1>10. Frame(s)
  BY <1>2, <1>4, <1>6, <1>8, <1>9 DEF Frame
<1>11. Modified(s)' = {}
  BY <1>2 DEF Modified, TypeOK
<1>12. TransactionInv(s)'
  BY <1>11, Zenon DEF TransactionInv, GivingBack
<1>13. acq'[s] = acq[s] /\ acq[s] \subseteq DOMAIN stmt[s]
       /\ (stmt[s] = << >> \/ (l0 # "close" /\ (l0 = "idle" => acq[s] = {})))
  BY <1>2, Zenon DEF RequestInv
<1>14. RequestInv(s)'
  BY <1>1, <1>4, <1>13 DEF RequestInv, Returns
<1>15. LockInv'
  BY <1>7, <1>8, FewerLocks
<1> QED
  BY <1>10, <1>12, <1>14, <1>15

\* external_lock(F_UNLCK) gives up a write lock only where the transaction has
\* nothing modified, or is about to end.
LEMMA UnlockKeeps ==
  ASSUME TypeOK, NEW s \in Sessions, NEW k \in 1 .. MaxReqs, Unlock(s, k),
         TransactionInv(s), RequestInv(s), LockInv
  PROVE  Frame(s) /\ TransactionInv(s)' /\ RequestInv(s)' /\ LockInv'
<1> DEFINE u == stmt[s][k].table
           read == stmt[s][k].mode = "read"
           all == autocommit[s] \/ stmt[s][k].mode = "alter"
<1>1. /\ pc[s] \in {"unlock", "undo", "abort", "reopen"} /\ k \in acq[s]
      /\ acq' = [acq EXCEPT ![s] = @ \ {k}]
      /\ reads' = [reads EXCEPT ![u] = {l \in @ : ~ (read /\ l.by = s /\ l.req = k)}]
      /\ write_lock' = [write_lock EXCEPT ![u] = IF ~ read /\ all /\ @ = s THEN None ELSE @]
      /\ UNCHANGED <<pc, ret, stmt, enlisted, autocommit, view>>
  BY DEF Unlock, UnlockReq, ReleaseLockIfNeeded, ReleaseLockIf, work
<1>2. k \in DOMAIN stmt[s]
  <2>1. acq[s] \subseteq DOMAIN stmt[s]
    BY Zenon DEF RequestInv
  <2> QED
    BY <1>1, <2>1
<1>3. \A t \in Tables : write_lock'[t] = write_lock[t]
                        \/ (all /\ write_lock[t] = s /\ write_lock'[t] = None)
  BY <1>1 DEF TypeOK
<1>4. \A t \in Tables : reads'[t] \subseteq reads[t]
                        /\ \A l \in reads[t] : l.by # s => l \in reads'[t]
  BY <1>1 DEF TypeOK
<1>5. acq'[s] \subseteq acq[s] /\ \A r \in Sessions \ {s} : acq'[r] = acq[r]
  BY <1>1 DEF TypeOK
<1>6. Frame(s)
  BY <1>1, <1>3, <1>4, <1>5, ZenonT(60) DEF Frame
<1>7. Modified(s)' = Modified(s)
  BY <1>1, Zenon DEF Modified
<1>8. Modified(s) # {} => ~ all \/ (pc[s] \in {"undo", "abort", "reopen"} /\ autocommit[s])
  BY <1>1, <1>2 DEF TransactionInv, GivingBack
<1>9. \A t \in Modified(s) : t \in Tables
  BY DEF Modified
<1>10. TransactionInv(s)'
  BY <1>1, <1>3, <1>7, <1>8, <1>9, ZenonT(60) DEF TransactionInv, GivingBack
<1>11. RequestInv(s)'
  BY <1>1, <1>5 DEF RequestInv
<1>12. LockInv'
  BY <1>3, <1>4, FewerLocks
<1> QED
  BY <1>6, <1>10, <1>11, <1>12

\* The end of a connection finds no statement and nothing modified.
LEMMA ClearThreadParamsKeeps ==
  ASSUME TypeOK, NEW s \in Sessions, ClearThreadParams(s),
         TransactionInv(s), RequestInv(s), LockInv
  PROVE  Frame(s) /\ TransactionInv(s)' /\ RequestInv(s)' /\ LockInv'
<1>1. /\ pc[s] = "close" /\ Goto(s, "idle") /\ UNCHANGED <<ret, acq, view>>
      /\ write_lock' = [t \in Tables |-> IF write_lock[t] = s THEN None ELSE write_lock[t]]
      /\ reads' = [t \in Tables |-> {l \in reads[t] : ~ (l.by = s /\ l.live)}]
      /\ \A r \in Sessions \ {s} : autocommit'[r] = autocommit[r]
  BY DEF ClearThreadParams, TypeOK, work
<1>2. "idle" \in Labels
  BY DEF Labels
<1>3. /\ pc'[s] = "idle" /\ stmt'[s] = << >>
      /\ \A r \in Sessions \ {s} :
           pc'[r] = pc[r] /\ stmt'[r] = stmt[r] /\ enlisted'[r] = enlisted[r]
  BY <1>1, <1>2, GotoFacts, ZenonT(60)
<1>4. Frame(s)
  BY <1>1, <1>3, Zenon DEF Frame
<1>5. Modified(s) = {} /\ stmt[s] = << >>
  BY <1>1 DEF TransactionInv, GivingBack, RequestInv
<1>6. Modified(s)' = {}
  BY <1>1, <1>5 DEF Modified
<1>7. TransactionInv(s)'
  BY <1>6 DEF TransactionInv, GivingBack
<1>8. RequestInv(s)'
  BY <1>1, <1>3, <1>5 DEF RequestInv
<1>9. LockInv'
  BY <1>1, FewerLocks
<1> QED
  BY <1>4, <1>7, <1>8, <1>9

\* A statement is opened by a session that holds no request.
LEMMA OpenKeeps ==
  ASSUME TypeOK, NEW s \in Sessions, Open(s), TransactionInv(s), RequestInv(s), LockInv
  PROVE  Frame(s) /\ TransactionInv(s)' /\ RequestInv(s)' /\ LockInv'
<1>1. PICK q \in Statements :
        /\ pc[s] = "idle"
        /\ (\E k \in DOMAIN q : q[k].mode = "alter") => Modified(s) = {}
        /\ stmt' = [stmt EXCEPT ![s] = q]
        /\ pc' = [pc EXCEPT ![s] = "lock"]
        /\ UNCHANGED <<ret, acq, enlisted, autocommit, view, reads, write_lock>>
  BY ZenonT(60) DEF Open, work
<1>2. /\ stmt'[s] = q /\ pc'[s] = "lock"
      /\ \A r \in Sessions \ {s} : pc'[r] = pc[r] /\ stmt'[r] = stmt[r]
  BY <1>1 DEF TypeOK
<1>3. Frame(s)
  BY <1>1, <1>2 DEF Frame
<1>4. Modified(s)' = Modified(s)
  BY <1>1 DEF Modified
<1>5. TransactionInv(s)'
  BY <1>1, <1>2, <1>4 DEF TransactionInv, GivingBack
<1>6. acq[s] = {}
  BY <1>1 DEF RequestInv
<1>7. RequestInv(s)'
  BY <1>1, <1>2, <1>6 DEF RequestInv
<1>8. LockInv'
  BY <1>1, Zenon DEF LockInv
<1> QED
  BY <1>3, <1>5, <1>7, <1>8

\* Everything a session does, at its client's demand or by itself.
LEMMA SessionKeeps ==
  ASSUME TypeOK, NEW s \in Sessions, Step(s) \/ Ask(s),
         TransactionInv(s), RequestInv(s), LockInv
  PROVE  Frame(s) /\ TransactionInv(s)' /\ RequestInv(s)' /\ LockInv'
<1>1. CASE AcquireFails(s)
  <2>1. "undo" \in Labels /\ Goto(s, "undo") /\ pc[s] = "lock"
        /\ UNCHANGED <<acq, autocommit, view, reads, write_lock, ret>>
    BY <1>1, ZenonT(60) DEF AcquireFails, Waiting, Labels, work, locks
  <2>2. Modified(s) # {} => /\ \A t \in Modified(s) : write_lock[t] = s
                            /\ autocommit[s] => enlisted[s]
    BY <2>1, Zenon DEF TransactionInv, GivingBack
  <2> QED
    BY <2>1, <2>2, GotoKeeps
<1>2. CASE AllLocked(s)
  <2>1. PICK l \in {"run", "abort", "reopen"} : Goto(s, l)
    BY <1>2 DEF AllLocked
  <2>2. l \in Labels /\ pc[s] = "lock" /\ acq[s] = DOMAIN stmt[s]
        /\ UNCHANGED <<acq, autocommit, view, reads, write_lock, ret>>
    BY <1>2 DEF AllLocked, Waiting, Labels, work, locks
  <2>3. Modified(s) # {} => /\ \A t \in Modified(s) : write_lock[t] = s
                            /\ autocommit[s] => enlisted[s]
    BY <2>2 DEF TransactionInv, GivingBack
  <2> QED
    BY <2>1, <2>2, <2>3, GotoKeeps
<1>3. CASE Finish(s)
  BY <1>3, EndStatementKeeps DEF Finish
<1>4. CASE RollbackKilled(s)
  <2>1. Rollback(s, pc[s]) /\ pc[s] \in {"unlock", "undo", "abort", "reopen"}
    BY <1>4 DEF RollbackKilled
  <2> QED
    BY <2>1, RollbackKeeps
<1>5. CASE Close(s)
  <2>1. CASE pc[s] = "unlock" /\ Goto(s, "idle")
             /\ UNCHANGED <<ret, acq, rolled, autocommit, work, locks, dropping, data>>
    <3>1. "idle" \in Labels /\ acq[s] = {}
          /\ UNCHANGED <<acq, autocommit, view, reads, write_lock, ret>>
      BY <1>5, <2>1 DEF Close, Labels, work, locks
    <3>2. Modified(s) # {} => (\A t \in Modified(s) : write_lock[t] = s) /\ ~ autocommit[s]
      BY <2>1 DEF TransactionInv, GivingBack
    <3> QED
      BY <2>1, <3>1, <3>2, GotoKeeps
  <2> QED
    BY <1>5, <2>1, EndStatementKeeps, Zenon DEF Close
<1>6. CASE CommitStatement(s) \/ RollbackStatement(s) \/ CloseConnection(s)
  <2>1. stmt[s] = << >>
    BY <1>6 DEF CommitStatement, RollbackStatement, CloseConnection, RequestInv
  <2> QED
    BY <1>6, <2>1, RollbackKeeps DEF CommitStatement, RollbackStatement, CloseConnection
<1>7. CASE Load(s)
  <2>1. UNCHANGED <<pc, ret, stmt, acq, enlisted, autocommit, view, reads, write_lock>>
    BY <1>7 DEF Load, session, locks
  <2>2. Modified(s)' = Modified(s)
    BY <2>1 DEF Modified
  <2> QED
    BY <2>1, <2>2, Zenon
    DEF Frame, TransactionInv, GivingBack, RequestInv, CreateReadLockForThread, LockInv
<1>8. CASE RollbackFailed(s)
  <2>1. stmt[s] = << >> \/ (ret[s] # "close" /\ (ret[s] = "idle" => acq[s] = {}))
    BY <1>8 DEF RollbackFailed, RequestInv
  <2> QED
    BY <1>8, <2>1, RollbackKeeps DEF RollbackFailed
<1> QED
  BY <1>1, <1>2, <1>3, <1>4, <1>5, <1>6, <1>7, <1>8, AcquireReadKeeps, AcquireWriteKeeps,
     UnlockKeeps, ReleaseLocksKeeps, EndTransactionKeeps, ClearThreadParamsKeeps, OpenKeeps
  DEF Step, Ask
-----------------------------------------------------------------------------
\* DROP TABLE takes a table and its locks away from sessions that do not have it
\* open.
LEMMA DropTableKeeps ==
  ASSUME TypeOK, NEW u \in Tables, DropTable(u), LockInv,
         \A s \in Sessions : TransactionInv(s) /\ RequestInv(s)
  PROVE  (\A s \in Sessions : TransactionInv(s)' /\ RequestInv(s)') /\ LockInv'
<1>1. /\ \A s \in Sessions : u \notin Opened(s)
      /\ view' = [s \in Sessions |-> [view[s] EXCEPT ![u] = None]]
      /\ reads' = [reads EXCEPT ![u] = {}] /\ write_lock' = [write_lock EXCEPT ![u] = None]
      /\ UNCHANGED <<pc, ret, stmt, acq, enlisted, autocommit>>
  BY DEF DropTable, session
<1>2. /\ reads'[u] = {} /\ write_lock'[u] = None
      /\ \A t \in Tables \ {u} : reads'[t] = reads[t] /\ write_lock'[t] = write_lock[t]
  BY <1>1 DEF TypeOK
<1>3. LockInv'
  BY <1>2 DEF LockInv
<1>4. ASSUME NEW s \in Sessions PROVE TransactionInv(s)' /\ RequestInv(s)'
  <2>1. Modified(s)' = Modified(s) \ {u}
    BY <1>1 DEF Modified, TypeOK
  <2>2. \A t \in Modified(s) : t \in Tables
    BY DEF Modified
  <2>3. TransactionInv(s)'
    BY <1>1, <1>2, <2>1, <2>2, ZenonT(60) DEF TransactionInv, GivingBack
  <2>4. \A k \in acq[s] : stmt[s][k].table \in Tables \ {u}
    <3>1. acq[s] \subseteq DOMAIN stmt[s]
      BY Zenon DEF RequestInv
    <3>2. \A k \in DOMAIN stmt[s] : stmt[s][k].table \in Tables
      BY RequestFacts
    <3>3. \A k \in DOMAIN stmt[s] : stmt[s][k].table # u
      BY <1>1, Zenon DEF Opened
    <3> QED
      BY <3>1, <3>2, <3>3
  <2>5. ASSUME pc[s] \in {"lock", "run"}, NEW k \in acq[s]
        PROVE  IF stmt[s][k].mode = "read"
               THEN CreateReadLockForThread(s, k) \in reads'[stmt[s][k].table]
               ELSE write_lock'[stmt[s][k].table] = s
    <3>1. IF stmt[s][k].mode = "read"
          THEN CreateReadLockForThread(s, k) \in reads[stmt[s][k].table]
          ELSE write_lock[stmt[s][k].table] = s
      BY <2>5, Zenon DEF RequestInv
    <3> QED
      BY <1>2, <2>4, <3>1, Zenon
  <2>6. RequestInv(s)'
    BY <1>1, <2>5, ZenonT(60) DEF RequestInv, CreateReadLockForThread
  <2> QED
    BY <2>3, <2>6
<1> QED
  BY <1>3, <1>4

\* The invariant holds initially.
LEMMA InitInv == ASSUME Init PROVE LockProtocolInv
<1>1. TypeOK
  BY DEF Init, TypeOK
<1>2. ASSUME NEW s \in Sessions PROVE TransactionInv(s) /\ RequestInv(s) /\ VersionInv(s)
  <2>1. /\ Modified(s) = {} /\ dirty[s] = {} /\ stmt[s] = << >> /\ acq[s] = {}
        /\ pc[s] = "idle"
    BY DEF Init, Modified
  <2> QED
    BY <2>1 DEF TransactionInv, RequestInv, VersionInv
<1>3. LockInv
  BY DEF Init, LockInv
<1> QED
  BY <1>1, <1>2, <1>3 DEF LockProtocolInv

\* Every step preserves it.
LEMMA StepInv == ASSUME LockProtocolInv, [Next]_vars PROVE LockProtocolInv'
<1>1. TypeOK /\ LockInv /\ \A s \in Sessions : TransactionInv(s) /\ RequestInv(s)
  BY DEF LockProtocolInv
<1>2. TypeOK' /\ \A s \in Sessions : VersionInv(s)'
  BY <1>1, TypeStep, VersionStep
<1>3. ASSUME NEW s \in Sessions, Step(s) \/ Ask(s)
      PROVE  (\A r \in Sessions : TransactionInv(r)' /\ RequestInv(r)') /\ LockInv'
  <2>1. Frame(s) /\ TransactionInv(s)' /\ RequestInv(s)' /\ LockInv'
    BY <1>1, <1>3, SessionKeeps
  <2>2. \A r \in Sessions \ {s} : TransactionInv(r)' /\ RequestInv(r)'
    BY <1>1, <2>1, FrameKeeps
  <2> QED
    BY <2>1, <2>2
<1>4. ASSUME UNCHANGED <<pc, ret, stmt, acq, enlisted, autocommit, view, reads, write_lock>>
      PROVE  (\A r \in Sessions : TransactionInv(r)' /\ RequestInv(r)') /\ LockInv'
  <2>1. \A r \in Sessions : Modified(r)' = Modified(r)
    BY <1>4 DEF Modified
  <2>2. \A r \in Sessions : TransactionInv(r)'
    BY <1>1, <1>4, <2>1 DEF TransactionInv, GivingBack
  <2>3. \A r \in Sessions : RequestInv(r)'
    BY <1>1, <1>4 DEF RequestInv, CreateReadLockForThread
  <2>4. LockInv'
    BY <1>1, <1>4 DEF LockInv
  <2> QED
    BY <2>2, <2>3, <2>4
<1>5. ASSUME \/ \E s \in Sessions : Kill(s)
             \/ Flush
             \/ \E t \in Tables : StartDrop(t)
             \/ UNCHANGED vars
      PROVE  UNCHANGED <<pc, ret, stmt, acq, enlisted, autocommit, view, reads, write_lock>>
  BY <1>5, Zenon DEF Kill, Flush, StartDrop, vars, session, work, locks
<1>6. (\A r \in Sessions : TransactionInv(r)' /\ RequestInv(r)') /\ LockInv'
  BY <1>1, <1>3, <1>4, <1>5, DropTableKeeps DEF Next
<1> QED
  BY <1>2, <1>6 DEF LockProtocolInv

\* The lock protocol's invariant holds in every reachable state, for any number
\* of sessions, tables, requests and versions, and for every set of faults.
THEOREM LockProtocol == Spec => []LockProtocolInv
BY InitInv, StepInv, PTL DEF Spec

\* Type correctness of the lock protocol.
THEOREM TypeCorrect == Spec => []TypeOK
<1>1. LockProtocolInv => TypeOK
  BY DEF LockProtocolInv
<1> QED
  BY <1>1, LockProtocol, PTL

\* A table that is modified and not given back is locked, and the lock excludes the
\* other sessions.
LEMMA InvExcludes == ASSUME LockProtocolInv PROVE WriterIsAlone
<1>1. /\ TypeOK /\ LockInv
      /\ \A q \in Sessions : TransactionInv(q) /\ RequestInv(q) /\ VersionInv(q)
  BY DEF LockProtocolInv
<1>2. ASSUME NEW q \in Sessions, NEW t \in Tables, t \in Modified(q), ~ GivenBack(q, t)
      PROVE  write_lock[t] = q
  BY <1>1, <1>2 DEF TransactionInv, GivenBack
<1>3. ASSUME NEW s \in Sessions, NEW r \in Sessions \ {s}, NEW t \in Tables,
             write_lock[t] = s, InUse(r, t)
      PROVE  FALSE
  <2>1. PICK k \in DOMAIN stmt[r] : stmt[r][k].table = t
    BY <1>3 DEF InUse, Opened
  <2>2. IF stmt[r][k].mode = "read"
        THEN CreateReadLockForThread(r, k) \in reads[t] ELSE write_lock[t] = r
    BY <1>1, <1>3, <2>1 DEF InUse, RequestInv
  <2>3. CreateReadLockForThread(r, k).live /\ CreateReadLockForThread(r, k).by = r
    BY DEF CreateReadLockForThread
  <2> QED
    BY <1>1, <1>3, <2>2, <2>3 DEF LockInv
<1>4. ASSUME NEW s \in Sessions, NEW t \in dirty[s]
      PROVE  t \in Modified(s) /\ ~ GivenBack(s, t)
  BY <1>1 DEF VersionInv, GivenBack
<1> QED
  BY <1>2, <1>3, <1>4 DEF WriterIsAlone

\* Outside the windows in which a transaction has given a lock back without having
\* loaded anything, a modified table is its transaction's alone: nobody else runs a
\* statement on it or has it modified.
THEOREM Exclusion == Spec => []WriterIsAlone
BY InvExcludes, LockProtocol, PTL
-----------------------------------------------------------------------------
\* A commit publishes the version on disk of every table it has locked.
LEMMA CommitPublishes ==
  ASSUME TypeOK, NEW s \in Sessions, NEW l, Commit(s, l), TransactionInv(s), VersionInv(s),
         NEW t \in Tables, shared[t] = ver[t], shared'[t] # ver'[t],
         pc[s] \in {"idle", "run", "reopen"}
  PROVE  CommitsGivenBack(s, t)
<1>1. /\ ver'[t] = IF t \in dirty[s] THEN ver[t] + 1 ELSE ver[t]
      /\ shared'[t] = IF t \in dirty[s] THEN ver[t] + 1
                      ELSE IF t \in Modified(s) THEN view[s][t] ELSE shared[t]
  BY DEF Commit
<1>2. pc'[s] = "release"
  BY GotoFacts DEF Commit, Labels
<1>3. t \in Modified(s) /\ view[s][t] # ver[t]
  BY <1>1
<1>4. write_lock[t] # s
  BY <1>3 DEF VersionInv
<1>5. GivingBack(s)
  BY <1>3, <1>4 DEF TransactionInv
<1>6. pc[s] = "reopen"
  BY <1>5 DEF GivingBack
<1> QED
  BY <1>2, <1>3, <1>4, <1>5, <1>6 DEF CommitsGivenBack, GivenBack

\* One that fails can only have left behind a table that was not the last.
LEMMA CommitFailsBehind ==
  ASSUME TypeOK, NEW s \in Sessions, NEW l, CommitFails(s, l),
         NEW t \in Tables, shared[t] = ver[t], shared'[t] # ver'[t], pc[s] # "failed"
  PROVE  CommitBreaksOff(s, t)
<1>1. PICK done \in SUBSET dirty[s] :
        /\ Modified(s) \ done # {}
        /\ ver' = [u \in Tables |-> IF u \in done THEN ver[u] + 1 ELSE ver[u]]
        /\ Goto(s, "failed") /\ shared' = shared
  BY Zenon DEF CommitFails
<1>2. t \in done
  BY <1>1
<1>3. pc'[s] = "failed"
  BY <1>1, GotoFacts DEF Labels
<1> QED
  BY <1>1, <1>2, <1>3 DEF CommitBreaksOff

\* No other step makes m_tables lag behind the disk.
LEMMA StepPublishes ==
  ASSUME LockProtocolInv, [Next]_vars,
         NEW t \in Tables, shared[t] = ver[t], shared'[t] # ver'[t]
  PROVE  \E s \in Sessions : CommitsGivenBack(s, t) \/ CommitBreaksOff(s, t)
<1>1. TypeOK /\ \A s \in Sessions : TransactionInv(s) /\ VersionInv(s)
  BY DEF LockProtocolInv
<1>2. ~ UNCHANGED <<ver, shared>>
  OBVIOUS
<1>3. PICK s \in Sessions :
        /\ pc[s] \in {"idle", "run", "reopen"}
        /\ \E l \in {"idle", "unlock"} : Commit(s, l) \/ CommitFails(s, l)
  <2>1. ASSUME NEW u \in Tables, DropTable(u) PROVE FALSE
    BY <1>1, <2>1 DEF DropTable, TypeOK
  <2>2. ~ Flush /\ ~ UNCHANGED vars /\ \A u \in Tables : ~ StartDrop(u)
    BY <1>2, Zenon DEF Flush, StartDrop, vars, data
  <2>3. \A r \in Sessions : ~ Kill(r)
    BY <1>2, Zenon DEF Kill, data
  <2>4. PICK s \in Sessions : Step(s) \/ Ask(s)
    BY <2>1, <2>2, <2>3 DEF Next
  <2>5. \A l : ~ Rollback(s, l)
    BY <1>2, Zenon DEF Rollback, data
  <2>6. \A k \in 1 .. MaxReqs : ~ AcquireReadLock(s, k) /\ ~ AcquireWriteLock(s, k) /\ ~ Unlock(s, k)
    BY <1>2, Zenon DEF AcquireReadLock, AcquireWriteLock, WriteLocked, Unlock, data
  <2>7. /\ ~ AcquireFails(s) /\ ~ AllLocked(s) /\ ~ RollbackKilled(s) /\ ~ RollbackFailed(s)
        /\ ~ EndTransaction(s) /\ ~ ClearThreadParams(s)
        /\ \A u \in Tables : ~ ReleaseLocks(s, u)
    BY <1>2, <2>5, Zenon DEF AcquireFails, AllLocked, RollbackKilled, RollbackFailed,
       EndTransaction, ClearThreadParams, ReleaseLocks, data
  <2>8. /\ ~ Open(s) /\ ~ Load(s) /\ ~ RollbackStatement(s) /\ ~ CloseConnection(s)
    BY <1>2, <2>5, Zenon DEF Open, Load, RollbackStatement, CloseConnection, data
  <2>9. Finish(s) \/ Close(s) \/ CommitStatement(s)
    BY <2>4, <2>6, <2>7, <2>8, Zenon DEF Step, Ask
  <2>10. ASSUME NEW l, NEW e, EndStatement(s, e, l)
         PROVE  ~ e /\ (Commit(s, l) \/ CommitFails(s, l))
    BY <1>2, <2>5, <2>10, Zenon DEF EndStatement, rcbase_commit, data
  <2>11. CASE Finish(s)
    BY <2>10, <2>11, Zenon DEF Finish
  <2>12. CASE Close(s)
    BY <1>2, <2>10, <2>12, Zenon DEF Close, data
  <2>13. CASE CommitStatement(s)
    BY <2>13, Zenon DEF CommitStatement
  <2> QED
    BY <2>9, <2>11, <2>12, <2>13
<1> QED
  BY <1>1, <1>3, CommitPublishes, CommitFailsBehind

\* m_tables comes to lag behind the disk only by the commit of a statement that was
\* made to reopen and has given its lock back, or by a commit of several tables that
\* breaks off, for any number of sessions and tables.
THEOREM Publication == Spec => PublishesCurrent
<1> DEFINE P == \A t \in Tables :
                  shared[t] = ver[t] /\ shared'[t] # ver'[t] =>
                    \E s \in Sessions : CommitsGivenBack(s, t) \/ CommitBreaksOff(s, t)
<1>1. LockProtocolInv /\ [Next]_vars => [P]_vars
  BY StepPublishes
<1> QED
  BY <1>1, LockProtocol, PTL DEF Spec, PublishesCurrent
=============================================================================
