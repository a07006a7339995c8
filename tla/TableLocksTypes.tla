-------------------------- MODULE TableLocksTypes ---------------------------
(***************************************************************************)
(* Type correctness of the table locks, and the facts about statements and *)
(* control flow that the other proofs use.                                 *)
(***************************************************************************)
EXTENDS TableLocks, TLAPS

USE NoneAssumption, BoundAssumption, StatementsAssumption

\* The requests of an open statement.
LEMMA StatementFacts ==
  ASSUME NEW q \in Statements \cup {<< >>}
  PROVE  /\ DOMAIN q \subseteq 1 .. MaxReqs
         /\ \A k \in DOMAIN q : q[k].table \in Tables /\ q[k].mode \in {"read", "write", "alter"}
         /\ \A j, k \in DOMAIN q : q[k].mode = "alter" => j = k
<1>1. CASE q = << >>
  BY <1>1
<1>2. CASE q \in Statements
  <2>1. PICK n \in 1 .. MaxReqs : q \in [1 .. n -> Request]
    BY <1>2 DEF AllStatements
  <2>2. \A j, k \in DOMAIN q : q[k].mode = "alter" => j = k
    BY <1>2, Zenon DEF AllStatements
  <2> QED
    BY <2>1, <2>2 DEF Request
<1> QED
  BY <1>1, <1>2

\* The same for the statement of a session.
LEMMA RequestFacts ==
  ASSUME TypeOK, NEW s \in Sessions
  PROVE  /\ \A k \in DOMAIN stmt[s] :
              /\ k \in 1 .. MaxReqs /\ stmt[s][k].table \in Tables
              /\ stmt[s][k].mode \in {"read", "write", "alter"}
         /\ \A j, k \in DOMAIN stmt[s] : stmt[s][k].mode = "alter" => j = k
<1>1. stmt[s] \in Statements \cup {<< >>}
  BY DEF TypeOK
<1> QED
  BY <1>1, StatementFacts

Labels == {"idle", "lock", "run", "undo", "abort", "reopen", "unlock", "failed", "release",
           "close"}
Returns == {"idle", "undo", "abort", "reopen", "unlock", "close"}

\* Goto changes only the session it is for.
LEMMA GotoFacts ==
  ASSUME TypeOK, NEW s \in Sessions, NEW l \in Labels, Goto(s, l)
  PROVE  /\ pc' \in [Sessions -> Labels]
         /\ stmt' \in [Sessions -> Statements \cup {<< >>}]
         /\ enlisted' \in [Sessions -> BOOLEAN]
         /\ killed' \in [Sessions -> BOOLEAN] /\ deleted' \in [Sessions -> BOOLEAN]
         /\ old' \in [Sessions -> SUBSET Tables]
         /\ pc'[s] = l
         /\ stmt'[s] = IF l = "idle" THEN << >> ELSE stmt[s]
         /\ l # "idle" => enlisted'[s] = enlisted[s]
         /\ \A r \in Sessions \ {s} :
              pc'[r] = pc[r] /\ stmt'[r] = stmt[r] /\ enlisted'[r] = enlisted[r]
<1> DEFINE q == IF l = "idle" THEN << >> ELSE stmt[s]
<1>1. q \in Statements \cup {<< >>}
  BY DEF TypeOK
<1>2. stmt' = [stmt EXCEPT ![s] = q]
  BY DEF Goto
<1>3. stmt' \in [Sessions -> Statements \cup {<< >>}]
  BY <1>1, <1>2 DEF TypeOK
<1>4. /\ pc' \in [Sessions -> Labels] /\ old' \in [Sessions -> SUBSET Tables]
      /\ pc'[s] = l /\ \A r \in Sessions \ {s} : pc'[r] = pc[r]
  BY DEF Goto, TypeOK, Labels
<1>5. stmt'[s] = q /\ \A r \in Sessions \ {s} : stmt'[r] = stmt[r]
  BY <1>2 DEF TypeOK
<1>6. /\ enlisted' \in [Sessions -> BOOLEAN]
      /\ killed' \in [Sessions -> BOOLEAN] /\ deleted' \in [Sessions -> BOOLEAN]
  BY DEF Goto, TypeOK
<1>7. /\ l # "idle" => enlisted'[s] = enlisted[s]
      /\ \A r \in Sessions \ {s} : enlisted'[r] = enlisted[r]
  BY DEF Goto, TypeOK
<1> QED
  BY <1>3, <1>4, <1>5, <1>6, <1>7
-----------------------------------------------------------------------------
\* Type correctness is preserved by every step.
LEMMA TypeStep == ASSUME TypeOK, [Next]_vars PROVE TypeOK'
<1> DEFINE Rest == /\ ret' \in [Sessions -> Returns]
                   /\ acq' \in [Sessions -> SUBSET (1 .. MaxReqs)]
                   /\ rolled' \in [Sessions -> BOOLEAN]
                   /\ autocommit' \in [Sessions -> BOOLEAN]
           Work == /\ view' \in [Sessions -> [Tables -> Nat \cup {None}]]
                   /\ dirty' \in [Sessions -> SUBSET Tables]
                   /\ todo' \in [Sessions -> SUBSET Tables]
           Shares == /\ reads' \in [Tables -> SUBSET Lock]
                     /\ write_lock' \in [Tables -> Sessions \cup {None}]
                     /\ registered' \subseteq Tables /\ dropping' \subseteq Tables
           Data == ver' \in [Tables -> Nat] /\ shared' \in [Tables -> Nat]
           Sess == /\ pc' \in [Sessions -> Labels]
                   /\ stmt' \in [Sessions -> Statements \cup {<< >>}]
                   /\ enlisted' \in [Sessions -> BOOLEAN]
                   /\ killed' \in [Sessions -> BOOLEAN] /\ deleted' \in [Sessions -> BOOLEAN]
                   /\ old' \in [Sessions -> SUBSET Tables]
<1>0. SUFFICES Sess /\ Rest /\ Work /\ Shares /\ Data
  BY DEF TypeOK, Labels, Returns
<1>1. CASE UNCHANGED vars
  BY <1>1, Zenon DEF vars, session, flags, work, locks, data, TypeOK, Labels, Returns
<1>2. ASSUME NEW s \in Sessions, NEW l \in Returns,
             Rollback(s, l), rolled' \in [Sessions -> BOOLEAN]
      PROVE  Sess /\ Rest /\ Work /\ Shares /\ Data
  <2>1. Sess
    BY <1>2, GotoFacts DEF Rollback, Labels
  <2> QED
    BY <1>2, <2>1, Zenon DEF Rollback, TypeOK, Modified, locks, data, Returns
<1>3. ASSUME NEW s \in Sessions, NEW l \in Returns,
             Commit(s, l), rolled' = rolled
      PROVE  Sess /\ Rest /\ Work /\ Shares /\ Data
  <2>1. Sess
    BY <1>3, GotoFacts DEF Commit, Labels
  <2>2. Data
    BY <1>3 DEF Commit, TypeOK, Modified
  <2> QED
    BY <1>3, <2>1, <2>2, Zenon DEF Commit, TypeOK, Modified, locks, Returns
<1>3a. ASSUME NEW s \in Sessions, NEW l \in Returns, CommitFails(s, l), rolled' = rolled
       PROVE  Sess /\ Rest /\ Work /\ Shares /\ Data
  <2>1. PICK done \in SUBSET dirty[s] :
          /\ ver' = [t \in Tables |-> IF t \in done THEN ver[t] + 1 ELSE ver[t]]
          /\ dirty' = [dirty EXCEPT ![s] = @ \ done]
          /\ ret' = [ret EXCEPT ![s] = l] /\ Goto(s, "failed")
          /\ UNCHANGED <<acq, autocommit, view, todo, locks, dropping, shared>>
    BY <1>3a, Zenon DEF CommitFails
  <2>2. Sess
    BY <2>1, GotoFacts DEF Labels
  <2>3. Data
    BY <2>1 DEF TypeOK
  <2>4. dirty' \in [Sessions -> SUBSET Tables]
    BY <2>1 DEF TypeOK
  <2> QED
    BY <1>3a, <2>1, <2>2, <2>3, <2>4, Zenon DEF TypeOK, locks, Returns
<1>4. ASSUME NEW s \in Sessions, NEW l \in Labels, Goto(s, l),
             UNCHANGED <<ret, acq, rolled, autocommit, work, locks, dropping, data>>
      PROVE  Sess /\ Rest /\ Work /\ Shares /\ Data
  <2>1. Sess
    BY <1>4, GotoFacts
  <2> QED
    BY <1>4, <2>1 DEF TypeOK, work, locks, data, Returns
<1>5. ASSUME NEW s \in Sessions, Open(s) PROVE Sess /\ Rest /\ Work /\ Shares /\ Data
  <2>1. PICK q \in Statements :
          /\ pc' = [pc EXCEPT ![s] = "lock"] /\ stmt' = [stmt EXCEPT ![s] = q]
          /\ registered' = registered \cup {q[k].table : k \in DOMAIN q}
          /\ UNCHANGED <<ret, acq, rolled, enlisted, flags, autocommit, work, reads, write_lock,
                         dropping, data>>
    BY <1>5, Zenon DEF Open
  <2>2. Sess
    BY <2>1 DEF TypeOK, flags, Labels
  <2>3. Shares
    BY <2>1, StatementFacts DEF TypeOK
  <2> QED
    BY <2>1, <2>2, <2>3 DEF TypeOK, work, data, Returns
<1>6. ASSUME NEW s \in Sessions, NEW k \in 1 .. MaxReqs, AcquireReadLock(s, k)
      PROVE  Sess /\ Rest /\ Work /\ Shares /\ Data
  <2> DEFINE t == stmt[s][k].table
  <2>1. t \in Tables
    BY <1>6, RequestFacts DEF AcquireReadLock, NextReq
  <2>2. CreateReadLockForThread(s, k) \in Lock
    BY DEF CreateReadLockForThread, Lock
  <2>3. reads' = [reads EXCEPT ![t] = @ \cup {CreateReadLockForThread(s, k)}]
    BY <1>6 DEF AcquireReadLock
  <2>4. reads' \in [Tables -> SUBSET Lock]
    BY <2>1, <2>2, <2>3 DEF TypeOK
  <2> QED
    BY <1>6, <2>4 DEF AcquireReadLock, TypeOK, flags, work, data, Labels, Returns
<1>7. ASSUME NEW s \in Sessions, NEW k \in 1 .. MaxReqs, AcquireWriteLock(s, k)
      PROVE  Sess /\ Rest /\ Work /\ Shares /\ Data
  <2> DEFINE t == stmt[s][k].table
  <2>1. t \in Tables /\ WriteLocked(s, k, t)
    BY <1>7, RequestFacts DEF AcquireWriteLock, NextReq
  <2>2. view' \in [Sessions -> [Tables -> Nat \cup {None}]]
    <3>1. view' = [view EXCEPT ![s] = [view[s] EXCEPT ![t] = ver[t]]] \/ view' = view
      BY <2>1 DEF WriteLocked
    <3>2. [view[s] EXCEPT ![t] = ver[t]] \in [Tables -> Nat \cup {None}]
      BY <2>1 DEF TypeOK
    <3> QED
      BY <3>1, <3>2, Zenon DEF TypeOK
  <2>3. write_lock' \in [Tables -> Sessions \cup {None}]
    BY <2>1 DEF WriteLocked, TypeOK
  <2>4. Sess /\ Rest
    BY <2>1 DEF WriteLocked, TypeOK, flags, Labels, Returns
  <2> QED
    BY <2>1, <2>2, <2>3, <2>4 DEF WriteLocked, TypeOK, data
<1>8. ASSUME NEW s \in Sessions, Load(s) PROVE Sess /\ Rest /\ Work /\ Shares /\ Data
  <2>1. dirty' \in [Sessions -> SUBSET Tables]
    BY <1>8 DEF Load, Modified, TypeOK
  <2>2. UNCHANGED <<session, flags, autocommit, view, todo, locks, dropping, data>>
    BY <1>8 DEF Load
  <2> QED
    BY <2>1, <2>2, Zenon DEF session, flags, locks, data, TypeOK, Labels, Returns
<1>9. ASSUME NEW s \in Sessions, NEW t \in Tables, ReleaseLocks(s, t)
      PROVE  Sess /\ Rest /\ Work /\ Shares /\ Data
  <2>1. reads' \in [Tables -> SUBSET Lock] /\ write_lock' \in [Tables -> Sessions \cup {None}]
    BY <1>9 DEF ReleaseLocks, TypeOK
  <2>2. todo' \in [Sessions -> SUBSET Tables]
    BY <1>9 DEF ReleaseLocks, TypeOK
  <2>3. UNCHANGED <<session, flags, autocommit, view, dirty, registered, dropping, data>>
    BY <1>9 DEF ReleaseLocks
  <2> QED
    BY <2>1, <2>2, <2>3, Zenon DEF session, flags, data, TypeOK, Labels, Returns
<1>10. ASSUME NEW s \in Sessions, EndTransaction(s) PROVE Sess /\ Rest /\ Work /\ Shares /\ Data
  <2>0. ret[s] \in Labels /\ Goto(s, ret[s])
    BY <1>10 DEF EndTransaction, TypeOK, Labels
  <2>1. Sess
    BY <2>0, GotoFacts
  <2>2. \A t \in Tables : \A l \in reads[t] : AfterTransaction(s, l) \in Lock
    BY DEF AfterTransaction, Lock, TypeOK
  <2>3. reads' \in [Tables -> SUBSET Lock]
    BY <1>10, <2>2 DEF EndTransaction
  <2>4. write_lock' \in [Tables -> Sessions \cup {None}]
    BY <1>10 DEF EndTransaction, TypeOK
  <2>5. Rest /\ Work
    BY <1>10 DEF EndTransaction, TypeOK, Returns
  <2> QED
    BY <1>10, <2>1, <2>3, <2>4, <2>5 DEF EndTransaction, TypeOK, data
<1>11. ASSUME NEW s \in Sessions, NEW k \in 1 .. MaxReqs, Unlock(s, k)
       PROVE  Sess /\ Rest /\ Work /\ Shares /\ Data
  <2>1. reads' \in [Tables -> SUBSET Lock]
    BY <1>11, Zenon DEF Unlock, ReleaseLockIfNeeded, ReleaseLockIf, TypeOK
  <2>2. write_lock' \in [Tables -> Sessions \cup {None}]
    BY <1>11, Zenon DEF Unlock, ReleaseLockIfNeeded, ReleaseLockIf, TypeOK
  <2> QED
    BY <1>11, <2>1, <2>2 DEF Unlock, TypeOK, flags, work, data, Labels, Returns
<1>12. ASSUME NEW s \in Sessions, ClearThreadParams(s)
       PROVE  Sess /\ Rest /\ Work /\ Shares /\ Data
  <2>1. Sess
    BY <1>12, GotoFacts DEF ClearThreadParams, Labels
  <2>2. reads' \in [Tables -> SUBSET Lock] /\ write_lock' \in [Tables -> Sessions \cup {None}]
    BY <1>12 DEF ClearThreadParams, TypeOK
  <2> QED
    BY <1>12, <2>1, <2>2, ZenonT(60) DEF ClearThreadParams, TypeOK, work, data, Returns
<1>13. ASSUME NEW s \in Sessions, Kill(s) PROVE Sess /\ Rest /\ Work /\ Shares /\ Data
  BY <1>13 DEF Kill, session, work, locks, data, TypeOK, Labels, Returns
<1>14. \A s \in Sessions : Opened(s) \subseteq Tables
  BY RequestFacts DEF Opened
<1>15. CASE Flush
  BY <1>14, <1>15 DEF Flush, MarkDeleted, session, work, locks, data, TypeOK, Labels,
               Returns
<1>16. ASSUME NEW t \in Tables, StartDrop(t) PROVE Sess /\ Rest /\ Work /\ Shares /\ Data
  BY <1>16 DEF StartDrop, MarkDeleted, session, work, locks, data, TypeOK, Labels,
               Returns
<1>17. ASSUME NEW t \in Tables, DropTable(t) PROVE Sess /\ Rest /\ Work /\ Shares /\ Data
  <2>1. view' \in [Sessions -> [Tables -> Nat \cup {None}]]
    BY <1>17 DEF DropTable, TypeOK
  <2> QED
    BY <1>17, <2>1 DEF DropTable, session, flags, TypeOK, Labels, Returns
<1>18. ASSUME NEW s \in Sessions, NEW l \in {"idle", "unlock"}, NEW e \in BOOLEAN,
              EndStatement(s, e, l)
       PROVE  Sess /\ Rest /\ Work /\ Shares /\ Data
  <2>1. rolled' = rolled /\ l \in Labels /\ l \in Returns
    BY <1>18 DEF EndStatement, Labels, Returns
  <2> QED
    BY <1>2, <1>3, <1>4, <1>18, <1>3a, <2>1 DEF EndStatement, rcbase_commit, TypeOK
<1>19. ASSUME NEW s \in Sessions, Step(s) PROVE Sess /\ Rest /\ Work /\ Shares /\ Data
  <2>1. CASE AcquireFails(s) \/ AllLocked(s)
    <3>1. \E l \in Labels : Goto(s, l)
      BY <2>1 DEF AcquireFails, AllLocked, Labels
    <3> QED
      BY <1>4, <2>1, <3>1, Zenon DEF AcquireFails, AllLocked
  <2>2. CASE Finish(s)
    BY <1>18, <2>2 DEF Finish
  <2>3. CASE RollbackKilled(s)
    <3>1. rolled' \in [Sessions -> BOOLEAN] /\ pc[s] \in Returns
      BY <2>3 DEF RollbackKilled, TypeOK, Returns
    <3> QED
      BY <1>2, <2>3, <3>1 DEF RollbackKilled
  <2>4. CASE Close(s)
    <3>1. CASE pc[s] = "unlock" /\ Goto(s, "idle")
               /\ UNCHANGED <<ret, acq, rolled, autocommit, work, locks, dropping, data>>
      BY <1>4, <3>1 DEF Labels
    <3> QED
      BY <1>18, <2>4, <3>1, Zenon DEF Close
  <2>5. CASE RollbackFailed(s)
    <3>1. rolled' \in [Sessions -> BOOLEAN] /\ ret[s] \in Returns
      BY <2>5 DEF RollbackFailed, TypeOK, Returns
    <3> QED
      BY <1>2, <2>5, <3>1 DEF RollbackFailed
  <2> QED
    BY <1>6, <1>7, <1>9, <1>10, <1>11, <1>12, <1>19, <2>1, <2>2, <2>3, <2>4, <2>5, ZenonT(60)
    DEF Step
<1>20. ASSUME NEW s \in Sessions, Ask(s) PROVE Sess /\ Rest /\ Work /\ Shares /\ Data
  <2>1. CASE CommitStatement(s)
    BY <1>3, <1>3a, <2>1 DEF CommitStatement, Returns
  <2>2. CASE RollbackStatement(s) \/ CloseConnection(s)
    <3>1. rolled' \in [Sessions -> BOOLEAN]
      BY <2>2 DEF RollbackStatement, CloseConnection, TypeOK
    <3> QED
      BY <1>2, <2>2, <3>1 DEF RollbackStatement, CloseConnection, Returns
  <2> QED
    BY <1>5, <1>8, <1>20, <2>1, <2>2 DEF Ask
<1> QED
  BY <1>1, <1>13, <1>15, <1>16, <1>17, <1>19, <1>20 DEF Next
=============================================================================
