# Infobright 4.0.7: commit, locks, packs and cache, in TLA+

Infobright (Brighthouse) is a columnar storage engine for MySQL 5.1. A table is a
directory of column files; a column is a sequence of *packs* of 65536 rows, each
described by a *data pack node* (DPN). Rows enter only by `LOAD DATA`, which runs in
a separate process, and become visible by a commit that flips one switch file per
table. Queries read packs through a cache that is shared by all sessions.

This directory keeps the specifications of the parts of the engine whose correctness
depends on *order*: of file operations against crashes, of sessions against each
other, and of cached data against the files. Paths below are relative to
`src/src/storage/brighthouse/` unless they start with `src/`.

Contents

1. [Inventory](#1-inventory)
2. [The modules and the code](#2-the-modules-and-the-code)
3. [Runs](#3-runs)
4. [Bounds](#4-bounds)
5. [Fairness](#5-fairness)
6. [Proofs](#6-proofs)
7. [Disagreements between code and text](#7-disagreements-between-code-and-text)
8. [Assumptions and what is not modelled](#8-assumptions-and-what-is-not-modelled)
9. [Plan](#9-plan)
10. [Working on it](#10-working-on-it)

## 1. Inventory

For each part: its state, its operations, the parts it works with, what is hard about
it, and what makes it correct. `PROJECT.json` has the files of each part
(`components`), and the hazards with the line where each bites (`hazards`).

**Commit protocol of a table** (`core/RCTableImpl.cpp`, `core/RCAttr.cpp`,
`community/edition/core/Transaction.cpp`). State: per column the headers `TA`, `TB`
and the session header `TS`; per table the A/B switch file; in memory the shared
`RCTable` objects of the engine (`m_tables`) and those of a transaction
(`m_modified_tables`). Operations: open, save a session, commit the session, flip,
replace the shared table, roll back. Hard: the server or the loader stops between any
two file operations; a file operation fails; a `TS` of a dead transaction is found
later. Correct when a table is always one version in all its columns, and changes
only by whole transactions.

**Table locks and transactions** (`system/ConnectionInfo.*`, `community/edition/system/ConnectionInfo_com.cpp`,
`handler/BrighthouseHandler*`, `core/RCEngine.cpp`). State: read and write locks per
table (`IBTableShared`), the locks and modified tables of each transaction. Operations:
acquire by polling, release at statement end, commit, rollback, disconnect, drop. They
are driven by MySQL's statement machinery. Hard: locks outlive the `Transaction` they
refer to; KILL, FLUSH TABLES and DROP TABLE meet waiting sessions; waits have no
timeout. Correct when a transaction has the tables it modifies for itself, no lock
stays behind, and DROP TABLE ends.

**Pack and DPN files** (`community/edition/loader/RCAttr_load.cpp`,
`loader/RCAttrLoadBase.cpp`, `core/RCAttr.cpp`). State: numbered pack files in two
*save locations*, the DPN file with two slots for the last pack, and the header fields
that say which location, file and position are current. Operations: append to the last
pack, place and write a pack, write nodes, write the header. Hard: the committed
column is read from the same files a session writes, and sessions that were rolled
back leave their bytes there. Correct when the committed column reads back the
committed rows in every state, and a transaction reads back its own.

**Data cache and pack locks** (`core/DataCache.*`, `core/RCAttr.cpp`,
`core/RCAttrPack*`). State: a global cache and one per writing transaction, the set of
pending loads, lock counts in objects and uses in DPNs, the dictionary (`FTree`) of a
lookup column. Operations: lock a pack for use, fetch it or wait for another thread's
fetch, unlock, drop stale objects after a LOAD, move the local cache to the global one
at commit. Hard: mutexes are released during a fetch; a pack may be evicted and
fetched again meanwhile; what a LOAD makes stale is dropped by hand at several places.
Correct when a pack in use is the one of the reader's view, lock counts are exact, one
thread loads a pack at a time and every wait ends.

**Memory manager** (`system/MemoryManagement/`). State: per-object lock counts, queues
of evictable objects, sizes. Operations: allocate, release, track, collapse a column.
Hard: the order of its mutexes against those of the cache and the columns. Correct when
only unlocked objects are released and no order of mutexes blocks.

**LOAD DATA and the loader process** (`community/edition/loader/`, `loader/`,
`loader/BHLoaderApp.cpp`). State: parameters in shared memory, a pipe for client data, the exit
status, the columns opened for writing. Operations: start the process, parse, append,
save, report, re-open the table. Hard: the process may be killed, fail, or outlive the
server. Correct when a LOAD that fails leaves nothing visible and one that succeeds
leaves the same rows in every column.

**Handlerton, handler and MySQL's statement machinery** (`handler/`,
`src/vendor/mysql-5.1.40-comm/sql/`). State: the share of each open table, the THD's
transaction and flags. Operations: `external_lock`, commit, rollback, open, close.
Correct when the engine is told of every statement end exactly once.

**DPN splices** (`core/CachedDPNSpliceAllocator.*`, `core/SplicedVector.h`). State: cached groups of nodes. Operations: read a
splice, drop it after a LOAD. Correct when a node is never older than the header.

**Knowledge nodes** (`core/RSI_*`). State: index files shared by server and loader, in
a manager with its own locks. Operations: get, add, update, save, delete. Hard: two
processes, and an index older than its packs gives wrong answers. Correct when a
rough answer never excludes a row that qualifies.

**Pack statistics** (`LoadDataPackN`). Minimum, maximum, sum and null count of a pack,
kept up to date as rows are appended. Correct when they are those of the rows.

**Filters and multi-index** (`core/Filter*`, `core/MultiIndex*`). State: a bitmap of
rows in lazily created blocks. Operations: set, reset, and, or, iterate. Correct when
the filter is the set of rows it stands for.

**Pack guardian** (`core/PackGuardian.*`). Which packs an iteration keeps locked.
Correct when every pack read is locked and every lock is given back.

**Query execution, compilation and optimisation** (`core/`, `vc/`);
**compression** (`compress/`); **types and parsing** (`types/`); **export**
(`exporter/`); **domain injection** (`domaininject/`); **files, channels,
configuration, logging** (`system/`); **offline tools** (consistency manager, charset
migration, downgrade). Sequential data processing or pure I/O; section 8 says why they
are left out.

How the parts interact in one LOAD: MySQL calls `external_lock`, which takes the
*write lock* and opens the transaction's own table object; the *loader process* writes
*packs, nodes* and one *session header* per column; the server drops what it had
*cached* of the last pack row and re-opens the table; the *commit* renames the session
headers, flips the switch, replaces the shared table object and moves the local
*cache* to the global one; the *locks* are released.

## 2. The modules and the code

| module | what it is |
|---|---|
| `TableVersions` | abstract: a set of tables, each a sequence of rows; loads collect, publish appends, forget drops |
| `TableCommit` | the commit protocol, one step per file operation; implements `TableVersions` |
| `TableCommitInv` | its inductive invariant `CommitProtocolInv` |
| `TableCommitTypes`, `TableCommitSteps`, `TableCommitProofs` | its proofs |
| `TableLocks` | sessions, table locks, transactions, DROP TABLE; with `LockProtocolInv` |
| `TableLocksTypes`, `TableLocksVersions`, `TableLocksProofs` | its proofs |
| `PackStore` | packs, nodes and header of one column on disk |
| `PackCache` | packs and dictionary of one column in memory |
| `MC*` | symmetry sets and constants for TLC |

The four components meet at assumptions that one makes and another establishes:

- `TableCommit` has one writing connection and `PackCache` has either readers or one
  writer. `TableLocks` shows this of the tables a transaction has modified and still
  has locked (`WriterIsAlone`, proved for every instance), with one exception. Under
  autocommit=1 a statement that is not going to run unlocks its tables before its
  transaction ends, so for a while a table is in `m_modified_tables` without its lock,
  and another session may use it. `WriterIsAlone` also says that nothing has been
  loaded into such a table. The end of that transaction therefore leaves the table's
  files alone (`CommitSaveSession` finds no session, `RCAttr::Rollback` no file of its
  own), but a commit still makes the transaction's table object the shared one. Neither
  `TableCommit` nor `PackCache` has this second, idle writer: their results about
  what is shared in memory are those of transactions that keep their locks.
  `PublishesCurrent` covers the exception.
- `PackStore` commits a header in one step. `TableCommit` shows that the rename of
  the session headers and the flip act as one step (`AtomicVersions`, proved), and
  that all columns move together (`ColumnsAgree`, proved).
- `TableCommit` abstracts a header to the rows it describes. `PackStore` shows that
  these rows can be read through it (`CommittedReadable`).
- `PackCache` reads the rows of a view from disk; that they are the right rows is
  again `PackStore`.

Definitions named after a fault (`...Late`, `...OffByOne`, `CommitSwitchAlways` and the
like, listed under `mutants` in `PROJECT.json`) are deliberately wrong variants of the
definition that follows them.
No specification uses them; replacing a definition by its variant must make the
property named in `PROJECT.json` fail.

### TableCommit

`hd[t][c][f]` is the header file `f` of column `c`: "A", "B" or the session file "S".
A header is absent, empty (created and not yet written), partial (written without
the session block at its end) or full, and carries rows and a session id. `sw[t]` is
the switch file. `tables` is `m_tables`, `views` is `m_modified_tables`, and `work`
remembers the rows of the transaction's finished LOADs (history, read by no action).

| action | code |
|---|---|
| `GetNewTransaction`, `AddTableWR` | `ConnectionInfo::GetNewTransaction`, `Transaction::AddTableWR` |
| `GetTableShared` | `RCEngine::GetTableShared`, opening the columns read-only |
| `StartLoad`, `LoaderOpen`, `LoaderAppend`, `LoaderNoInput`, `LoaderError` | `RCEngine::ExternalLoad` and the loader's main program |
| `LoaderSave` | `RCAttr::Save` per column, in its three file states |
| `KillLoader`, `FinishLoad`, `FailLoad` | exit of the process; `RefreshTable` when rows were loaded |
| `Commit`, `CommitSaveSession`, `RemoveOpposite`, `RenameSession` | first loop of `Transaction::Commit`, `RCAttr::CommitSaveSession` |
| `StartSwitch`, `CommitSwitch`, `ReplaceTables` | second loop, `RCTableImpl::CommitSwitch`, `ReplaceTable` |
| `Rollback`, `RollbackTable`, `RollbackAttr`, `EndRollback` | `Transaction::Rollback`, `RCAttr::Rollback` |
| `Crash` | the server and its loader stop; memory is lost |

`Faults` selects the failures: "crash", "kill" (of the loader), "rename" (a header
cannot be renamed), "flush" (`FlushTableBuffers` throws), "flip" (the switch file
cannot be changed).

### TableLocks

A session (`THD` with its `ConnectionInfo`) opens the tables of a statement, takes one
external lock for each in order, runs, ends the statement's transaction, unlocks,
closes. `reads[t]` and `write_lock[t]` are the lock lists of `IBTableShared`. A lock
refers to its `Transaction` by reference; `live` becomes false when that object is
deleted, and an id read through a dead reference may equal any id. `killed`,
`deleted` and `old` are `thd->killed`, `thd->some_tables_deleted` and tables whose
version FLUSH has made old. `ver` is the version on disk, `shared` that of `m_tables`,
`view[s]` that of `m_modified_tables`.

Three facts of the code that shape the model: the commit or rollback of a statement
comes before its external unlock, so read locks outlive their `Transaction` for a
while; a statement's rollback ends the whole transaction; and `external_lock` returns
success when `AddTableWR` throws. A commit that throws is rolled back, and until then
`drop_rename_mutex` is free (`CommitFails`, `RollbackFailed`). A statement that has its
locks gives them back if tables were marked deleted (`reopen`, then a commit) or the
thread was killed (`abort`, then a rollback). A DROP TABLE marks the users of the table
(`some_tables_deleted`), which ends their polling, and removes the table once nobody
has it open. `drop_rename_mutex` is held through Commit, Rollback and DropTable.

### PackStore

`file[f]` is a pack file as cells; a stored pack is a run of cells that carry its
rows, and a read succeeds only if all cells belong to one version of the pack, so a
torn write is seen. `dpn` is the DPN file: slots 0 and 1 for the last pack, one per
save location, then one slot per earlier pack. `head` and `sess` are the committed and
the session header; `mem` is the loader's `RCAttrLoad`.

| action | code |
|---|---|
| `StartLoad` (`OpenMode`) | opening for writing: continue the own session, or flip the location |
| `LoadData` (`PreparePackForLoad`, `AppendRows`, `SavePack`) | `RCAttrLoad::LoadData`; a full pack is saved at once |
| `SavePacks`, `SaveDPN`, `SaveHeader` | `RCAttrLoad::Save`: packs, then nodes, then the header |
| `DoSavePack` | the choice between overwriting, rewinding, appending and a new file |
| `KillLoader`, `FinishLoad`, `Commit`, `Rollback`, `Crash` | ends of a load and of a transaction |

The committed column stays readable for these reasons, which the runs confirm: a
session moves a partial last pack to the other location before it changes it; packs
are overwritten in place only if the same session wrote them; a file is rewound only
if the pack is physically last in it; earlier slots of the DPN file are written only
for packs the session created or moved. The model follows the text columns; numeric
columns differ in the declared size of a pack (see the hazards).

### PackCache

`cache["g"]` and `cache["l"]` are the global cache and that of the writing
transaction; `heap[o]` is a pack object with its lock count; `dpn[s][c]` counts the
uses of a pack through a column object; `pending[s]` is `_packPendingIO`. A thread
goes through `LockPackForUse` (a use counted in a node that already has the pack, or a
miss), `GetObject` (found, wait, or load), `Fetch` / `FetchFails`, `Publish`,
`Broadcast`, `SetPack`, and later `UnlockPackFromUse`. `ReleaseMemory` is the memory
manager dropping an unlocked pack, `Collapse` its release of a column's nodes.
`FinishLoad` drops the stale objects of the local cache and re-opens the columns;
`Commit` drops the last old pack row of the global cache and moves the local one;
`Rollback` releases the local cache.

## 3. Runs

Eight runs check that properties hold; four show a property that some text of the
repository states and the code does not keep (section 7). Counts are distinct states.

| run | instance | checks | states |
|---|---|---|---|
| `commit` | 1 table of 2 columns, 3 transactions, 3 loads of up to 2 rows, all faults | `TypeOK`, `ColumnsAgree`, `AtomicVersions` | 388,024 |
| `commit_two` | 2 tables of 2 columns in one transaction; crash, kill, failing rename | `SharedIsCurrent`, `CommitPublishes`, `CommitProtocolInv` | 107,154 |
| `locks` | 2 sessions, 1 table, all statements of up to 2 requests, all faults, DROP | `TypeOK`, `WriterIsAlone`, `NoLeakedLock`, `SharesRegistered` | 2,482,106 |
| `locks_drop` | 2 sessions, 2 tables written in crossing orders, DROP of one, failing commits, fair | `LockProtocolInv`, `DropCompletes`, `PublishesCurrent` | 96,932 |
| `packs` | 3 packs of 2 rows, 3 loads, file limit 3 | `TypeOK`, `CommittedReadable`, `SessionReadable`, `FileSizeBound` | 853,372 |
| `packs_nulls` | 2 packs of 2 rows, 4 loads of values or nulls | `CommittedReadable`, `SessionReadable` | 4,480,170 |
| `cache` | 2 threads, 2 packs, transactions of up to 3 loads | `TypeOK`, `PacksFresh`, `LocksExact`, `OneLoader` | 192,712 |
| `cache_wait` | 3 threads, 2 packs of 1 row, 2 loads, CachingLevel 0, fair | `LocksExact`, `Decodable`, `WaitEnds` | 15,927 |

What the properties say, and what goes wrong without them:

- `ColumnsAgree`: the headers the switch selects are complete and have the same rows
  in every column, in every state. Otherwise a row would be put together from two
  versions of the table.
- `AtomicVersions`: `TableCommit` implements `TableVersions`. Rows appear only by the
  flip, and exactly those of the transaction's finished loads; those of a failed or
  forgotten session whose `TS` is still on disk never do.
- `SharedIsCurrent`, `CommitPublishes`: what readers use in memory is what writers
  start from on disk; a commit passes over no table of its transaction.
- `WriterIsAlone`: while a transaction has a table modified and has not given its lock
  back, nobody else runs on it, and no other transaction has it but one that has given
  its lock back (at its end, or under autocommit=1 before a reopen or after a failed or
  killed lock). A transaction that has loaded into a table has not given it back.
- `NoLeakedLock`: every read lock belongs to a request its session still has to
  unlock; an idle autocommit session has no write lock. A leaked lock would block the
  table until a restart.
- `SharesRegistered`: the assertion of `GetTableShare`, although DROP TABLE unregisters
  tables under transactions that have modified them.
- `PublishesCurrent`: a step after which `m_tables` has another version of a table than
  the disk is one of two: the commit of a statement that was made to reopen and had
  given its lock back, or a commit of several tables that throws between them. Any
  other commit publishes what is on disk. The run reaches both; see section 7.
- `DropCompletes`: a DROP TABLE ends, even if the users of the table wait for each
  other's locks. In the run one session has t1 and waits for t2, the other has t2 and
  waits for t1, and the DROP of t2 ends the wait.
- `CommittedReadable`, `SessionReadable`: the committed column reads back exactly the
  committed rows in every state, torn writes included; between statements a
  transaction reads back the committed rows followed by its own.
- `FileSizeBound`: no pack file passes its limit by more than one pack.
- `PacksFresh`: a pack in use has the rows of the reader's view, whatever was cached,
  evicted, moved or rolled back before.
- `LocksExact`: the lock count of an object is the number of its holders. Fewer, and a
  pack in use may be dropped; more, and it stays in memory for ever.
- `OneLoader`: the assertion of `DataCache::GetObject` where it inserts an object.
- `Decodable`: every value of the view has its code in the dictionary in use. It holds
  with one LOAD per transaction; with two it does not (section 7).
- `WaitEnds`: every wait for another thread's load ends, also if that load fails.

## 4. Bounds

All bounds are constants, and each appears in a guard.

- *Columns, tables.* Two columns suffice for a mix of versions; the protocol treats
  every column alike. Two tables suffice for a commit that stops between tables.
- *Transactions, loads.* Three transactions: one that leaves a `TS` behind, one that
  meets it, one that commits over the result. `MaxLoads` counts LOADs started.
- *Sessions, requests.* Two sessions conflict pairwise; two requests per statement
  give a table named twice and the order of locks within a statement. `locks` has
  every statement on one table. Two tables with all statements are out of reach for
  liveness, so `locks_drop` has two statements (`CrossingStatements`: write t1; write
  t2 and t1), which in an open transaction or one statement take the locks in both
  orders, and `Dropped` has only t2: the least that gives the mutual wait, the
  reopened statement that commits and the commit that throws between two tables.
  `MaxVersion` 1 lets a table fall one version behind. The proofs have none of these
  bounds.
- *Packs, files.* `PackrowSize` 2 (65536 in the code) has empty, partial and full
  packs. Three packs give a last pack, its predecessor and one that is left alone
  for a whole session. `SpliceSize` 1 or 2 (128) puts the boundary of a splice between
  them. `FileSizeLimit` of 3 cells with packs of up to 2 gives full files and moves to
  the next one. `MaxFile` 6
  leaves each location three or four files; a session that would need a further one
  is not explored beyond that point.
- *Threads, cache.* A loader and two waiters, or a reader, a writer and the evictor.
  `Objs` has an object for every place that can refer to one, so that none runs out.

Symmetry is used for sessions, threads, transaction ids and tables, never in a run
that checks liveness. Two violation runs are allowed to stop, because an instance
without some faults ends when its loads or ids are used up.

## 5. Fairness

- `locks_drop`: strong fairness of each session's own steps (`Step`) and of
  `DropTable`. A statement that runs ends; a polling loop looks again every 100 ms; and
  `drop_rename_mutex` is free again and again, so that whoever waits for it gets it.
  Clients are not fair: a session may stay idle in a transaction for ever (`Ask`), and
  nobody has to be killed.
- `cache_wait`: weak fairness of the thread that loads a pack. It holds no mutex while
  it reads, and a read ends or fails. Nothing else is fair; in particular a waiter
  need not run.

No progress is claimed for a writer that waits for readers, since the code polls and
has no queue, nor that a woken thread finally finds the pack it waited for.

## 6. Proofs

TLAPS checks these for every value of the constants that satisfies the named
assumptions of the modules (a table has at least one column; `Invalid`, `NoTable` and
`None` are not real ids, tables or sessions; bounds are natural numbers; `Faults`,
`Statements` and `Dropped` are any subsets of the faults, statements and tables).

| theorem | module | statement |
|---|---|---|
| `ProtocolInvariant` | `TableCommitProofs` | `Spec => []CommitProtocolInv` |
| `TypeCorrect` | `TableCommitProofs` | `Spec => []TypeOK` |
| `NeverMixed` | `TableCommitProofs` | `Spec => []ColumnsAgree` |
| `Refinement` | `TableCommitProofs` | `Spec => AtomicVersions` |
| `LockProtocol` | `TableLocksProofs` | `Spec => []LockProtocolInv` |
| `TypeCorrect` | `TableLocksProofs` | `Spec => []TypeOK` |
| `Exclusion` | `TableLocksProofs` | `Spec => []WriterIsAlone` |
| `Publication` | `TableLocksProofs` | `Spec => PublishesCurrent` |

**Commit.** `ColumnsAgree` is not inductive: the flip selects the other headers, of
which it says nothing. `CommitProtocolInv` says for every place of the protocol which
files hold which rows. `SessionInv` and `LoaderInv` follow the `TS` files: one that
carries the open transaction's id holds the current rows followed by those of its
finished loads, except in the table the loader is writing, where it depends on the
column the loader has come to. `ViewInv` says that a table object of the transaction
either has the session in all its columns, with all `TS` files there, or in none, with
nothing loaded. `CommitInv` follows the renames: columns before the current one have
the new rows in the header that is not selected, the others still have them in `TS`.
`IdsInv` makes a `TS` left on disk carry an id that was handed out before, so that a
new transaction never takes it for its own. From these, a flip selects headers with
the old rows and the pending ones, in every column; this is also the step
`TV!Publish` of the refinement. Every other step changes at most files the switch
does not select (`SelectedUntouched`), and maps to a load, a loss or a stutter.
`TableCommitTypes` has type correctness and lemmas on the file operations,
`TableCommitSteps` one lemma per conjunct of the invariant with a case per action.

**Locks.** `WriterIsAlone` speaks of transactions and running statements, the code of
locks. `LockProtocolInv` connects them: `TransactionInv` (a session has the write lock
of each table it has modified unless it is giving locks back), `RequestInv`
(a session that takes locks or runs has, for each request served, a live read lock or
the write lock), `LockInv` (a live read lock and a write lock on one table are of
one session), and `VersionInv` (what a transaction has loaded is in tables it has
locked, and of a table it has locked it has the version on disk). The difficult steps
are those that take locks away: ends of transactions, which may also remove dangling
locks of others, unlocks, and DROP TABLE. `VersionInv` is preserved because only the
session with the write lock gives a table a new version (`TableLocksVersions`);
`Publication` follows from it, since a commit that publishes an older object has
given the lock back, and `TransactionInv` leaves only the reopen for that.

**Only model-checked.** Liveness (`DropCompletes`, `WaitEnds`), which is out of reach
of the prover; `NoLeakedLock`, `SharesRegistered`, `SharedIsCurrent`,
`CommitPublishes`; and all of `PackStore` and `PackCache`.
`PackStore.Column` flattens a sequence of packs, and facts about it need induction over
sequences, which the installed provers do not do; a proof would go through packs
instead of rows.

## 7. Disagreements between code and text

Each is a run that is expected to violate one property; `PROJECT.json` quotes the
lines.

- `cache_dict`, `Decodable` (a bug). With autocommit off: LOAD, a query on a lookup
  column, a second LOAD with new values. `ExternalLoad` drops the pack row and the
  splices of the local cache, but not the dictionary. The table object re-opened after
  the second LOAD takes the old dictionary, and Commit moves it to the global cache:
  the new values are read as null strings until the dictionary is released.
- `commit_flush`, `RolledBackInvisible`. Commit flushes and switches the tables one
  after the other. If the flush of the second fails, the client is told that the
  transaction has been rolled back, and the first table is committed.
- `commit_flip`, `CommitIsDurable`. A flip that fails is only logged ("throw here" in
  the code); the commit goes on, and memory shows rows that the disk does not have.
- `commit_recover`, `OpenedTableHasNoSession`. `GetTableShared` announces a rollback of
  a session left by a crash; the condition is never true, since columns opened for
  reading have no session id, and the `TS` stays. `AtomicVersions` shows that this does
  no harm as long as transaction ids do not repeat.

Two more observations have no run. The comment of `ReleaseLockIfNeeded`
(`system/ConnectionInfo.h:192`) says that a write lock is released when autocommit is
turned *off*; the code releases it when it is on, which is what `WriterIsAlone` needs
(the variant `ReleaseLockAlways` breaks it). And with two tables the shared object may
become older than the disk: a statement that writes t1 and t2, under autocommit=1, is
made to reopen by a DROP of t2 and gives up its lock on t1, while t1 stays among its
modified tables with the object opened then; another session commits t1; the first
then commits and replaces the shared object by its older one. No line of the
repository says that this does not happen, so it is listed as a hazard;
`PublishesCurrent` names it (`CommitsGivenBack`) and shows that nothing else of the
kind happens but a commit that breaks off between tables (`CommitBreaksOff`, the case
of `commit_flush`).

## 8. Assumptions and what is not modelled

Assumptions of the models:

- Transaction ids do not repeat. The code draws them at random; a repeated id would
  continue an abandoned `TS`.
- The loader process dies with the server. A loader that survives is a hazard.
- A crash is one of the process: what was written stays written, in order. Power
  failures that reorder or lose writes are not considered.
- `RemoveFile` in Rollback succeeds.
- A critical section is one step; the order of mutexes is not modelled.
- `m_modified_tables` is used in one step, though DROP TABLE of another thread changes
  it without a common mutex.

Left out within the modelled parts: the caching of DPN splices and of delete filters,
`GetAttrPackForUpdate` and the clones (no community operation reaches them), the
queues and sizes of the memory manager, thr_lock, LOCK TABLES (the engine rejects it),
numeric packs in `PackStore`, conversion of old file formats.

Not modelled: query execution, compilation and optimisation, compression, types and
parsing, export, domain injection are sequential computations on data whose domains
are out of TLC's reach; some algorithms in them are worth a check against a reference
definition (section 9). Files, channels, configuration and logging are pure I/O, and
appear as steps that may fail. The offline tools work on a stopped server.

## 9. Plan

In order of importance; the first part, whatever decides whether committed data is
intact and visible as a whole, is done.

1. *Done*: `TableCommit` with `TableVersions`, `TableLocks`, `PackStore`, `PackCache`;
   proofs of the first two.
2. *Memory manager and mutexes* (`MemoryManager`): the locking mutex, `m_dpns_mutex`,
   `dpns_load_mutex` and the manager's two mutexes as variables, with the order in
   which `LoadPackInfo`, `Collapse` and eviction take them. Property: no deadlock.
   Two threads, two columns.
3. *Loader process* (`LoaderProcess`): shared-memory parameters, pipe, exit status,
   KILL and an orphan that outlives the server. Properties: a LOAD reports success only
   if every header was saved; no process writes a table whose write lock is gone.
   Compose with `TableCommit`.
4. *Knowledge nodes* (`RsiManager`): index files shared by server and loader. Property:
   an index in use is never older than its packs; no wait of two processes for each
   other.
5. *Algorithms*: pack statistics (`LoadDataPackN`) against minimum, maximum, sum and
   null count of the rows, with 64-bit overflow at a small width; the block `Filter`
   against a set of rows, as a refinement; `PackGuardian` against the set of packs an
   iteration reads.
6. *Extensions*: repeated transaction ids and a failing `RemoveFile` in `TableCommit`;
   cached splices and a failing dictionary read in `PackCache`; numeric packs in
   `PackStore`; table creation and the table sequencer.
7. *Composition* (`Transaction`): `TableLocks` over `TableCommit` and `PackCache` for
   one table, with an abstract specification of snapshot reads: a statement sees the
   committed rows as of its lock, or its transaction's own.
8. *Proofs*: `LocksExact` and `OneLoader` of `PackCache`, from an invariant that says
   which thread holds which object in which state; `CommittedReadable` of `PackStore`,
   pack by pack, from an invariant on the cells a header refers to; `NoLeakedLock`; the
   filter's refinement.

## 10. Working on it

    tlasany TableCommit.tla
    tlc -workers 2 -config MCTableCommit.cfg MCTableCommit
    tlapm TableCommitProofs.tla

`PROJECT.json` names the module and the cfg of every run, the lines of code behind
every definition (`map`), the variants that must break each property (`mutants`) and
the hazards with the properties that cover them. The longest run takes about
three minutes (`packs_nulls`), the longest proof six (`TableCommitSteps`). When a
line of the code changes, `map` leads to the definition; when a definition of a
proved module changes, the proof modules are checked again from the types upwards.
