----------------------------- MODULE PackCache ------------------------------
(***************************************************************************)
(* The packs and the dictionary of one column in memory.                   *)
(*                                                                         *)
(* Threads read packs through the column object (RCAttr) of a table        *)
(* object.  Packs are kept in the global DataCache or, those a transaction *)
(* may change, in the transaction's own local one; an object carries a     *)
(* lock count, and the memory manager drops an object from its cache only  *)
(* when that is zero.  One thread loads a pack from disk while the others  *)
(* that want it wait.  A LOAD makes cached objects stale; ExternalLoad and *)
(* Commit drop those, and Commit moves the local cache to the global one.  *)
(*                                                                         *)
(* The table locks (TableLocks) let the threads use the table either       *)
(* together as readers or one of them as the writer.  Every critical       *)
(* section of the locking mutex or of m_dpns_mutex is one step.            *)
(***************************************************************************)
EXTENDS Integers, Sequences, FiniteSets, FiniteSetsExt, Functions

CONSTANTS
    Threads,        \* threads of the server that use the table
    PackrowSize,    \* rows of a full pack (65536)
    MaxRows,        \* bound on the rows of the table
    MaxBatch,       \* bound on the rows of a LOAD
    MaxLoads,       \* bound on the LOAD statements that bring rows
    LoadsPerTrx,    \* bound on the LOAD statements of a transaction (1: autocommit)
    CachingLevel,   \* the configuration's CachingLevel, 0 or 1
    NoThread, None

ASSUME CacheAssumption ==
    /\ IsFiniteSet(Threads) /\ NoThread \notin Threads
    /\ PackrowSize \in Nat \ {0}
    /\ {MaxRows, MaxBatch, MaxLoads, LoadsPerTrx} \subseteq Nat
    /\ CachingLevel \in {0, 1}

\* A row is the number of the LOAD that brought it.  It is also the row's value,
\* so every LOAD adds a value to the dictionary.
NoPack(rows) == (Len(rows) + PackrowSize - 1) \div PackrowSize
PackIndex(n) == n \div PackrowSize

Packs == 0 .. (MaxRows - 1) \div PackrowSize
Objs == 1 .. 2 * Cardinality(Packs) + Cardinality(Threads)

\* "g": the global cache and the shared table object; "l": the local cache of the
\* writing transaction and the table object it has opened.
Side == {"g", "l"}

VARIABLES
    rows,       \* the committed rows
    work,       \* the rows in the writer's view
    writer,     \* the thread with the write lock, or NoThread
    initial,    \* initial_no_packs of the writer's TableView
    loads,      \* LOAD statements that brought rows so far
    trx,        \* LOAD statements of the transaction
    cache,      \* cache[s][c]: the cached pack object
    pending,    \* pending[s]: the coordinates being loaded (_packPendingIO)
    dics,       \* dics[s]: the cached dictionary (FTree)
    dic,        \* dic[s]: the dictionary of the column object
    dpn,        \* dpn[s][c]: no_pack_locks and pack of the column's node
    heap,       \* heap[o]: the pack objects
    th          \* th[t]: where a thread is, its coordinate, its cache, its object

data == <<rows, work, writer, initial, loads, trx>>
vars == <<data, cache, pending, dics, dic, dpn, heap, th>>

Free == [locks |-> 0, rows |-> << >>]
NoNode == [locks |-> 0, pack |-> None]
NoNodes == [c \in Packs |-> NoNode]
NoPacks == [c \in Packs |-> None]
Idle == [pc |-> "idle", c |-> 0, s |-> "g", p |-> None]

Init ==
    /\ rows = << >> /\ work = << >>
    /\ writer = NoThread /\ initial = 0 /\ loads = 0 /\ trx = 0
    /\ cache = [s \in Side |-> NoPacks]
    /\ pending = [s \in Side |-> {}]
    /\ dics = [s \in Side |-> None]
    /\ dic = [s \in Side |-> None]
    /\ dpn = [s \in Side |-> NoNodes]
    /\ heap = [o \in Objs |-> Free]
    /\ th = [t \in Threads |-> Idle]
-----------------------------------------------------------------------------
\* The view of the table that the threads using it now have, and whose it is.
View == IF writer = NoThread THEN rows ELSE work
Table == IF writer = NoThread THEN "g" ELSE "l"

\* The rows of pack c and the values of a view, as they are on disk.
PackData(v, c) ==
    SubSeq(v, c * PackrowSize + 1, Min({(c + 1) * PackrowSize, Len(v)}))
Dictionary(v) == Range(v)

\* shared_ptr: an object lives while a cache, a node or a thread refers to it.
Referenced(ca, d, h) ==
    {ca[s][c] : s \in Side, c \in Packs}
    \cup {d[s][c].pack : s \in Side, c \in Packs}
    \cup {h[t].p : t \in Threads}

\* What remains of the objects after a step.
Kept(h) == [o \in Objs |-> IF o \in Referenced(cache', dpn', th') THEN h[o] ELSE Free]

NewObject == Min(Objs \ Referenced(cache, dpn, th))
Lock(o) == [heap EXCEPT ![o].locks = @ + 1]
Unlock(o) == [heap EXCEPT ![o].locks = @ - 1]
At(t, pc) == th[t].pc = pc
Goto(t, pc) == th' = [th EXCEPT ![t].pc = pc]
-----------------------------------------------------------------------------
\* RCAttr::LoadPackInfo: the dictionary of the column object comes from its cache,
\* or else from the file.
LoadPackInfo ==
    /\ LET found == IF dics[Table] # None THEN dics[Table] ELSE Dictionary(View)
       IN IF dic[Table] # None
          THEN UNCHANGED <<dics, dic>>
          ELSE /\ dics' = [dics EXCEPT ![Table] = found]
               /\ dic' = [dic EXCEPT ![Table] = found]

\* RCAttr::LockPackForUse up to GetAttrPack: a node that is in use is shared.  (A
\* killed thread, and a pack that is not stored, return here without any lock.)
LockPackForUse(t, c) ==
    /\ At(t, "idle")
    /\ writer \in {NoThread, t}
    /\ c < NoPack(View)
    /\ LoadPackInfo
    /\ IF dpn[Table][c].locks > 0
       THEN /\ dpn' = [dpn EXCEPT ![Table][c].locks = @ + 1]
            /\ heap' = Lock(dpn[Table][c].pack)
            /\ th' = [th EXCEPT ![t] = [Idle EXCEPT !.pc = "use", !.c = c]]
       ELSE /\ th' = [th EXCEPT ![t] = [Idle EXCEPT !.pc = "get", !.c = c]]
            /\ UNCHANGED <<dpn, heap>>
    /\ UNCHANGED <<data, cache, pending>>

\* The cache TransactionBase::GetAttrPack looks in.
WhichCache(t) ==
    IF writer = t /\ (cache["l"][th[t].c] # None \/ th[t].c + 1 >= initial) THEN "l" ELSE "g"

\* Mutant: a thread that misses does not look whether another one loads the pack.
GetObjectNoWait(t) ==
    /\ At(t, "get") \/ At(t, "woken")
    /\ LET s == IF At(t, "get") THEN WhichCache(t) ELSE th[t].s
           c == th[t].c
           o == cache[s][c]
       IN \/ /\ o # None
             /\ heap' = Lock(o)
             /\ th' = [th EXCEPT ![t] = [pc |-> "got", c |-> c, s |-> s, p |-> o]]
             /\ UNCHANGED pending
          \/ /\ o = None
             /\ th' = [th EXCEPT ![t] = [pc |-> "fetch", c |-> c, s |-> s, p |-> None]]
             /\ pending' = [pending EXCEPT ![s] = @ \cup {c}]
             /\ UNCHANGED heap
    /\ UNCHANGED <<data, cache, dics, dic, dpn>>

\* DataCache::GetObject up to the load: a cached object is locked and taken; if
\* another thread loads it, wait; otherwise load it.  (GetAttrPack looks in the local
\* cache first, in a critical section of its own; only its own transaction puts
\* objects there, so a miss is still one in the section that follows.)
GetObject(t) ==
    /\ At(t, "get") \/ At(t, "woken")
    /\ LET s == IF At(t, "get") THEN WhichCache(t) ELSE th[t].s
           c == th[t].c
           o == cache[s][c]
       IN \/ /\ o # None
             /\ heap' = Lock(o)
             /\ th' = [th EXCEPT ![t] = [pc |-> "got", c |-> c, s |-> s, p |-> o]]
             /\ UNCHANGED pending
          \/ /\ o = None /\ c \in pending[s]
             /\ th' = [th EXCEPT ![t] = [pc |-> "wait", c |-> c, s |-> s, p |-> None]]
             /\ UNCHANGED <<heap, pending>>
          \/ /\ o = None /\ c \notin pending[s]
             /\ th' = [th EXCEPT ![t] = [pc |-> "fetch", c |-> c, s |-> s, p |-> None]]
             /\ pending' = [pending EXCEPT ![s] = @ \cup {c}]
             /\ UNCHANGED heap
    /\ UNCHANGED <<data, cache, dics, dic, dpn>>

\* The fetcher, AttrPackLoad: a new object has lock count 1.
Fetch(t) ==
    /\ At(t, "fetch")
    /\ heap' = [heap EXCEPT ![NewObject] = [locks |-> 1, rows |-> PackData(View, th[t].c)]]
    /\ th' = [th EXCEPT ![t].pc = "publish", ![t].p = NewObject]
    /\ UNCHANGED <<data, cache, pending, dics, dic, dpn>>

\* cond.Broadcast: all waiters of the cache's packs, whatever they wait for.
Woken(s) == [u \in Threads |-> IF At(u, "wait") /\ th[u].s = s
                               THEN [th[u] EXCEPT !.pc = "woken"] ELSE th[u]]

\* Mutant: a load that fails wakes nobody.
FetchFailsSilently(t) ==
    /\ At(t, "fetch")
    /\ pending' = [pending EXCEPT ![th[t].s] = @ \ {th[t].c}]
    /\ th' = [th EXCEPT ![t] = Idle]
    /\ UNCHANGED <<data, cache, dics, dic, dpn, heap>>

\* The fetcher throws: the request is withdrawn, the statement fails.
FetchFails(t) ==
    /\ At(t, "fetch")
    /\ pending' = [pending EXCEPT ![th[t].s] = @ \ {th[t].c}]
    /\ th' = [Woken(th[t].s) EXCEPT ![t] = Idle]
    /\ UNCHANGED <<data, cache, dics, dic, dpn, heap>>

\* The loaded object goes to the cache.
Publish(t) ==
    /\ At(t, "publish")
    /\ cache' = [cache EXCEPT ![th[t].s][th[t].c] = th[t].p]
    /\ pending' = [pending EXCEPT ![th[t].s] = @ \ {th[t].c}]
    /\ Goto(t, "broadcast")
    /\ UNCHANGED <<data, dics, dic, dpn, heap>>

\* The waiters are woken after the mutex was released.
Broadcast(t) ==
    /\ At(t, "broadcast")
    /\ th' = [Woken(th[t].s) EXCEPT ![t].pc = "got"]
    /\ UNCHANGED <<data, cache, pending, dics, dic, dpn, heap>>

\* Mutant: the second thread locks the pack although GetAttrPack has.
SetPackLockTwice(t) ==
    /\ At(t, "got")
    /\ dpn' = [dpn EXCEPT ![Table][th[t].c] =
                 IF @.locks > 0 THEN [@ EXCEPT !.locks = @ + 1]
                 ELSE [locks |-> 1, pack |-> th[t].p]]
    /\ th' = [th EXCEPT ![t].pc = "use", ![t].p = None]
    /\ UNCHANGED <<data, cache, pending, dics, dic>>
    /\ heap' = Kept(IF dpn[Table][th[t].c].locks > 0 THEN Lock(th[t].p) ELSE heap)

\* LockPackForUse after GetAttrPack: another thread may have got the pack first.
\* The object's lock is this thread's in both cases.
SetPack(t) ==
    /\ At(t, "got")
    /\ dpn' = [dpn EXCEPT ![Table][th[t].c] =
                 IF @.locks > 0 THEN [@ EXCEPT !.locks = @ + 1]
                 ELSE [locks |-> 1, pack |-> th[t].p]]
    /\ th' = [th EXCEPT ![t].pc = "use", ![t].p = None]
    /\ UNCHANGED <<data, cache, pending, dics, dic>>
    /\ heap' = Kept(heap)

\* Mutant: the last user unlocks the pack and then unlocks and resets it.
UnlockPackFromUseTwice(t) ==
    LET c == th[t].c
        d == dpn[Table][c]
    IN /\ At(t, "use")
       /\ dpn' = [dpn EXCEPT ![Table][c] =
                    IF @.locks = 1 THEN NoNode ELSE [@ EXCEPT !.locks = @ - 1]]
       /\ th' = [th EXCEPT ![t] = Idle]
       /\ UNCHANGED <<data, cache, pending, dics, dic>>
       /\ heap' = Kept([heap EXCEPT ![d.pack].locks = IF d.locks = 1 THEN @ - 2 ELSE @ - 1])

\* RCAttr::UnlockPackFromUse.  The last user resets the node; with caching the
\* object stays in its cache, without it the last lock drops it there.  (So it
\* does with an object that IsEmpty, which none is that was loaded.)
UnlockPackFromUse(t) ==
    LET c == th[t].c
        d == dpn[Table][c]
        drops == d.locks = 1 /\ CachingLevel = 0 /\ heap[d.pack].locks = 1
        s == IF cache["l"][c] # None THEN "l" ELSE "g"
    IN /\ At(t, "use")
       /\ dpn' = [dpn EXCEPT ![Table][c] =
                    IF @.locks = 1 THEN NoNode ELSE [@ EXCEPT !.locks = @ - 1]]
       /\ cache' = IF drops THEN [cache EXCEPT ![s][c] = None] ELSE cache
       /\ th' = [th EXCEPT ![t] = Idle]
       /\ heap' = Kept(Unlock(d.pack))
       /\ UNCHANGED <<data, pending, dics, dic>>
-----------------------------------------------------------------------------
\* Mutant: the memory manager does not look at the locks.
ReleaseMemoryInUse(s, c) ==
    /\ cache[s][c] # None
    /\ cache' = [cache EXCEPT ![s][c] = None]
    /\ UNCHANGED <<data, pending, dics, dic, dpn, th>>
    /\ heap' = Kept(heap)

\* MemoryHandling::ReleaseMemory, which takes tracked objects that are not locked,
\* then AttrPack::Release and DropObjectByMM.
ReleaseMemory(s, c) ==
    /\ cache[s][c] # None
    /\ heap[cache[s][c]].locks = 0
    /\ cache' = [cache EXCEPT ![s][c] = None]
    /\ UNCHANGED <<data, pending, dics, dic, dpn, th>>
    /\ heap' = Kept(heap)

\* RCAttr::Release: the memory manager collapses a column object that no query
\* has locked.  Its dictionary stays in the cache.  (Columns that LoadDirtyData has
\* made keep their first lock and are spared.  There is no restart here, after which
\* the same rows are in columns that are not, so any column may be collapsed.)
Collapse ==
    /\ \A t \in Threads : At(t, "idle")
    /\ dic[Table] # None
    /\ dic' = [dic EXCEPT ![Table] = None]
    /\ UNCHANGED <<data, cache, pending, dics, dpn, heap, th>>
-----------------------------------------------------------------------------
\* The LOAD statement gets the write lock: AddTableWR opens the table once per
\* transaction.
StartLoad(t) ==
    /\ \A u \in Threads : At(u, "idle")
    /\ writer \in {NoThread, t}
    /\ trx < LoadsPerTrx
    /\ trx' = trx + 1
    /\ writer' = t
    /\ work' = View
    /\ initial' = IF writer = NoThread THEN NoPack(rows) ELSE initial
    /\ Goto(t, "load")
    /\ UNCHANGED <<rows, loads, cache, pending, dics, dic, dpn, heap>>

\* Mutant: the pack row to drop is computed after the load.
FinishLoadLatePackrow(t, n) ==
    /\ At(t, "load")
    /\ n \in 0 .. MaxBatch /\ Len(work) + n <= MaxRows
    /\ Goto(t, "idle")
    /\ work' = work \o [i \in 1 .. n |-> loads + 1]
    /\ IF n > 0
       THEN /\ loads < MaxLoads
            /\ loads' = loads + 1
            /\ cache' = [cache EXCEPT !["l"] =
                           [c \in Packs |-> IF c = PackIndex(Len(work')) THEN None ELSE @[c]]]
            /\ dic' = [dic EXCEPT !["l"] = None]
            /\ dpn' = [dpn EXCEPT !["l"] = NoNodes]
       ELSE UNCHANGED <<loads, cache, dic, dpn>>
    /\ UNCHANGED <<rows, writer, initial, trx, pending, dics>>
    /\ heap' = Kept(heap)

\* ExternalLoad after the loader's success.  If there are records, the packs that
\* the loader may have changed leave the local cache and RefreshTable opens the
\* table again.
FinishLoad(t, n) ==
    /\ At(t, "load")
    /\ n \in 0 .. MaxBatch /\ Len(work) + n <= MaxRows
    /\ Goto(t, "idle")
    /\ work' = work \o [i \in 1 .. n |-> loads + 1]
    /\ IF n > 0
       THEN /\ loads < MaxLoads
            /\ loads' = loads + 1
            /\ cache' = [cache EXCEPT !["l"] =
                           [c \in Packs |-> IF c = PackIndex(Len(work)) THEN None ELSE @[c]]]
            /\ dic' = [dic EXCEPT !["l"] = None]
            /\ dpn' = [dpn EXCEPT !["l"] = NoNodes]
       ELSE UNCHANGED <<loads, cache, dic, dpn>>
    /\ heap' = Kept(heap)
    /\ UNCHANGED <<rows, writer, initial, trx, pending, dics>>

\* Mutant: the dictionary stays in the global cache.
CommitKeepsDictionary(t) ==
    /\ writer = t /\ At(t, "idle")
    /\ rows' = work
    /\ LET last == IF initial > 0 THEN initial - 1 ELSE 0
       IN cache' = [g |-> [c \in Packs |-> IF cache["l"][c] # None THEN cache["l"][c]
                                           ELSE IF c = last THEN None ELSE cache["g"][c]],
                    l |-> NoPacks]
    /\ dics' = [g |-> IF dics["l"] # None THEN dics["l"] ELSE dics["g"], l |-> None]
    /\ dic' = [g |-> dic["l"], l |-> None]
    /\ dpn' = [g |-> dpn["l"], l |-> NoNodes]
    /\ work' = << >> /\ writer' = NoThread /\ initial' = 0 /\ trx' = 0
    /\ UNCHANGED <<loads, pending, th>>
    /\ heap' = Kept(heap)

\* Transaction::Commit: the pack row that was last when the transaction began and
\* the dictionary leave the global cache, then MoveCaches and ReplaceTable.
Commit(t) ==
    /\ writer = t /\ At(t, "idle")
    /\ rows' = work
    /\ LET last == IF initial > 0 THEN initial - 1 ELSE 0
       IN cache' = [g |-> [c \in Packs |-> IF cache["l"][c] # None THEN cache["l"][c]
                                           ELSE IF c = last THEN None ELSE cache["g"][c]],
                    l |-> NoPacks]
    /\ dics' = [g |-> dics["l"], l |-> None]
    /\ dic' = [g |-> dic["l"], l |-> None]
    /\ dpn' = [g |-> dpn["l"], l |-> NoNodes]
    /\ work' = << >> /\ writer' = NoThread /\ initial' = 0 /\ trx' = 0
    /\ UNCHANGED <<loads, pending, th>>
    /\ heap' = Kept(heap)

\* Transaction::Rollback, also of a LOAD that failed, and the end of the transaction:
\* its table objects and its local cache (DataCache::ReleaseAll) go with it.
Rollback(t) ==
    /\ writer = t /\ (At(t, "idle") \/ At(t, "load"))
    /\ cache' = [cache EXCEPT !["l"] = NoPacks]
    /\ dics' = [dics EXCEPT !["l"] = None]
    /\ dic' = [dic EXCEPT !["l"] = None]
    /\ dpn' = [dpn EXCEPT !["l"] = NoNodes]
    /\ work' = << >> /\ writer' = NoThread /\ initial' = 0 /\ trx' = 0
    /\ Goto(t, "idle")
    /\ UNCHANGED <<rows, loads, pending>>
    /\ heap' = Kept(heap)

Loader(t) == Fetch(t) \/ FetchFails(t) \/ Publish(t) \/ Broadcast(t)

Next ==
    \/ \E t \in Threads :
          \/ \E c \in Packs : LockPackForUse(t, c)
          \/ GetObject(t)
          \/ Loader(t)
          \/ SetPack(t)
          \/ UnlockPackFromUse(t)
          \/ StartLoad(t)
          \/ \E n \in 0 .. MaxBatch : FinishLoad(t, n)
          \/ Commit(t)
          \/ Rollback(t)
    \/ \E s \in Side, c \in Packs : ReleaseMemory(s, c)
    \/ Collapse

Spec == Init /\ [][Next]_vars

\* A thread that loads a pack goes on: it holds no mutex while it reads, and a
\* read ends or fails.
FairSpec == Spec /\ \A t \in Threads : WF_vars(Loader(t))
-----------------------------------------------------------------------------
\* Types of the state.
TypeOK ==
    /\ writer \in Threads \cup {NoThread}
    /\ rows \in Seq(1 .. MaxLoads) /\ work \in Seq(1 .. MaxLoads)
    /\ cache \in [Side -> [Packs -> Objs \cup {None}]]
    /\ pending \in [Side -> SUBSET Packs]
    /\ \A o \in Objs : heap[o].locks \in 0 .. Cardinality(Threads)
    /\ \A t \in Threads :
          /\ th[t].pc \in {"idle", "get", "wait", "woken", "fetch", "publish",
                           "broadcast", "got", "use", "load"}
          /\ th[t].p \in Objs \cup {None}

\* A thread that has a pack in use reads the rows that its view of the table has:
\* ExternalLoad and Commit leave no stale pack in the caches, whatever was cached
\* locally or globally before the LOAD, evicted, moved or rolled back
\* (RCEngine::ExternalLoad, Transaction::Commit).
PacksFresh ==
    \A t \in Threads : At(t, "use") =>
        /\ dpn[Table][th[t].c].pack # None
        /\ heap[dpn[Table][th[t].c].pack].rows = PackData(View, th[t].c)

\* Every value of the view decodes while a pack is in use: DecodeValue_S gives the
\* "original 0-level value for a given 1-level code" (RCAttr.cpp).
Decodable ==
    \A t \in Threads : At(t, "use") => Dictionary(View) \subseteq dic[Table]

\* Lock counts are exact: an object has one lock for every thread that holds it on
\* its way to the node and one for every use counted in a node.  Fewer, and the
\* memory manager drops a pack in use; more, and it can never drop it
\* (TrackableObject, RCAttr::LockPackForUse and UnlockPackFromUse).
LocksExact ==
    \A o \in Objs : heap[o].locks =
        Cardinality({t \in Threads : th[t].p = o})
        + MapThenSumSet(LAMBDA d : IF dpn[d[1]][d[2]].pack = o THEN dpn[d[1]][d[2]].locks ELSE 0,
                        Side \X Packs)

\* A pack is loaded by one thread at a time and only while it is not cached: the
\* assertion of DataCache::GetObject where it inserts the loaded object.
OneLoader ==
    \A s \in Side, c \in Packs :
        LET loading == {t \in Threads : th[t].pc \in {"fetch", "publish"}
                                        /\ th[t].s = s /\ th[t].c = c}
        IN /\ Cardinality(loading) = IF c \in pending[s] THEN 1 ELSE 0
           /\ c \in pending[s] => cache[s][c] = None

\* Every wait ends: the load waited for is published or fails, and no broadcast is
\* lost between the publication and the waiters (DataCache::GetObject).
WaitEnds == \A t \in Threads : At(t, "wait") ~> ~ At(t, "wait")
=============================================================================
