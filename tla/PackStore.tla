----------------------------- MODULE PackStore -----------------------------
(***************************************************************************)
(* Where a column's data packs go on disk.                                 *)
(*                                                                         *)
(* A column keeps its packs in numbered files, even numbers for save       *)
(* location 0 and odd numbers for location 1, and the nodes that say where *)
(* each pack is (DPNs) in one more file.  That file has two slots for the  *)
(* last pack, one per location, and one slot for every earlier pack.  A    *)
(* save session writes to the location the committed header does not use,  *)
(* so that the committed column stays readable while the loader writes,    *)
(* and after the loader is killed, the server crashes, or the transaction  *)
(* is rolled back: nothing on disk is undone, only the session's header TS *)
(* is dropped.                                                             *)
(*                                                                         *)
(* A row is the number of the LOAD that brought it, or Null.  A pack of    *)
(* nulls only is not stored.  A stored pack is a run of cells; its size is *)
(* any, because it is compressed.  The commit of the header is one step    *)
(* here; TableCommit has its steps.                                        *)
(***************************************************************************)
EXTENDS Integers, Sequences, SequencesExt

CONSTANTS
    PackrowSize,    \* rows of a full pack (65536)
    SpliceSize,     \* DPNs of a splice (128)
    FileSizeLimit,  \* file_size_limit
    MaxPackSize,    \* bound on the size of a compressed pack
    MaxPacks,       \* bound on the number of packs
    MaxFile,        \* bound on the file numbers
    MaxLoads,       \* bound on the LOAD statements started
    WithNulls       \* whether LOADs of nulls are considered

ASSUME SizesAssumption ==
    /\ {PackrowSize, SpliceSize, FileSizeLimit, MaxPackSize} \subseteq Nat \ {0}
    /\ {MaxPacks, MaxFile, MaxLoads} \subseteq Nat
    /\ WithNulls \in BOOLEAN

Null == 0
NoSession == [own |-> FALSE, made |-> FALSE]

PF_NULLS_ONLY == -1
PF_NO_OBJ == -2
PF_NOT_KNOWN == -3

Location == {0, 1}
Sizes == 1 .. MaxPackSize
Values(load) == IF WithNulls THEN {Null, load} ELSE {load}

VARIABLES
    file,       \* file[f]: the cells of pack file f
    dpn,        \* dpn[s]: slot s of the DPN file
    head,       \* the committed header (TA or TB, whichever is current)
    sess,       \* the TS header, NoSession if there is none
    mem,        \* the RCAttrLoad object in the loader process
    pc,         \* where the LOAD statement is
    loads,      \* LOAD statements started so far
    opened,     \* the transaction has re-opened the table (RefreshTable)
    stored,     \* rows committed so far (history)
    work,       \* rows of the transaction's finished LOADs (history)
    batch       \* rows the running LOAD has appended (history)

vars == <<file, dpn, head, sess, mem, pc, loads, opened, stored, work, batch>>

Hole == [rows |-> << >>, i |-> 0, size |-> 0]
Cells(rows, size) == [i \in 1 .. size |-> [rows |-> rows, i |-> i, size |-> size]]
NoDPN == [objs |-> 0, file |-> PF_NO_OBJ, addr |-> 0]
-----------------------------------------------------------------------------
\* Reading.  RestoreDPN by way of ReadDPNs: the last pack's node is in the slot
\* of the read location, the node of an earlier pack p (from 0) in slot p + 2.
ReadDPN(h, p) == IF p = h.no_pack - 1 THEN dpn[h.loc] ELSE dpn[p + 2]

\* AttrPack::LoadData: the first cell tells the size, all cells must belong to
\* the same version of the pack.
Readable(d) ==
    /\ d.file >= 0
    /\ d.addr < Len(file[d.file])
    /\ LET c == file[d.file][d.addr + 1]
       IN /\ c.i = 1
          /\ d.addr + c.size <= Len(file[d.file])
          /\ SubSeq(file[d.file], d.addr + 1, d.addr + c.size) = Cells(c.rows, c.size)

Nulls(n) == [i \in 1 .. n |-> Null]

\* The rows of a pack: not stored if it has nulls only.
PackRows(d) ==
    IF d.file = PF_NULLS_ONLY THEN Nulls(d.objs)
    ELSE IF Readable(d) THEN file[d.file][d.addr + 1].rows ELSE <<-1>>

\* The rows of the column a header describes.
Column(h) == FlattenSeq([p \in 1 .. h.no_pack |-> PackRows(ReadDPN(h, p - 1))])
-----------------------------------------------------------------------------
\* The RCAttr constructor for a new column.
NewHeader == [no_pack |-> 0, savefile |-> [l \in Location |-> l],
              savepos |-> [l \in Location |-> 0], loc |-> 0]

NoMem == [no_pack |-> 0]

Init ==
    /\ file = [f \in 0 .. MaxFile |-> << >>]
    /\ dpn = [s \in 0 .. MaxPacks + 1 |-> NoDPN]
    /\ head = NewHeader
    /\ sess = NoSession
    /\ mem = NoMem
    /\ pc = "idle"
    /\ loads = 0
    /\ opened = FALSE
    /\ stored = << >> /\ work = << >> /\ batch = << >>

disk == <<file, dpn, head, sess>>

\* Mutant: a new session stays in the committed location.
OpenModeNoFlip(h, flip) ==
    LET omitted == IF h.no_pack > 0 THEN ((h.no_pack - 1) \div SpliceSize) * SpliceSize ELSE 0
    IN [no_pack |-> h.no_pack, savefile |-> h.savefile, savepos |-> h.savepos,
        loc |-> h.loc, omitted |-> omitted,
        dpns |-> [p \in omitted .. MaxPacks - 1 |->
                     IF p < h.no_pack THEN ReadDPN(h, p) ELSE NoDPN],
        dirty |-> FALSE, rows |-> << >>, prev |-> 0]

\* The RCAttr constructor for SESSION_WRITE, then LoadPackInfoForLoader: the
\* transaction's own session goes on from its TS header in the same location,
\* any other TS is ignored and a new session goes to the other location.  Only
\* the nodes of the last splice are read.
OpenMode(h, flip) ==
    LET omitted == IF h.no_pack > 0 THEN ((h.no_pack - 1) \div SpliceSize) * SpliceSize ELSE 0
    IN [no_pack |-> h.no_pack, savefile |-> h.savefile, savepos |-> h.savepos,
        loc |-> IF flip THEN 1 - h.loc ELSE h.loc,
        omitted |-> omitted,
        dpns |-> [p \in omitted .. MaxPacks - 1 |->
                     IF p < h.no_pack THEN ReadDPN(h, p) ELSE NoDPN],
        dirty |-> FALSE, rows |-> << >>, prev |-> 0]

StartLoad ==
    /\ pc = "idle"
    /\ loads < MaxLoads
    /\ loads' = loads + 1
    /\ mem' = IF sess.own THEN OpenMode(sess, FALSE) ELSE OpenMode(head, TRUE)
    /\ pc' = "load"
    /\ batch' = << >>
    /\ UNCHANGED <<disk, opened, stored, work>>
-----------------------------------------------------------------------------
\* Is pack n the last thing in its file?  A pack that was rolled back, or a
\* version that was longer, leaves bytes behind it.
LastPack(m, d) ==
    /\ d.file >= 0
    /\ LET l == d.file % 2
       IN \/ d.file = m.savefile[l]
          \/ m.savepos[l] = 0 /\ d.file = m.savefile[l] - 2
    /\ Len(file[d.file]) = d.addr + m.prev

\* Mutant: a pack at the end of a file is overwritten whatever the location.
DoSavePackInPlace(m, size) ==
    LET n == m.no_pack - 1
        d == m.dpns[n]
        to == IF LastPack(m, d) THEN d
              ELSE [d EXCEPT !.file = m.savefile[m.loc], !.addr = m.savepos[m.loc]]
    IN [m EXCEPT !.dpns[n] = to, !.savepos[m.loc] = to.addr + size]

\* Mutant: the limit is compared with the address of the pack, not its end.
DoSavePackLateSwitch(m, size) ==
    LET n == m.no_pack - 1
        d == m.dpns[n]
        to == [d EXCEPT !.file = m.savefile[m.loc], !.addr = m.savepos[m.loc]]
        over == to.addr > FileSizeLimit
    IN [m EXCEPT !.dpns[n] = to,
                 !.savepos[m.loc] = IF over THEN 0 ELSE to.addr + size,
                 !.savefile[m.loc] = IF over THEN @ + 2 ELSE @]

\* DoSavePack without the write: the place of the last pack.  A pack at the end
\* of a file of the current location is overwritten; one at the end of a file of
\* the other location moves and gives its place back; any other pack is appended.
DoSavePack(m, size) ==
    LET n == m.no_pack - 1
        d == m.dpns[n]
        last == LastPack(m, d)
        moves == last /\ d.file % 2 # m.loc
        to == IF last /\ ~moves THEN d
              ELSE [d EXCEPT !.file = m.savefile[m.loc], !.addr = m.savepos[m.loc]]
        over == to.addr + size > FileSizeLimit
        other == 1 - m.loc
        pos == IF over THEN 0 ELSE to.addr + size
        num == IF over THEN m.savefile[m.loc] + 2 ELSE m.savefile[m.loc]
    IN [m EXCEPT !.dpns[n] = to,
                 !.savepos = [l \in Location |->
                    IF l = m.loc THEN pos ELSE IF moves THEN d.addr ELSE @[l]],
                 !.savefile = [l \in Location |->
                    IF l = m.loc THEN num ELSE IF moves THEN d.file ELSE @[l]]]

\* AttrPack::Save at the pack's place: its first k cells.  Seeking beyond the
\* end leaves a hole.
Write(d, cells, k) ==
    LET old == file[d.file]
        end == d.addr + k
    IN [file EXCEPT ![d.file] =
          [i \in 1 .. IF end > Len(old) THEN end ELSE Len(old) |->
              IF i > d.addr /\ i <= end THEN cells[i - d.addr]
              ELSE IF i <= Len(old) THEN old[i] ELSE Hole]]

\* SavePack(n) of a pack that must be stored, of which k cells are written: the
\* loader is killed, or the write fails, unless all are.
SavePack(m, size, k, next) ==
    LET s == DoSavePack(m, size)
        d == s.dpns[m.no_pack - 1]
    IN /\ d.file <= MaxFile
       /\ file' = Write(d, Cells(m.rows, size), k)
       /\ \/ /\ k = size
             /\ mem' = [s EXCEPT !.dirty = FALSE, !.rows = << >>]
             /\ pc' = next
          \/ /\ k < size
             /\ mem' = NoMem
             /\ pc' = "dead"
-----------------------------------------------------------------------------
\* Mutant: the last pack is taken for full one row too late.
PreparePackForLoadLate(m) ==
    LET n == m.no_pack - 1
    IN IF m.no_pack = 0 \/ m.dpns[n].objs = PackrowSize + 1
       THEN [m EXCEPT !.no_pack = @ + 1, !.rows = << >>, !.prev = 0]
       ELSE [m EXCEPT !.rows = PackRows(m.dpns[n]), !.prev = 0]

\* PreparePackForLoad: a new pack if there is none or the last one is full,
\* otherwise the last one, read from disk.
PreparePackForLoad(m) ==
    LET n == m.no_pack - 1
    IN IF m.no_pack = 0 \/ m.dpns[n].objs = PackrowSize
       THEN [m EXCEPT !.no_pack = @ + 1, !.rows = << >>, !.prev = 0]
       ELSE [m EXCEPT !.rows = PackRows(m.dpns[n]),
                      !.prev = IF m.dpns[n].file >= 0
                               THEN file[m.dpns[n].file][m.dpns[n].addr + 1].size
                               ELSE 0]

\* Mutant: a pack of nulls that gets its first value starts empty.
AppendRowsDropNulls(m, n, v) ==
    LET l == m.no_pack - 1
        d == m.dpns[l]
        trivial == v = Null /\ d.file \in {PF_NO_OBJ, PF_NULLS_ONLY}
    IN [m EXCEPT !.rows = (IF ~ trivial /\ d.file < 0 THEN << >> ELSE @) \o [i \in 1 .. n |-> v],
                 !.dirty = ~ trivial,
                 !.dpns[l].objs = @ + n,
                 !.dpns[l].file = IF trivial THEN PF_NULLS_ONLY
                                  ELSE IF d.file < 0 THEN PF_NOT_KNOWN ELSE d.file]

\* RCAttrLoadBase::LoadData for n rows v: nulls in a pack of nulls need no
\* place; the first value makes the pack one that must be stored.
AppendRows(m, n, v) ==
    LET l == m.no_pack - 1
        d == m.dpns[l]
        trivial == v = Null /\ d.file \in {PF_NO_OBJ, PF_NULLS_ONLY}
        to == IF trivial THEN PF_NULLS_ONLY
              ELSE IF d.file < 0 THEN PF_NOT_KNOWN ELSE d.file
    IN [m EXCEPT !.rows = @ \o [i \in 1 .. n |-> v],
                 !.dirty = ~ trivial,
                 !.dpns[l].objs = @ + n,
                 !.dpns[l].file = to]

\* One turn of DataLoaderImpl::Proceed: up to to_prepare rows.  A full pack is
\* saved at once; fewer rows than asked for end the input.
LoadData(n, v, size, k) ==
    LET m == PreparePackForLoad(mem)
        l == m.no_pack - 1
        to_prepare == PackrowSize - (Len(m.rows) % PackrowSize)
        a == AppendRows(m, n, v)
    IN /\ pc = "load"
       /\ m.no_pack <= MaxPacks
       /\ n <= to_prepare
       /\ mem.no_pack > 0 /\ mem.dpns[mem.no_pack - 1].objs < PackrowSize
             => PackRows(mem.dpns[mem.no_pack - 1]) # <<-1>>
       /\ batch' = batch \o [i \in 1 .. n |-> v]
       /\ IF n = to_prepare /\ a.dirty
          THEN SavePack(a, size, k, "load")
          ELSE /\ mem' = a
               /\ pc' = IF n = to_prepare THEN "load" ELSE "save"
               /\ size = 1 /\ k = 1
               /\ UNCHANGED file
       /\ UNCHANGED <<dpn, head, sess, loads, opened, stored, work>>

\* The parser returns no more rows.
EndInput ==
    /\ pc = "load"
    /\ pc' = "save"
    /\ UNCHANGED <<disk, mem, loads, opened, stored, work, batch>>

\* SavePacks: the only pack not up to date is a last one that is not full.
SavePacks(size, k) ==
    /\ pc = "save"
    /\ IF mem.dirty
       THEN SavePack(mem, size, k, "dpn")
       ELSE /\ size = 1 /\ k = 1
            /\ pc' = "dpn"
            /\ UNCHANGED <<file, mem>>
    /\ UNCHANGED <<dpn, head, sess, loads, opened, stored, work, batch>>

\* Mutant: only the last pack's node is written.
SaveDPNLastOnly(k) ==
    /\ pc = "dpn"
    /\ k = 0
    /\ dpn' = [dpn EXCEPT ![mem.loc] = IF mem.no_pack = 0 THEN @ ELSE mem.dpns[mem.no_pack - 1]]
    /\ pc' = "header"
    /\ UNCHANGED <<file, mem, head, sess, loads, opened, stored, work, batch>>

\* SaveDPN: the last pack's node goes first, to the slot of the save location,
\* then the nodes of the earlier packs from packs_omitted on.  Only the first k
\* writes happen if the loader is killed.
SaveDPN(k) ==
    /\ pc = "dpn"
    /\ LET n == mem.no_pack
           writes == IF n = 0 THEN 0 ELSE n - mem.omitted
       IN /\ k \in 0 .. writes
          /\ dpn' = [s \in DOMAIN dpn |->
                IF k > 0 /\ s = mem.loc THEN mem.dpns[n - 1]
                ELSE IF s - 2 \in mem.omitted .. mem.omitted + k - 2 THEN mem.dpns[s - 2]
                ELSE dpn[s]]
          /\ \/ k = writes /\ pc' = "header" /\ UNCHANGED mem
             \/ k < writes /\ pc' = "dead" /\ mem' = NoMem
    /\ UNCHANGED <<file, head, sess, loads, opened, stored, work, batch>>

\* SaveHeader: the session header TS.
SaveHeader ==
    /\ pc = "header"
    /\ sess' = [no_pack |-> mem.no_pack, savefile |-> mem.savefile, savepos |-> mem.savepos,
                loc |-> mem.loc, own |-> TRUE, made |-> TRUE]
    /\ mem' = NoMem
    /\ pc' = "exit"
    /\ UNCHANGED <<file, dpn, head, loads, opened, stored, work, batch>>

\* The loader dies or stops with an error between two writes.
KillLoader ==
    /\ pc \in {"load", "save", "dpn", "header"}
    /\ mem' = NoMem
    /\ pc' = "dead"
    /\ UNCHANGED <<disk, loads, opened, stored, work, batch>>
-----------------------------------------------------------------------------
\* A TS header whose transaction has ended without removing it.
Abandoned(s) == IF s.made THEN [s EXCEPT !.own = FALSE] ELSE s

\* ExternalLoad after the loader's success: RefreshTable if there are records.
FinishLoad ==
    /\ pc = "exit"
    /\ pc' = "idle"
    /\ opened' = (opened \/ batch # << >>)
    /\ work' = work \o batch
    /\ batch' = << >>
    /\ UNCHANGED <<disk, mem, loads, stored>>

\* RCAttr::CommitSaveSession and the flip: TS becomes the current header.  The
\* table object knows of no session if the loads brought no records.
Commit ==
    /\ pc = "idle"
    /\ IF opened
       THEN /\ head' = [no_pack |-> sess.no_pack, savefile |-> sess.savefile,
                        savepos |-> sess.savepos, loc |-> sess.loc]
            /\ sess' = NoSession
            /\ stored' = stored \o work
       ELSE /\ sess' = Abandoned(sess)
            /\ UNCHANGED <<head, stored>>
    /\ opened' = FALSE
    /\ work' = << >>
    /\ UNCHANGED <<file, dpn, mem, pc, loads, batch>>

\* RCAttr::Rollback, of the statement that failed or of the transaction: TS is
\* removed if the table object has the session.
Rollback ==
    /\ pc \in {"idle", "dead"}
    /\ sess' = IF opened THEN NoSession ELSE Abandoned(sess)
    /\ pc' = "idle"
    /\ opened' = FALSE
    /\ work' = << >> /\ batch' = << >>
    /\ UNCHANGED <<file, dpn, head, mem, loads, stored>>

\* The server and its loader stop; what is on disk stays.
Crash ==
    /\ pc # "idle" \/ work # << >>
    /\ sess' = Abandoned(sess)
    /\ mem' = NoMem
    /\ pc' = "idle"
    /\ opened' = FALSE
    /\ work' = << >> /\ batch' = << >>
    /\ UNCHANGED <<file, dpn, head, loads, stored>>

Next ==
    \/ StartLoad
    \/ \E n \in 1 .. PackrowSize, v \in Values(loads), size \in Sizes, k \in Sizes :
          k <= size /\ LoadData(n, v, size, k)
    \/ EndInput
    \/ \E size \in Sizes, k \in Sizes : k <= size /\ SavePacks(size, k)
    \/ \E k \in 0 .. MaxPacks : SaveDPN(k)
    \/ SaveHeader
    \/ KillLoader
    \/ FinishLoad
    \/ Commit
    \/ Rollback
    \/ Crash

Spec == Init /\ [][Next]_vars
-----------------------------------------------------------------------------
\* Types of the state.
TypeOK ==
    /\ \A f \in DOMAIN file : \A i \in 1 .. Len(file[f]) : file[f][i].i \in 0 .. MaxPackSize
    /\ \A s \in DOMAIN dpn : dpn[s].objs \in 0 .. PackrowSize /\ dpn[s].file \in -2 .. MaxFile
    /\ head.no_pack \in 0 .. MaxPacks
    /\ head.loc \in Location
    /\ \A l \in Location : head.savefile[l] % 2 = l /\ head.savepos[l] \in 0 .. FileSizeLimit
    /\ pc \in {"idle", "load", "save", "dpn", "header", "exit", "dead"}

\* The committed column reads back exactly the committed rows in every state:
\* while a loader overwrites and appends packs and nodes, after it was killed in
\* the middle of a write, after a crash, and through any number of sessions that
\* were rolled back (RCAttrLoad::DoSavePack and RCAttrLoadBase::SaveDPN).
CommittedReadable == Column(head) = stored

\* A transaction that has loaded rows reads back the committed rows followed by
\* its own, until it ends (RefreshTable opens the TS header).
SessionReadable == pc = "idle" /\ opened => Column(sess) = stored \o work

\* A pack file never grows beyond the limit by more than one pack, whatever is
\* overwritten, moved or abandoned in it ("cannot exceed 2.1 GB", the comment of
\* RCAttr::CalcPackFileSizeLimit).
FileSizeBound == \A f \in DOMAIN file : Len(file[f]) <= FileSizeLimit + MaxPackSize
=============================================================================
