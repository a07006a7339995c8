-------------------------- MODULE TableCommitInv ---------------------------
(***************************************************************************)
(* The inductive invariant behind ColumnsAgree and AtomicVersions: for     *)
(* every place of the protocol, which header files hold which rows.        *)
(***************************************************************************)
EXTENDS TableCommit

\* The rows t will have if the open transaction commits now.
Pending(t) == Visible(t, 1) \o work[t]

\* Column c of t has a TS of the open transaction with exactly these rows.
SessionHolds(t, c, rows) ==
    OwnSession(t, c, tid) /\ hd[t][c]["S"].rows = rows

\* The header of column c that is not current is complete and has these rows.
OppositeHolds(t, c, rows) ==
    /\ hd[t][c][Other(sw[t])].kind = "full"
    /\ hd[t][c][Other(sw[t])].rows = rows

\* The transaction's object of t was refreshed after a load: all its columns
\* have the save session.  Otherwise none has, and nothing was loaded.
Refreshed(t) == \A c \in Columns : views[t][c].ssid = tid
Untouched(t) ==
    /\ \A c \in Columns : views[t][c].ssid = Invalid
    /\ work[t] = << >>

\* Transaction ids: a TS carries an id that was handed out.
IdsInv ==
    /\ tid # Invalid => tid \in used
    /\ \A t \in Tables, c \in Columns :
        hd[t][c]["S"].kind = "full" => hd[t][c]["S"].sid \in used

\* What the thread's position says about its other variables.
ControlInv ==
    /\ pc # "idle" \/ Modified # {} => tid # Invalid
    /\ pc \in {"load", "remove", "rename"} => cur \in Modified
    /\ pc \in {"remove", "rename"} => cur \in todo
    /\ pc # "load" <=> lst = "none"
    /\ pc \notin {"save", "remove", "rename", "switch"} =>
        \A t \in Tables : res[t] = Invalid
    /\ pc \in {"save", "remove", "rename"} =>
        \A t \in Tables : res[t] # Invalid => t \in Modified \ todo
    /\ \A t \in Tables : views[t] = NoTable => work[t] = << >>
    /\ todo \subseteq Modified
    /\ pc = "rollback" /\ cur # NoTable => cur \in todo
    /\ loads <= MaxLoads
    /\ nrec <= MaxBatch
    /\ pc = "load" => loads > 0

\* A TS of the open transaction holds the rows of its finished LOADs, except
\* in the table the loader is writing.
SessionInv ==
    pc # "rollback" /\ tid # Invalid =>
        \A t \in Tables, c \in Columns :
            /\ ~ (pc = "load" /\ t = cur)
            /\ OwnSession(t, c, tid)
            => hd[t][c]["S"].rows = Pending(t)

\* The transaction's objects of the tables no step is working on.
ViewInv ==
    /\ pc \in {"idle", "load", "save", "remove", "rename"} =>
        \A t \in Modified :
            (pc \in {"save", "remove", "rename"} => t \in todo)
            /\ ~ (pc \in {"load", "remove", "rename"} /\ t = cur)
            => \/ Untouched(t)
               \/ Refreshed(t) /\ \A c \in Columns : OwnSession(t, c, tid)
    /\ pc = "load" => Untouched(cur) \/ Refreshed(cur)

\* The columns the loader has saved, and those it has not come to.
Saved(c) == lst \in {"save", "saveEmpty", "savePartial"} /\ c < latt
Unsaved(c) ==
    \/ lst \in {"start", "opened"}
    \/ lst = "save" /\ c >= latt
    \/ lst \in {"saveEmpty", "savePartial"} /\ c > latt

\* The loader: what it holds in memory, and its TS files so far.
LoaderInv ==
    pc = "load" =>
        /\ \A c \in Columns :
            /\ lst = "opened" => lrows[c] = Pending(cur)
            /\ lst \in {"save", "saveEmpty", "savePartial"} =>
                lrows[c] = Pending(cur) \o Batch(nrec, loads)
            /\ Saved(c) => SessionHolds(cur, c, Pending(cur) \o Batch(nrec, loads))
            /\ Unsaved(c) /\ OwnSession(cur, c, tid) => hd[cur][c]["S"].rows = Pending(cur)
            /\ Unsaved(c) /\ Refreshed(cur) => OwnSession(cur, c, tid)
            /\ lst = "done" /\ nrec > 0 =>
                SessionHolds(cur, c, Pending(cur) \o Batch(nrec, loads))
            /\ lst = "done" /\ nrec = 0 /\ OwnSession(cur, c, tid) =>
                hd[cur][c]["S"].rows = Pending(cur)
            /\ lst = "done" /\ Refreshed(cur) => OwnSession(cur, c, tid)

\* The commit: headers renamed so far, and those still to be renamed.
CommitInv ==
    /\ pc \in {"remove", "rename"} =>
        \A c \in Columns :
            /\ c < att => OppositeHolds(cur, c, Pending(cur))
            /\ c >= att => SessionHolds(cur, c, Pending(cur))
    /\ pc \in {"save", "remove", "rename"} =>
        \A t \in Modified \ todo :
            \/ res[t] # Invalid /\ \A c \in Columns : OppositeHolds(t, c, Pending(t))
            \/ res[t] = Invalid /\ work[t] = << >>
    /\ pc = "switch" =>
        \A t \in todo :
            \/ res[t] # Invalid /\ \A c \in Columns : OppositeHolds(t, c, Pending(t))
            \/ res[t] = Invalid /\ work[t] = << >>

\* ColumnsAgree and AtomicVersions follow from this invariant: the TS files a
\* commit renames hold the current rows followed by those of its own LOADs.
CommitProtocolInv ==
    /\ TypeOK
    /\ ColumnsAgree
    /\ IdsInv
    /\ ControlInv
    /\ SessionInv
    /\ ViewInv
    /\ LoaderInv
    /\ CommitInv
=============================================================================
