----------------------------- MODULE FileSafety -----------------------------
(***************************************************************************)
(* The save and external-change pipeline of the Textora editor.            *)
(*                                                                         *)
(* Three actors share it:                                                  *)
(*   - the UI thread (EditorRuntime, FileSafetySession, SaveSession and    *)
(*     the App handlers): edits, prepares saves, submits a check of every  *)
(*     file-backed tab, and applies save completions and observations;     *)
(*   - one file worker with a FIFO command channel: it owns the            *)
(*     FileSafetyMonitor and is the only part of the app that touches the  *)
(*     documents' files;                                                   *)
(*   - the outside world (a sync tool, another editor), which writes,      *)
(*     deletes and renames the files at any moment.                        *)
(*                                                                         *)
(* A file's content is a number (equal numbers are equal bytes).  What is  *)
(* at a path is its DiskRevision: every write makes one with a new id      *)
(* (mtime, inode and hash of the code).  "by" and "lineage" are history    *)
(* fields no guard reads: the tab whose save wrote it (None: an outside    *)
(* write), and the revisions it descends from by an unbroken run of the    *)
(* app's own saves.                                                        *)
(***************************************************************************)
EXTENDS Integers, Sequences, FiniteSets, SequencesExt

CONSTANTS
    Tabs,           \* tab ids, never reused
    Paths,          \* the files of one directory
    CopyPaths,      \* the names a conflict copy may get
    Home,           \* the file that exists, and is open, at the start
    FirstTab,       \* the tab it is open in
    None,           \* Option::None of a path, tab or revision
    RequestIds,     \* the observation request ids in flight
    Env,            \* user and outside events that may happen (see below)
    MaxData,        \* bound: distinct contents
    MaxSaves,       \* bound: saves submitted
    MaxOutside,     \* bound: outside writes, deletions and renames
    MaxQueue        \* bound: commands queued when a round of checks starts

\* A DiskRevision and its history: id stands for mtime, inode and hash.
Revisions == [id : Nat, data : Nat, by : Tabs \cup {None}, lineage : SUBSET Nat]

ASSUME ConstantsAssumption ==
    /\ FirstTab \in Tabs /\ Home \in Paths
    /\ CopyPaths \subseteq Paths /\ Home \notin CopyPaths
    /\ Env \subseteq {"undo", "saveAs", "saveClose", "close", "open", "ioError",
                      "lateError", "echo", "delete", "rename"}
    /\ None \notin Tabs /\ None \notin Paths /\ None \notin Revisions
    /\ RequestIds \subseteq Nat
    /\ MaxData \in Nat /\ MaxSaves \in Nat /\ MaxOutside \in Nat
    /\ MaxQueue \in Nat

VARIABLES
    disk,           \* path -> DiskRevision or None
    docs,           \* tab -> DocumentModel
    tracked,        \* FileSafetySession.tracked_paths
    pathTab,        \* FileSafetySession.path_to_tab
    pending,        \* FileSafetySession.pending_requests
    serving,        \* the event loop is handling the wakes it was posted
    todo,           \* tabs the running round of checks has still to submit
    draining,       \* the UI thread is inside drain_observations
    batch,          \* observations it collected and has still to apply
    applying,       \* save completions collected and still to apply
    pendingClose,   \* App.pending_close_after_save
    monitor,        \* FileSafetyMonitor.revisions
    queue,          \* commands to the file worker
    results,        \* FileSafetyResult channel
    completions,    \* SaveCompletion channel
    nextRev, nextData, saves, outside   \* fresh ids and spent bounds

session == <<tracked, pathTab, pending>>
phase   == <<serving, todo, draining, batch, applying>>
ui      == <<docs, session, phase, pendingClose>>
spent   == <<nextRev, nextData, saves, outside>>
vars    == <<disk, ui, monitor, queue, results, completions, spent>>

-----------------------------------------------------------------------------
(* Data *)

\* A revision that replaces old descends from it; an outside write starts anew.
Lineage(old) ==
    IF old = None THEN {}
    ELSE {old.id} \cup (IF old.by = None THEN {} ELSE old.lineage)

OwnRevision(tab, data, old) ==
    [id |-> nextRev, data |-> data, by |-> tab, lineage |-> Lineage(old)]
OutsideRevision(data) ==
    [id |-> nextRev, data |-> data, by |-> None, lineage |-> {}]

\* DocumentView::from_external_content and from_file: clean, content_revision 0,
\* and the revision p has now, which need not be the one data was read at.
LoadedDocument(p, data) ==
    [st |-> "open", path |-> p, rev |-> disk[p], data |-> data, crev |-> 0,
     dirty |-> FALSE, clean |-> data]

FreshDocument ==
    [st |-> "fresh", path |-> None, rev |-> None, data |-> 0, crev |-> 0,
     dirty |-> FALSE, clean |-> 0]

\* TrackedRevision; Untracked is "no entry for this path".
Untracked == [kind |-> "untracked", rev |-> None, preds |-> <<>>]
Observed(rev) == [kind |-> "observed", rev |-> rev, preds |-> <<>>]
Saved(rev, preds) == [kind |-> "saved", rev |-> rev, preds |-> preds]

\* TrackedRevision::saved_successor: expected is this app's saved revision or
\* one of the revisions it replaced.
IsSavedSuccessor(entry, expected) ==
    /\ entry.kind = "saved"
    /\ entry.rev = expected \/ Contains(entry.preds, expected)

\* FileSafetyMonitor::confirm_save: predecessors survive only while each save
\* starts from the revision the previous one wrote.
ConfirmedEntry(previous, rev, baseline) ==
    LET kept == IF previous.kind = "saved" /\ previous.rev = baseline
                THEN previous.preds ELSE <<>>
    IN  Saved(rev, IF baseline = None THEN kept ELSE Append(kept, baseline))

\* Mutated form: an acknowledgement forgets every predecessor.
AcknowledgedEntryForgetsAll(entry, rev) ==
    IF entry.kind # "saved" THEN entry ELSE Saved(entry.rev, <<>>)

\* Mutated form: the acknowledged revision becomes the saved one.
AcknowledgedEntryRollsBack(entry, rev) ==
    IF entry.kind # "saved" THEN entry ELSE Saved(rev, entry.preds)

\* FileSafetyMonitor::acknowledge_save: the document knows rev now, so nothing
\* older can be the baseline of a later command.
AcknowledgedEntry(entry, rev) ==
    IF entry.kind # "saved" THEN entry
    ELSE IF entry.rev = rev THEN Saved(rev, <<>>)
    ELSE IF Contains(entry.preds, rev)
         THEN LET first == CHOOSE i \in DOMAIN entry.preds :
                              /\ entry.preds[i] = rev
                              /\ \A j \in 1..(i - 1) : entry.preds[j] # rev
              IN  Saved(entry.rev, SubSeq(entry.preds, first, Len(entry.preds)))
         ELSE entry

-----------------------------------------------------------------------------
(* Commands, results and completions *)

NoCommand ==
    [op |-> "none", tab |-> None, path |-> None, id |-> 0, dirty |-> FALSE,
     crev |-> 0, data |-> 0, rev |-> None]
TrackCommand(p) == [NoCommand EXCEPT !.op = "track", !.path = p]
AckCommand(p, rev) == [NoCommand EXCEPT !.op = "ack", !.path = p, !.rev = rev]
\* Observe and ReconcileDirtySnapshot carry a snapshot of the document.
SnapshotCommand(op, t, p, id) ==
    [op |-> op, tab |-> t, path |-> p, id |-> id, dirty |-> docs[t].dirty,
     crev |-> docs[t].crev, data |-> docs[t].data, rev |-> docs[t].rev]
SaveCommand(t, p) ==
    [op |-> "save", tab |-> t, path |-> p, id |-> 0, dirty |-> docs[t].dirty,
     crev |-> docs[t].crev, data |-> docs[t].data,
     rev |-> IF docs[t].path = p THEN docs[t].rev ELSE None]

Outcome(kind, p, rev, data) ==
    [kind |-> kind, path |-> p, rev |-> rev, data |-> data]
Plain(kind) == Outcome(kind, None, None, 0)

TrackedResult(p, ok) ==
    [kind |-> "tracked", id |-> 0, path |-> p, dirty |-> FALSE, crev |-> 0,
     outcome |-> Plain(IF ok THEN "ok" ELSE "error")]
ObservedResult(c, outcome) ==
    [kind |-> "observed", id |-> c.id, path |-> c.path, dirty |-> c.dirty,
     crev |-> c.crev, outcome |-> outcome]

SaveCompletion(c, rev) == [tab |-> c.tab, path |-> c.path, crev |-> c.crev, rev |-> rev]
SaveFailed(completion) == completion.rev = None

IsOpen(t) == docs[t].st = "open"
OpenOn(p) == {t \in Tabs : IsOpen(t) /\ docs[t].path = p}

\* No handler is half way; and none is due before the next input event either: once
\* a wake is handled, winit hands over every other wake posted by then first.
Idle == todo = {} /\ ~draining /\ batch = <<>> /\ applying = <<>>
UserTurn == Idle /\ ~serving

-----------------------------------------------------------------------------
Init ==
    /\ disk = [p \in Paths |->
                 IF p = Home THEN [id |-> 0, data |-> 0, by |-> None, lineage |-> {}]
                 ELSE None]
    /\ docs = [t \in Tabs |->
                 IF t = FirstTab
                 THEN [FreshDocument EXCEPT !.st = "open", !.path = Home, !.rev = disk[Home]]
                 ELSE FreshDocument]
    /\ tracked = [t \in Tabs |-> None]
    /\ pathTab = [p \in Paths |-> None]
    /\ pending = [id \in RequestIds |-> None]
    /\ serving = FALSE /\ todo = {} /\ draining = FALSE /\ batch = <<>> /\ applying = <<>>
    /\ pendingClose = {}
    /\ monitor = [p \in Paths |-> Untracked]
    /\ queue = <<>> /\ results = <<>> /\ completions = <<>>
    /\ nextRev = 1 /\ nextData = 1 /\ saves = 0 /\ outside = 0

-----------------------------------------------------------------------------
(* The user, on the UI thread between two turns of the event loop *)

Edit(t) ==
    /\ UserTurn /\ IsOpen(t) /\ nextData <= MaxData
    /\ docs' = [docs EXCEPT ![t].data = nextData, ![t].crev = @ + 1, ![t].dirty = TRUE]
    /\ nextData' = nextData + 1
    /\ UNCHANGED <<disk, session, phase, pendingClose, monitor, queue, results,
                   completions, nextRev, saves, outside>>

\* Undo back to the text of the last save: the buffer's generation is clean again.
Undo(t) ==
    /\ "undo" \in Env /\ UserTurn /\ IsOpen(t) /\ docs[t].data # docs[t].clean
    /\ docs' = [docs EXCEPT ![t].data = docs[t].clean, ![t].crev = @ + 1,
                            ![t].dirty = FALSE]
    /\ UNCHANGED <<disk, session, phase, pendingClose, monitor, queue, results,
                   completions, spent>>

SubmitSave(t, p) ==
    /\ UserTurn /\ IsOpen(t) /\ saves < MaxSaves
    /\ queue' = Append(queue, SaveCommand(t, p))
    /\ saves' = saves + 1
    /\ UNCHANGED <<disk, docs, session, phase, monitor, results, completions,
                   nextRev, nextData, outside>>

\* Neither saving nor saving under another name looks at dirty.
Save(t) ==
    /\ docs[t].path # None
    /\ SubmitSave(t, docs[t].path)
    /\ UNCHANGED pendingClose

SaveAs(t, p) ==
    /\ "saveAs" \in Env
    /\ SubmitSave(t, p)
    /\ UNCHANGED pendingClose

SaveBeforeClose(t) ==
    /\ "saveClose" \in Env /\ docs[t].path # None /\ docs[t].dirty
    /\ SubmitSave(t, docs[t].path)
    /\ pendingClose' = pendingClose \cup {t}

\* FileSafetySession::forget_tab: the path is found through the tab's own entry.
ForgetTab(t) ==
    /\ tracked' = [tracked EXCEPT ![t] = None]
    /\ pathTab' = [p \in Paths |-> IF p = tracked[t] THEN None ELSE pathTab[p]]
    /\ pending' = [id \in RequestIds |->
                     IF pending[id] # None /\ pending[id].tab = t THEN None ELSE pending[id]]

\* A clean tab closes at once, a dirty one after the user chose to discard it.
Close(t) ==
    /\ "close" \in Env /\ UserTurn /\ IsOpen(t)
    /\ docs' = [docs EXCEPT ![t].st = "closed"]
    /\ ForgetTab(t)
    /\ UNCHANGED <<disk, phase, pendingClose, monitor, queue, results, completions, spent>>

OpenFile(t, p) ==
    /\ "open" \in Env /\ UserTurn
    /\ docs[t].st = "fresh" /\ disk[p] # None /\ OpenOn(p) = {}
    /\ docs' = [docs EXCEPT ![t] = LoadedDocument(p, disk[p].data)]
    /\ UNCHANGED <<disk, session, phase, pendingClose, monitor, queue, results,
                   completions, spent>>

-----------------------------------------------------------------------------
(* A round of checks: submit_candidates *)

Candidates == {t \in Tabs : IsOpen(t) /\ docs[t].path # None}

FreeIds ==
    {id \in RequestIds :
       /\ pending[id] = None
       /\ \A c \in ToSet(queue) : c.op \in {"observe", "reconcile"} => c.id # id
       /\ \A r \in ToSet(results) : r.kind = "observed" => r.id # id}

\* next_request_id only grows; an id that nothing holds any more stands for the next.
IsNextId(id) == id \in FreeIds /\ \A other \in FreeIds : id <= other

\* about_to_wait runs when no posted wake is left.
SubmitChecks ==
    /\ UserTurn /\ results = <<>> /\ completions = <<>> /\ Candidates # {}
    /\ Len(queue) <= MaxQueue /\ Cardinality(FreeIds) >= Cardinality(Candidates)
    /\ todo' = Candidates
    /\ UNCHANGED <<disk, docs, session, serving, draining, batch, applying, pendingClose,
                   monitor, queue, results, completions, spent>>

\* replace_path_mapping: the tab takes the path over from any other tab.
MappedPaths(t, p) ==
    [q \in Paths |-> IF q = p THEN t ELSE IF q = tracked[t] THEN None ELSE pathTab[q]]

\* Mutated form: the tab that had the path keeps it.
MappedTabsShared(t, p) == [tracked EXCEPT ![t] = p]

MappedTabs(t, p) ==
    [u \in Tabs |-> IF u = t THEN p ELSE IF u = pathTab[p] THEN None ELSE tracked[u]]

HasPending(t) ==
    \E id \in RequestIds :
        pending[id] # None /\ pending[id] = [tab |-> t, crev |-> docs[t].crev, dirty |-> docs[t].dirty]

AllocateRequest(t, id) ==
    pending' = [pending EXCEPT ![id] = [tab |-> t, crev |-> docs[t].crev,
                                        dirty |-> docs[t].dirty]]

NeedsReconciliation(t) == docs[t].dirty /\ docs[t].rev # None

SubmitCandidate(t) ==
    LET p     == docs[t].path
        known == tracked[t] = p
        track == IF known THEN <<>> ELSE <<TrackCommand(p)>>
    IN  /\ t \in todo
        /\ todo' = todo \ {t}
        /\ pathTab' = MappedPaths(t, p)
        /\ tracked' = MappedTabs(t, p)
        /\ \/ /\ ~known /\ NeedsReconciliation(t)
              /\ \E id \in FreeIds :
                    /\ IsNextId(id)
                    /\ AllocateRequest(t, id)
                    /\ queue' = Append(queue, SnapshotCommand("reconcile", t, p, id))
           \/ /\ known \/ ~NeedsReconciliation(t)
              /\ ~HasPending(t)
              /\ \E id \in FreeIds :
                    /\ IsNextId(id)
                    /\ AllocateRequest(t, id)
                    /\ queue' = Append(queue \o track, SnapshotCommand("observe", t, p, id))
           \/ /\ known \/ ~NeedsReconciliation(t)
              /\ HasPending(t)
              /\ queue' = queue \o track
              /\ UNCHANGED pending
        /\ UNCHANGED <<disk, docs, serving, draining, batch, applying, pendingClose, monitor,
                       results, completions, spent>>

-----------------------------------------------------------------------------
(* The file worker: one command at a time, in the order they were sent *)

WorkerHas(op) == queue # <<>> /\ Head(queue).op = op

\* Mutated form: the result is not sent.
ReportNothing(result) == queue' = Tail(queue) /\ results' = results

Report(result) ==
    /\ queue' = Tail(queue)
    /\ results' = Append(results, result)

Track ==
    LET p == Head(queue).path
    IN  /\ WorkerHas("track")
        /\ \/ /\ disk[p] = None
              /\ Report(TrackedResult(p, FALSE))
              /\ UNCHANGED monitor
           \/ /\ disk[p] # None
              /\ monitor' = [monitor EXCEPT ![p] = Observed(disk[p])]
              /\ Report(TrackedResult(p, TRUE))
        /\ UNCHANGED <<disk, ui, completions, spent>>

\* Mutated form: the document's baseline always replaces the entry.
EntryForIgnoresSaves(c) ==
    IF c.op = "reconcile" THEN Observed(c.rev) ELSE monitor[c.path]

\* The entry observe starts from: a reconciliation puts the document's baseline
\* there unless a save already moved the file on from it.
EntryFor(c) ==
    IF c.op = "reconcile" /\ ~IsSavedSuccessor(monitor[c.path], c.rev)
    THEN Observed(c.rev) ELSE monitor[c.path]

Twins(p, data) == {q \in Paths \ {p} : disk[q] # None /\ disk[q].data = data}

ObserveMissing(c, expected) ==
    LET p == c.path
        twins == Twins(p, expected.data)
    IN  /\ disk[p] = None
        /\ \/ \E q \in twins :
                 /\ twins = {q}
                 /\ monitor' = [monitor EXCEPT ![p] = Untracked, ![q] = Observed(disk[q])]
                 /\ Report(ObservedResult(c, Outcome("renamed", q, disk[q], 0)))
           \/ /\ Cardinality(twins) # 1
              /\ monitor' = [monitor EXCEPT ![p] = Untracked]
              /\ Report(ObservedResult(c, Plain(IF twins = {} THEN "deleted" ELSE "ambiguous")))
        /\ UNCHANGED <<disk, nextRev>>

\* The monitor moves to the new revision before anything is done about it.
ObserveChanged(c, current) ==
    /\ monitor' = [monitor EXCEPT ![c.path] = Observed(current)]
    /\ \/ /\ current.data = c.data
          /\ Report(ObservedResult(c, Plain("unchanged")))
          /\ UNCHANGED <<disk, nextRev>>
       \/ /\ current.data # c.data /\ ~c.dirty
          /\ Report(ObservedResult(c, Outcome("reload", c.path, current, current.data)))
          /\ UNCHANGED <<disk, nextRev>>
       \/ /\ current.data # c.data /\ c.dirty
          /\ \E q \in CopyPaths :
                LET copy == OwnRevision(c.tab, c.data, None)
                IN  /\ disk[q] = None
                    /\ disk' = [disk EXCEPT ![q] = copy]
                    /\ nextRev' = nextRev + 1
                    /\ Report(ObservedResult(c, Outcome("conflict", q, copy, current.data)))
       \/ /\ "ioError" \in Env /\ current.data # c.data /\ c.dirty  \* no copy was made
          /\ Report(ObservedResult(c, Plain("error")))
          /\ UNCHANGED <<disk, nextRev>>

Observe ==
    LET c == Head(queue)
        p == c.path
        entry == EntryFor(c)
    IN  /\ WorkerHas("observe") \/ WorkerHas("reconcile")
        /\ \/ /\ entry.kind = "untracked"
              /\ Report(ObservedResult(c, Plain("error")))
              /\ UNCHANGED <<disk, monitor, nextRev>>
           \/ /\ "ioError" \in Env /\ entry.kind # "untracked"     \* it or a sibling is unreadable
              /\ monitor' = [monitor EXCEPT ![p] = entry]
              /\ Report(ObservedResult(c, Plain("error")))
              /\ UNCHANGED <<disk, nextRev>>
           \/ /\ entry.kind # "untracked"
              /\ ObserveMissing(c, entry.rev)
           \/ /\ entry.kind # "untracked" /\ disk[p] = entry.rev
              /\ monitor' = [monitor EXCEPT ![p] = entry]
              /\ Report(ObservedResult(c, Plain("unchanged")))
              /\ UNCHANGED <<disk, nextRev>>
           \/ /\ entry.kind # "untracked" /\ disk[p] # None /\ disk[p] # entry.rev
              /\ ObserveChanged(c, disk[p])
        /\ UNCHANGED <<ui, completions, nextData, saves, outside>>

\* Mutated form: the revision observed last stands for the snapshot's.
SaveTargetTrustsMonitor(c) ==
    IF c.rev # None /\ monitor[c.path].kind # "untracked"
    THEN monitor[c.path].rev ELSE c.rev

\* The revision a queued save has to find on disk: its snapshot's, or the one this
\* app's own saves replaced it by.
SaveTarget(c) ==
    IF c.rev # None /\ IsSavedSuccessor(monitor[c.path], c.rev)
    THEN monitor[c.path].rev ELSE c.rev

\* The early and the late failure leave no trace in the monitor.
WorkerSave ==
    LET c == Head(queue)
        p == c.path
        target == SaveTarget(c)
        new == OwnRevision(c.tab, c.data, target)
        complete(rev) == completions' = Append(completions, SaveCompletion(c, rev))
    IN  /\ WorkerHas("save")
        /\ queue' = Tail(queue)
        /\ \/ /\ disk[p] = target
              /\ disk' = [disk EXCEPT ![p] = new]
              /\ monitor' = [monitor EXCEPT ![p] = ConfirmedEntry(monitor[p], new, target)]
              /\ complete(new)
              /\ nextRev' = nextRev + 1
           \/ /\ disk[p] # target \/ "ioError" \in Env
              /\ complete(None)
              /\ UNCHANGED <<disk, monitor, nextRev>>
           \/ /\ "lateError" \in Env /\ disk[p] = target        \* renamed, then not synced
              /\ disk' = [disk EXCEPT ![p] = new]
              /\ complete(None)
              /\ nextRev' = nextRev + 1
              /\ UNCHANGED monitor
        /\ UNCHANGED <<ui, results, nextData, saves, outside>>

Acknowledge ==
    LET c == Head(queue)
    IN  /\ WorkerHas("ack")
        /\ queue' = Tail(queue)
        /\ monitor' = [monitor EXCEPT ![c.path] = AcknowledgedEntry(@, c.rev)]
        /\ UNCHANGED <<disk, ui, results, completions, spent>>

Worker == Track \/ Observe \/ WorkerSave \/ Acknowledge

-----------------------------------------------------------------------------
(* The UI thread takes the observations: drain_observations, then             *)
(* apply_file_safety_outcome for each of them                                  *)

BeginDrain ==
    /\ Idle /\ results # <<>>
    /\ serving' = TRUE /\ draining' = TRUE
    /\ UNCHANGED <<disk, docs, session, todo, batch, applying, pendingClose, monitor,
                   queue, results, completions, spent>>

\* An observation counts only for the snapshot that asked for it.
Wanted(r) ==
    /\ pending[r.id] # None
    /\ pathTab[r.path] \in {pending[r.id].tab, None}
    /\ pending[r.id].dirty = r.dirty
    /\ pending[r.id].crev = r.crev

DrainNext ==
    LET r == Head(results)
        t == pathTab[r.path]
    IN  /\ draining /\ results # <<>>
        /\ results' = Tail(results)
        /\ \/ /\ r.kind = "tracked" /\ r.outcome.kind = "error" /\ t # None
              /\ pathTab' = [pathTab EXCEPT ![r.path] = None]
              /\ tracked' = [tracked EXCEPT ![t] = None]
              /\ UNCHANGED <<pending, batch>>
           \/ /\ r.kind = "tracked" /\ (r.outcome.kind # "error" \/ t = None)
              /\ UNCHANGED <<session, batch>>
           \/ /\ r.kind = "observed" /\ Wanted(r)
              /\ pending' = [pending EXCEPT ![r.id] = None]
              /\ batch' = Append(batch, [tab |-> pending[r.id].tab, path |-> r.path,
                                         dirty |-> r.dirty, crev |-> r.crev,
                                         outcome |-> r.outcome])
              /\ UNCHANGED <<tracked, pathTab>>
           \/ /\ r.kind = "observed" /\ ~Wanted(r)
              /\ pending' = [pending EXCEPT ![r.id] = None]
              /\ UNCHANGED <<tracked, pathTab, batch>>
        /\ UNCHANGED <<disk, docs, serving, todo, draining, applying, pendingClose, monitor, queue,
                       completions, spent>>

EndDrain ==
    /\ draining /\ results = <<>>
    /\ draining' = FALSE
    /\ UNCHANGED <<disk, docs, session, serving, todo, batch, applying, pendingClose, monitor,
                   queue, results, completions, spent>>

\* Mutated forms: only the path is compared; the content revision is not compared.
IsCurrentPath(o) == docs[o.tab].path = o.path
IsCurrentState(o) == docs[o.tab].path = o.path /\ docs[o.tab].dirty = o.dirty

\* The document is still in the state the observation was made for.
IsCurrent(o) ==
    /\ docs[o.tab].dirty = o.dirty
    /\ docs[o.tab].path = o.path
    /\ docs[o.tab].crev = o.crev

\* update_document_path: only the path and the revision change.
Rebound(t, p, rev) == [docs EXCEPT ![t].path = p, ![t].rev = rev]
Detached(t) == [docs EXCEPT ![t].path = None, ![t].rev = None, ![t].dirty = TRUE]

ApplyStale(o) ==
    /\ ~IsOpen(o.tab) \/ ~IsCurrent(o)
    /\ ForgetTab(o.tab)
    /\ UNCHANGED docs

ApplyNothing(o) ==
    /\ \/ o.outcome.kind \in {"unchanged", "error"}
       \/ o.outcome.kind = "reload" /\ docs[o.tab].data = o.outcome.data
    /\ UNCHANGED <<docs, session>>

ApplyReload(o) ==
    /\ o.outcome.kind = "reload" /\ docs[o.tab].data # o.outcome.data
    /\ docs' = [docs EXCEPT ![o.tab] = LoadedDocument(o.path, o.outcome.data)]
    /\ UNCHANGED session

\* The tab follows the copy; if it is the active one, a tab for the original opens
\* (unless there is one), showing the content the observation read.
ApplyConflict(o) ==
    LET rebound == Rebound(o.tab, o.outcome.path, o.outcome.rev)
    IN  /\ o.outcome.kind = "conflict"
        /\ \/ docs' = rebound
           \/ /\ OpenOn(o.path) = {o.tab}
              /\ \E t \in Tabs :
                    /\ docs[t].st = "fresh"
                    /\ docs' = [rebound EXCEPT ![t] = LoadedDocument(o.path, o.outcome.data)]
        /\ ForgetTab(o.tab)

ApplyRename(o) ==
    /\ o.outcome.kind = "renamed"
    /\ docs' = Rebound(o.tab, o.outcome.path, o.outcome.rev)
    /\ ForgetTab(o.tab)

ApplyDetach(o) ==
    /\ o.outcome.kind \in {"deleted", "ambiguous"}
    /\ docs' = Detached(o.tab)
    /\ ForgetTab(o.tab)

ApplyObservation ==
    LET o == Head(batch)
    IN  /\ ~draining /\ batch # <<>>
        /\ batch' = Tail(batch)
        /\ \/ ApplyStale(o)
           \/ /\ IsOpen(o.tab) /\ IsCurrent(o)
              /\ \/ ApplyNothing(o) \/ ApplyReload(o) \/ ApplyConflict(o)
                 \/ ApplyRename(o) \/ ApplyDetach(o)
        /\ UNCHANGED <<disk, serving, todo, draining, applying, pendingClose, monitor, queue,
                       results, completions, spent>>

-----------------------------------------------------------------------------
(* The UI thread takes the save completions: drain_save_results *)

BeginSaveResults ==
    /\ Idle /\ completions # <<>>
    /\ serving' = TRUE
    /\ applying' = completions
    /\ completions' = <<>>
    /\ UNCHANGED <<disk, docs, session, todo, draining, batch, pendingClose, monitor,
                   queue, results, spent>>

\* DocumentModel::apply_save_completion
SavedDocument(doc, s) ==
    LET bound == [doc EXCEPT !.path = s.path, !.rev = s.rev]
    IN  IF doc.crev = s.crev THEN [bound EXCEPT !.dirty = FALSE, !.clean = doc.data]
        ELSE bound

\* Mutated form: a failed save leaves the tab waiting to close.
CompletionFailedWaits(s) ==
    /\ SaveFailed(s)
    /\ UNCHANGED <<docs, session, queue, pendingClose>>

CompletionFailed(s) ==
    /\ SaveFailed(s)
    /\ pendingClose' = pendingClose \ {s.tab}
    /\ UNCHANGED <<docs, session, queue>>

CompletionOfClosed(s) ==
    /\ ~SaveFailed(s) /\ ~IsOpen(s.tab)
    /\ UNCHANGED <<docs, session, pendingClose, queue>>

\* A tab that waited for this save closes, unless it has newer edits.
CompletionApplied(s) ==
    LET saved  == SavedDocument(docs[s.tab], s)
        closes == s.tab \in pendingClose /\ ~saved.dirty
    IN  /\ ~SaveFailed(s) /\ IsOpen(s.tab)
        /\ queue' = Append(queue, AckCommand(s.path, s.rev))
        /\ pendingClose' = pendingClose \ {s.tab}
        /\ docs' = [docs EXCEPT ![s.tab] = IF closes THEN [saved EXCEPT !.st = "closed"]
                                           ELSE saved]
        /\ IF closes THEN ForgetTab(s.tab) ELSE UNCHANGED session

ApplyCompletion ==
    LET s == Head(applying)
    IN  /\ applying # <<>>
        /\ applying' = Tail(applying)
        /\ CompletionFailed(s) \/ CompletionOfClosed(s) \/ CompletionApplied(s)
        /\ UNCHANGED <<disk, serving, todo, draining, batch, monitor, results, completions, spent>>

EndServing ==
    /\ Idle /\ serving /\ results = <<>> /\ completions = <<>>
    /\ serving' = FALSE
    /\ UNCHANGED <<disk, docs, session, todo, draining, batch, applying, pendingClose,
                   monitor, queue, results, completions, spent>>

-----------------------------------------------------------------------------
(* The outside world *)

OutsideStep ==
    /\ outside < MaxOutside
    /\ outside' = outside + 1
    /\ UNCHANGED <<ui, monitor, queue, results, completions, saves>>

OutsideWrite(p) ==
    /\ OutsideStep /\ nextData <= MaxData
    /\ disk' = [disk EXCEPT ![p] = OutsideRevision(nextData)]
    /\ nextRev' = nextRev + 1 /\ nextData' = nextData + 1

\* The bytes some file or document already has, written by somebody else.
OutsideEcho(p, data) ==
    /\ "echo" \in Env /\ OutsideStep
    /\ data < nextData
    /\ disk' = [disk EXCEPT ![p] = OutsideRevision(data)]
    /\ nextRev' = nextRev + 1 /\ UNCHANGED nextData

OutsideDelete(p) ==
    /\ "delete" \in Env /\ OutsideStep /\ disk[p] # None
    /\ disk' = [disk EXCEPT ![p] = None]
    /\ UNCHANGED <<nextRev, nextData>>

OutsideRename(p, q) ==
    /\ "rename" \in Env /\ OutsideStep /\ disk[p] # None /\ p # q
    /\ disk' = [disk EXCEPT ![p] = None, ![q] = disk[p]]
    /\ UNCHANGED <<nextRev, nextData>>

-----------------------------------------------------------------------------
User ==
    \E t \in Tabs :
        \/ Edit(t) \/ Undo(t) \/ Save(t) \/ SaveBeforeClose(t) \/ Close(t)
        \/ \E p \in Paths : SaveAs(t, p) \/ OpenFile(t, p)

EventLoop ==
    \/ SubmitChecks
    \/ \E t \in Tabs : SubmitCandidate(t)
    \/ BeginDrain \/ DrainNext \/ EndDrain \/ ApplyObservation
    \/ BeginSaveResults \/ ApplyCompletion
    \/ EndServing

Outside ==
    \E p \in Paths :
        \/ OutsideWrite(p) \/ OutsideDelete(p)
        \/ \E data \in 0..MaxData : OutsideEcho(p, data)
        \/ \E q \in Paths : OutsideRename(p, q)

Next == User \/ EventLoop \/ Worker \/ Outside

\* The worker thread runs; the event loop finishes the handlers it started, serves
\* every wake, and wakes by itself every two seconds to check the files.
Fairness == WF_vars(Worker) /\ WF_vars(EventLoop)

Spec == Init /\ [][Next]_vars
FairSpec == Spec /\ Fairness

=============================================================================
