------------------------- MODULE FileSafetyProps -------------------------
(***************************************************************************)
(* What the save and external-change pipeline must guarantee.              *)
(***************************************************************************)
EXTENDS FileSafety

-----------------------------------------------------------------------------
(* Types *)

MaybePath == Paths \cup {None}
MaybeRev == Revisions \cup {None}
Kinds == {"ok", "error", "unchanged", "reload", "conflict", "renamed", "deleted", "ambiguous"}
Outcomes == [kind : Kinds, path : MaybePath, rev : MaybeRev, data : Nat]
Documents ==
    [st : {"fresh", "open", "closed"}, path : MaybePath, rev : MaybeRev, data : Nat,
     crev : Nat, dirty : BOOLEAN, clean : Nat]
Entries == [kind : {"untracked", "observed", "saved"}, rev : MaybeRev, preds : Seq(Revisions)]
CommandRecords ==
    [op : {"track", "observe", "reconcile", "save", "ack"}, tab : Tabs \cup {None},
     path : Paths, id : Nat, dirty : BOOLEAN, crev : Nat, data : Nat, rev : MaybeRev]
Commands ==
    {c \in CommandRecords :
       /\ c.op \in {"save", "observe", "reconcile"} => c.tab \in Tabs
       /\ c.op \in {"observe", "reconcile"} => c.id \in RequestIds}
ResultRecords ==
    [kind : {"tracked", "observed"}, id : Nat, path : Paths, dirty : BOOLEAN, crev : Nat,
     outcome : Outcomes]
Results == {r \in ResultRecords : r.kind = "observed" => r.id \in RequestIds}
Completions == [tab : Tabs, path : Paths, crev : Nat, rev : MaybeRev]
Observations ==
    [tab : Tabs, path : Paths, dirty : BOOLEAN, crev : Nat, outcome : Outcomes]
Requests == [tab : Tabs, crev : Nat, dirty : BOOLEAN]

\* Every variable holds what the code's types allow: a command always names a file, a
\* snapshot its tab, an observation the request it answers.
TypeOK ==
    /\ disk \in [Paths -> MaybeRev]
    /\ docs \in [Tabs -> Documents]
    /\ tracked \in [Tabs -> MaybePath]
    /\ pathTab \in [Paths -> Tabs \cup {None}]
    /\ pending \in [RequestIds -> Requests \cup {None}]
    /\ serving \in BOOLEAN /\ todo \subseteq Tabs /\ draining \in BOOLEAN
    /\ batch \in Seq(Observations) /\ applying \in Seq(Completions)
    /\ pendingClose \subseteq Tabs
    /\ monitor \in [Paths -> Entries]
    /\ queue \in Seq(Commands) /\ results \in Seq(Results)
    /\ completions \in Seq(Completions)
    /\ nextRev \in Nat /\ nextData \in Nat /\ saves \in Nat /\ outside \in Nat

-----------------------------------------------------------------------------
(* What the monitor and the session must keep true *)

\* The event loop is inside at most one handler: a round of checks, a drain with the
\* observations it took, or a list of save completions.
OneHandler ==
    /\ todo # {} => ~draining /\ batch = <<>> /\ applying = <<>>
    /\ applying # <<>> => ~draining /\ batch = <<>>

\* The tabs a round of checks has still to submit keep their file until it does.
RoundOnFiles == \A t \in todo : docs[t].path # None

\* old is base, or this app's own saves made it out of base.
Descends(old, base) ==
    \/ old = base
    \/ old # None /\ base # None /\ old.by # None /\ base.id \in old.lineage

WorkerRan(op) == WorkerHas(op) /\ queue' = Tail(queue)

\* The entry's predecessors are revisions its own descends from.
KeepsLineage(entry) ==
    entry.kind = "saved" =>
        /\ entry.rev # None /\ entry.rev.by # None
        /\ \A i \in DOMAIN entry.preds : entry.preds[i].id \in entry.rev.lineage

\* A predecessor list (confirm_save, acknowledge_save) holds nothing but revisions the
\* saved one descends from through an unbroken run of the app's own saves: this is what
\* lets a queued save or a reconciliation treat its old baseline as still current.
MonitorLineage == \A p \in Paths : KeepsLineage(monitor[p])

\* The worker asks for a reload only if the snapshot it was sent was clean.
ReloadsAreForClean ==
    /\ \A r \in ToSet(results) : r.outcome.kind = "reload" => ~r.dirty
    /\ \A o \in ToSet(batch) : o.outcome.kind = "reload" => ~o.dirty

\* The inductive invariant of the proofs: what the handlers, the commands in the queue
\* and the monitor's entries have in common in every state.
IInv == TypeOK /\ OneHandler /\ RoundOnFiles /\ MonitorLineage /\ ReloadsAreForClean

\* A queued save replaces a file only if it still is the one its snapshot was made
\* for, or the app's own earlier saves made it out of that one: no content the
\* outside world wrote is ever replaced by a save that was prepared before it.
SaveLineage ==
    [][WorkerRan("save") /\ disk' # disk
       => Descends(disk[Head(queue).path], Head(queue).rev)]_vars

\* The revisions tab t, or a save or reconciliation it has queued for p, starts from.
Baselines(t, p) ==
    {docs[u].rev : u \in {v \in {t} : IsOpen(v) /\ docs[v].path = p}}
    \cup {c.rev : c \in {d \in ToSet(queue) :
                       d.op \in {"save", "reconcile"} /\ d.tab = t /\ d.path = p}}

\* acknowledge_save forgets no revision that the tab whose save is acknowledged, or a
\* command it has queued, may still start from.  Another tab on the same file may lose its
\* baseline, and with Save As a check answered late may move a tab back to a revision it
\* has replaced itself: the next save of that tab is then refused, not lost.
BaselineRecognised ==
    [][WorkerRan("ack")
       => LET p == Head(queue).path
          IN  \A base \in Baselines(Head(queue).rev.by, p) :
                 IsSavedSuccessor(monitor[p], base) => IsSavedSuccessor(monitor'[p], base)]_vars

\* tracked_paths and path_to_tab agree: no two tabs both believe the monitor watches
\* the same file for them (each would drop the other's observations).
OneTabPerTrackedPath == \A t \in Tabs : tracked[t] # None => pathTab[tracked[t]] = t

InFlight(id) ==
    \/ \E c \in ToSet(queue) : c.op \in {"observe", "reconcile"} /\ c.id = id
    \/ \E r \in ToSet(results) : r.kind = "observed" /\ r.id = id

\* A request that submit_candidates waits for is really under way: a leaked one would
\* stop every later check of the same document state.
PendingIsInFlight == \A id \in RequestIds : pending[id] # None => InFlight(id)

SaveOutstanding(t) ==
    \/ \E c \in ToSet(queue) : c.op = "save" /\ c.tab = t
    \/ \E s \in ToSet(completions) \cup ToSet(applying) : s.tab = t

\* A tab that waits to close (pending_close_after_save) and still is open has a save
\* under way: a save it did not ask for never closes it later.
ClosingTabAwaitsSave ==
    \A t \in pendingClose : docs[t].st = "closed" \/ (IsOpen(t) /\ SaveOutstanding(t))

-----------------------------------------------------------------------------
(* What the user must keep *)

\* Only the user changes the text of a dirty document; a reload never does.
DirtyTextKept ==
    [][\A t \in Tabs : IsOpen(t) /\ docs[t].dirty /\ docs'[t].data # docs[t].data
                       => docs'[t].crev = docs[t].crev + 1]_vars

\* apply_save_completion "without clearing newer edits" (model.rs:220): a completion makes
\* a dirty document clean only if it saved the text shown now.
SavedTextIsCurrent ==
    [][\A t \in Tabs : IsOpen(t) /\ docs[t].dirty /\ ~docs'[t].dirty /\ applying' # applying
           => docs'[t].rev # None /\ docs'[t].rev.data = docs[t].data]_vars

\* No conflict copy is made against what the same tab saved, as long as no save fails
\* after its rename ("lateError": the tab cannot know that the file is its own).
NoSelfConflict ==
    [][\A q \in CopyPaths :
         (WorkerRan("observe") \/ WorkerRan("reconcile")) /\ disk'[q] # disk[q]
         => disk[Head(queue).path].by # Head(queue).tab]_vars

\* A tab moves to a conflict copy only if the copy holds the text it shows.
CopyHoldsText ==
    [][\A t \in Tabs : IsOpen(t) /\ docs'[t].path # docs[t].path /\ batch' # batch
            /\ Head(batch).outcome.kind = "conflict"
           => docs'[t].rev.data = docs[t].data]_vars

\* Every observation that was asked for is taken back into the session.
RequestsAnswered == \A id \in RequestIds : pending[id] # None ~> pending[id] = None

\* A tab closed with "save" ends up closed, or free of the wish to close.
ClosingEnds == \A t \in Tabs : t \in pendingClose ~> (t \notin pendingClose \/ ~IsOpen(t))

=============================================================================
