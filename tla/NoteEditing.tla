---------------------------- MODULE NoteEditing ----------------------------
(***************************************************************************)
(* Open notes of Notora (crates/notora-app): the tabs of the editor, the   *)
(* registry that names them, the auto-save scheduler, the moves that wait  *)
(* for a save, the change of the workspace and the exit.  The event loop   *)
(* runs one handler at a time; every save runs on a thread of its own (no  *)
(* file-safety worker is started here), and the workspace worker serves    *)
(* its commands in order.  A save compares the file with the revision it   *)
(* expects and replaces it in one step: what lies between is AtomicSave's. *)
(***************************************************************************)
EXTENDS Naturals, FiniteSets, Sequences

CONSTANTS
    Notes, Paths, None,
    Home,         \* the file of each note
    Tabs,         \* the tabs one run may open, numbered from 1
    MaxResident,  \* tabs that may stay open
    Uses,         \* what the user and the world do besides editing
    MaxTexts,     \* bound: texts written, by the user or by other programs
    MaxRequests,  \* bound: requests other than selecting a note
    MaxSelects,   \* bound: notes selected
    MaxFaults     \* bound: saves that fail

\* A text is the number of the write that first held it; a revision differs from every
\* earlier one of its file, and from those of files written from another one.
Revision(file, text, by, stamp) == [file |-> file, text |-> text, by |-> by, stamp |-> stamp]
Texts == 0..MaxTexts
Revisions == [file : Notes \cup {None}, text : Texts, by : {"own", "other"}, stamp : Nat]

ASSUME EditingAssumption ==
    /\ None \notin Notes \cup Paths \cup Revisions
    /\ Home \in [Notes -> Paths] /\ \A m, n \in Notes : Home[m] = Home[n] => m = n
    /\ Tabs \in SUBSET (Nat \ {0}) /\ IsFiniteSet(Tabs)
    /\ {MaxTexts, MaxRequests, MaxSelects, MaxFaults} \subseteq Nat
    /\ MaxResident \in Nat \ {0}

VARIABLES
    ui,           \* what the event loop owns
    outcomes,     \* what the drained saves lead to, applied after the last of them
    saves,        \* save threads that run, or whose completion waits to be drained
    disk,         \* the revision of each file, or None
    bin,          \* the files in the trash
    where,        \* the catalog: a note's file, or None when it is in the trash
    jobs,         \* commands the workspace worker has not served
    done,         \* its answers
    reads,        \* threads that read a revision, for the answer to a conflict
    texts,        \* texts written so far
    requests, selects, faults

threads == <<saves, reads, disk>>
worker == <<jobs, done, where, bin>>
spent == <<texts, requests, selects, faults>>
vars == <<ui, outcomes, threads, worker, spent>>

-----------------------------------------------------------------------------
(* Tabs *)

NoTab == [st |-> "fresh", note |-> None, path |-> None, rev |-> None, text |-> 0, crev |-> 0,
          dirty |-> FALSE]
GoneTab == [NoTab EXCEPT !.st = "closed"]
NoAuto == [st |-> "idle", crev |-> 0]

IsOpen(u, t) == u.tabs[t].st = "open"
IsDirty(u, t) == IsOpen(u, t) /\ u.tabs[t].dirty
DirtyTabs(u) == {t \in Tabs : IsDirty(u, t)}
FreshTabs(u) == {t \in Tabs : u.tabs[t].st = "fresh"}

\* DocumentRegistry: the registered tabs, and which of two was used before the other.
Registered(u) == u.registered
TabsOf(u, n) == {t \in Registered(u) : u.tabs[t].note = n}
Touched(u, t) ==
    [u EXCEPT !.registered = @ \cup {t},
              !.before = {x \in @ : x[1] # t /\ x[2] # t} \cup ((u.registered \ {t}) \X {t})]
Unregistered(u, ts) ==
    [u EXCEPT !.registered = @ \ ts,
              !.before = {x \in @ : x[1] \notin ts /\ x[2] \notin ts},
              !.preview = IF @ \in ts THEN 0 ELSE @]

\* The editor drops tabs; the registry hears of it elsewhere.
Closed(u, ts) ==
    [u EXCEPT !.tabs = [t \in Tabs |-> IF t \in ts THEN GoneTab ELSE u.tabs[t]],
              !.shown = IF @ \in ts THEN 0 ELSE @]
Cancelled(u, ts) ==
    [u EXCEPT !.auto = [t \in Tabs |-> IF t \in ts THEN NoAuto ELSE u.auto[t]],
              !.failed = @ \ ts]
Dismissed(u, ts) == Unregistered(Closed(Cancelled(u, ts), ts), ts)

-----------------------------------------------------------------------------
(* The scheduler and the saves *)

Scheduled(u, t) == [u EXCEPT !.auto[t] = [st |-> "scheduled", crev |-> u.tabs[t].crev]]

\* The path, text and expected revision are fixed when the save is prepared.
PreparedSave(u, t) ==
    [tab |-> t,
     id |-> CHOOSE i \in 1..(Cardinality(saves) + 1) : \A s \in saves : s.tab = t => s.id # i,
     path |-> u.tabs[t].path, base |-> u.tabs[t].rev, text |-> u.tabs[t].text,
     crev |-> u.tabs[t].crev, st |-> "running", rev |-> None]

\* An immediate request is due at once; a tab that became clean needs no save.
Submitted(u, ts) ==
    [u EXCEPT !.auto = [t \in Tabs |->
                            IF t \notin ts THEN u.auto[t]
                            ELSE IF IsDirty(u, t) THEN [st |-> "saving", crev |-> u.tabs[t].crev]
                            ELSE NoAuto],
              !.failed = @ \ {t \in ts : ~IsDirty(u, t)}]
Spawned(u, ts) == {PreparedSave(u, t) : t \in ts \cap DirtyTabs(u)}

\* A thread: the file must be as expected, or missing when no revision is known.  Mutated
\* form: without the comparison.
Replaced(s) == [s EXCEPT !.st = "saved",
                         !.rev = IF s.base = None THEN Revision(None, s.text, "own", 0)
                                 ELSE Revision(s.base.file, s.text, "own", s.base.stamp + 1)]
WriteBlindly(s) == Replaced(s)
Written(s) == IF disk[s.path] = s.base THEN Replaced(s) ELSE [s EXCEPT !.st = "conflict"]

-----------------------------------------------------------------------------
(* The save barrier of a change of the workspace *)

CloseNoteTabs(u) ==
    [Dismissed(u, Registered(u)) EXCEPT !.deferred = {d \in @ : d.tab \notin Registered(u)},
                                        !.retrying = {d \in @ : d.tab \notin Registered(u)}]

\* reconcile_workspace_transition_saves, at the end of every handler: the switch fails when a
\* candidate failed, went or changed; when none is left the target opens, or cannot be opened.
Settled(u) ==
    LET broken == {c \in u.switch : c.tab \in u.failed \/ ~IsOpen(u, c.tab)
                                    \/ u.tabs[c.tab].crev # c.crev}
        left == {c \in u.switch : IsDirty(u, c.tab)}
        over == [u EXCEPT !.switching = FALSE, !.switch = {}]
    IN  IF ~u.switching THEN {u}
        ELSE IF broken # {} THEN {over}
        ELSE IF left # {} THEN {[u EXCEPT !.switch = left]}
        ELSE {over, [CloseNoteTabs(over) EXCEPT !.stage = "switched", !.selected = None]}

-----------------------------------------------------------------------------
(* The user edits, saves, asks for a note to be moved *)

Idle == ui.stage = "running" /\ ui.phase = "idle"
Becomes(u) == ui' \in Settled(u)

\* The selected note is the one the editor shows.  The first edit makes a preview stay.
Edited(u, t) ==
    Scheduled([u EXCEPT !.tabs[t] = [@ EXCEPT !.text = texts + 1, !.dirty = TRUE,
                                              !.crev = u.tabs[t].crev + 1],
                        !.failed = @ \ {t},
                        !.preview = IF @ = t /\ u.shown = t THEN 0 ELSE @,
                        !.shown = IF @ = t THEN 0 ELSE @], t)
Edit(t) ==
    /\ Idle /\ texts < MaxTexts
    /\ t \in TabsOf(ui, ui.selected)
    /\ texts' = texts + 1
    /\ Becomes(Edited(ui, t))
    /\ UNCHANGED <<outcomes, threads, worker, requests, selects, faults>>

\* process_due_autosaves, at the deadline
Due(t) ==
    /\ Idle /\ ui.auto[t].st = "scheduled"
    /\ Becomes(Submitted(ui, {t}))
    /\ saves' = saves \cup Spawned(ui, {t})
    /\ UNCHANGED <<outcomes, reads, disk, worker, spent>>

\* Cmd/Ctrl+S, whatever is in flight
SaveNow(t) ==
    /\ Idle /\ "save" \in Uses /\ requests < MaxRequests
    /\ t \in TabsOf(ui, ui.selected)
    /\ requests' = requests + 1
    /\ Becomes(Submitted(ui, {t}))
    /\ saves' = saves \cup Spawned(ui, {t})
    /\ UNCHANGED <<outcomes, reads, disk, worker, texts, selects, faults>>

\* prepare_trash_operation, prepare_note_move, prepare_title_update: at once when no tab of the
\* note has unsaved text, else after a save of that text.
DirtyTabsOf(u, n) == TabsOf(u, n) \cap DirtyTabs(u)
Deferred(u, job) ==
    LET ts == DirtyTabsOf(u, job.note)
        wait == {[tab |-> t, crev |-> u.tabs[t].crev, job |-> job] : t \in ts}
    IN  Submitted([u EXCEPT !.deferred = {d \in @ : d.tab \notin ts \/ d.job.kind # job.kind}
                                         \cup wait], ts)

RequestRelocation(n, kind, to) ==
    LET job == [kind |-> kind, note |-> n, to |-> to, generation |-> 0] IN
    /\ Idle /\ kind \in Uses /\ requests < MaxRequests
    /\ where[n] # None /\ where[n] # to
    /\ requests' = requests + 1
    /\ Becomes(Deferred(ui, job))
    /\ saves' = saves \cup Spawned(ui, DirtyTabsOf(ui, n))
    /\ jobs' = IF DirtyTabsOf(ui, n) = {} THEN Append(jobs, job) ELSE jobs
    /\ UNCHANGED <<outcomes, reads, disk, done, where, bin, texts, selects, faults>>

-----------------------------------------------------------------------------
(* Saves end *)

\* The comparison and the replacement, or an error
SaveEnds(s) ==
    /\ s \in saves /\ s.st = "running"
    /\ \/ /\ saves' = (saves \ {s}) \cup {Written(s)}
          /\ disk' = IF Written(s).st = "saved" THEN [disk EXCEPT ![s.path] = Written(s).rev]
                     ELSE disk
          /\ UNCHANGED faults
       \/ /\ "fault" \in Uses /\ faults < MaxFaults /\ faults' = faults + 1
          /\ saves' = (saves \ {s}) \cup {[s EXCEPT !.st = "error"]}
          /\ UNCHANGED disk
    /\ UNCHANGED <<ui, outcomes, reads, worker, texts, requests, selects>>

\* The document takes path and revision of what was written, and is clean if it is that text.
\* Mutated form: clean whatever was written.
AcknowledgedAsClean(u, s) ==
    IF s.st # "saved" \/ ~IsOpen(u, s.tab) THEN u
    ELSE [u EXCEPT !.tabs[s.tab] = [@ EXCEPT !.path = s.path, !.rev = s.rev, !.dirty = FALSE]]
Acknowledged(u, s) ==
    IF s.st # "saved" \/ ~IsOpen(u, s.tab) THEN u
    ELSE [u EXCEPT !.tabs[s.tab] =
              [@ EXCEPT !.path = s.path, !.rev = s.rev,
                        !.dirty = u.tabs[s.tab].dirty /\ u.tabs[s.tab].crev # s.crev]]

\* Only the revision in flight settles the scheduler.  Mutated form: any completion does.
AutoEndsAnyway(u, s, st) == [u EXCEPT !.auto[s.tab] = [@ EXCEPT !.st = st]]
AutoEnds(u, s, st) ==
    IF u.auto[s.tab] # [st |-> "saving", crev |-> s.crev] THEN u
    ELSE [u EXCEPT !.auto[s.tab] = [st |-> st, crev |-> s.crev]]

\* What waits for this very save.  Mutated form: not when it failed.
WaitingForSuccess(u, s) ==
    {d \in u.deferred : d.tab = s.tab /\ d.crev = s.crev /\ s.st = "saved"}
Waiting(u, s) == {d \in u.deferred : d.tab = s.tab /\ d.crev = s.crev}

\* finish_successful_save, finish_failed_save
Finished(u, s) ==
    LET known == [Acknowledged(u, s) EXCEPT
                      !.deferred = @ \ Waiting(u, s),
                      !.retrying = @ \ {[tab |-> s.tab, crev |-> s.crev]},
                      !.failed = IF s.st = "saved" THEN @ \ {s.tab} ELSE @ \cup {s.tab},
                      !.conflict = IF s.st = "conflict" THEN @ \cup {s.tab}
                                   ELSE IF s.st = "saved"
                                           /\ [tab |-> s.tab, crev |-> s.crev] \in u.retrying
                                   THEN @ \ {s.tab} ELSE @]
    IN  AutoEnds(known, s, IF s.st = "saved" THEN "idle" ELSE "failed")

\* A move runs if the tab is clean at the revision it waited for.  A title is tried again.
\* Mutated form: the save came, whatever was edited meanwhile.
ReadyOnceSaved(u, s) == s.st = "saved"
Ready(u, s) == s.st = "saved" /\ IsOpen(u, s.tab) /\ ~u.tabs[s.tab].dirty
               /\ u.tabs[s.tab].crev = s.crev
JobsOf(ds, kind) ==
    IF \E d \in ds : d.job.kind = kind THEN <<(CHOOSE d \in ds : d.job.kind = kind).job>>
    ELSE <<>>
OutcomeOf(u, s) ==
    LET ds == Waiting(u, s) IN
    [send |-> IF Ready(Acknowledged(u, s), s)
              THEN JobsOf(ds, "trash") \o JobsOf(ds, "move") \o JobsOf(ds, "title") ELSE <<>>,
     again |-> IF s.st = "saved" /\ ~Ready(Acknowledged(u, s), s)
               THEN JobsOf(ds, "title") ELSE <<>>]

\* drain_save_completions: every completion that is there, in the order they came,
DrainSave(s) ==
    /\ ui.stage \in {"running", "exiting"} /\ ui.phase \in {"idle", "draining"}
    /\ s \in saves /\ s.st # "running"
    /\ saves' = saves \ {s}
    /\ ui' = [Finished(ui, s) EXCEPT !.phase = "draining"]
    /\ outcomes' = Append(outcomes, OutcomeOf(ui, s))
    /\ UNCHANGED <<reads, disk, worker, spent>>

\* and then what they lead to.
ApplyOutcome ==
    /\ outcomes # <<>>
    /\ outcomes' = Tail(outcomes)
    /\ LET now == [ui EXCEPT !.phase = IF Tail(outcomes) = <<>> THEN "idle" ELSE "applying"]
           send == Head(outcomes).send
           again == Head(outcomes).again
           dirty == IF again = <<>> THEN {} ELSE DirtyTabsOf(ui, again[1].note)
       IN  /\ Becomes(IF again = <<>> THEN now ELSE Deferred(now, again[1]))
           /\ saves' = saves \cup Spawned(ui, dirty)
           /\ jobs' = jobs \o send \o (IF dirty = {} THEN again ELSE <<>>)
    /\ UNCHANGED <<reads, disk, done, where, bin, spent>>

-----------------------------------------------------------------------------
(* Selecting a note, and the previews it opens *)

\* activate_registered_document: the editor closes a clean preview it leaves; the registry
\* follows.  Mutated form: the registry does not.
ActivatedForgettingPreview(u, t) ==
    Touched(Closed(u, {s \in {u.shown} \ {0, t} : ~IsDirty(u, s)}), t)
Activated(u, t) ==
    LET left == Closed(u, {s \in {u.shown} \ {0, t} : ~IsDirty(u, s)})
        known == Unregistered(left, {s \in {u.preview} \ {0, t} : ~IsOpen(left, s)})
    IN  Touched(known, t)

\* RuntimeLru: clean tabs nobody saves, the least recently used first.  Mutated form: also
\* those with unsaved text.
EvictableAnyhow(u, t) == t # u.preview /\ u.auto[t].st # "saving" /\ u.tabs[t].note # u.selected
Evictable(u, t) == /\ t # u.preview /\ ~IsDirty(u, t) /\ u.auto[t].st # "saving"
                   /\ u.tabs[t].note # u.selected
Evicted(u) ==
    LET open == {t \in Tabs : IsOpen(u, t)}
        evictable == {t \in Registered(u) : Evictable(u, t)}
        number(t) == Cardinality({s \in evictable : <<s, t>> \in u.before})
    IN  Dismissed(u, {t \in evictable : number(t) + MaxResident < Cardinality(open)})

\* install_prepared_preview, for a note that has no tab
Installed(u, t, answer) ==
    LET left == Closed(u, {s \in {u.shown} \ {0} : ~IsDirty(u, s)})
        known == Unregistered(left, {u.preview} \ {0})
        opened == [known EXCEPT
            !.tabs[t] = [st |-> "open", note |-> answer.note, path |-> answer.to,
                         rev |-> answer.rev, text |-> answer.rev.text, crev |-> 0,
                         dirty |-> FALSE],
            !.shown = t, !.preview = t]
    IN  Evicted(Touched(opened, t))

\* A note is shown if it has a tab, else loaded; each selection has a generation of its own.
Opened(u, n) ==
    IF TabsOf(u, n) = {} THEN u ELSE Activated(u, CHOOSE t \in TabsOf(u, n) : TRUE)
Chosen(u, n) == Opened([u EXCEPT !.selected = n, !.generation = @ + 1], n)
Loads(u, n) ==
    IF TabsOf(u, n) # {} THEN <<>>
    ELSE <<[kind |-> "load", note |-> n, to |-> None, generation |-> u.generation + 1]>>

Select(n) ==
    /\ Idle /\ selects < MaxSelects /\ where[n] # None
    /\ selects' = selects + 1
    /\ Becomes(Chosen(ui, n))
    /\ jobs' = jobs \o Loads(ui, n)
    /\ UNCHANGED <<outcomes, threads, done, where, bin, texts, requests, faults>>

-----------------------------------------------------------------------------
(* The workspace worker, and its answers *)

\* Mutated form: a load answers with the job's own target.
AnswerToJob(job, from, rev) == [kind |-> job.kind, note |-> job.note, from |-> from,
                                to |-> job.to, generation |-> job.generation, rev |-> rev]
Answer(job, from, rev) == [kind |-> job.kind, note |-> job.note, from |-> from,
                           to |-> IF job.kind = "load" THEN from ELSE job.to,
                           generation |-> job.generation, rev |-> rev]

\* A load reads the file; a relocation moves it unless something is in the way.
Work ==
    LET job == Head(jobs)
        from == where[job.note]
        here == from # None /\ disk[from] # None
        possible == here /\ (job.kind \in {"move", "title"} => disk[job.to] = None)
    IN  /\ jobs # <<>>
        /\ jobs' = Tail(jobs)
        /\ done' = IF possible THEN Append(done, Answer(job, from, disk[from])) ELSE done
        /\ IF possible /\ job.kind # "load"
           THEN /\ where' = [where EXCEPT ![job.note] = job.to]
                /\ disk' = [p \in Paths |-> IF p = job.to THEN disk[from]
                                            ELSE IF p = from THEN None ELSE disk[p]]
                /\ bin' = IF job.to = None THEN [bin EXCEPT ![job.note] = disk[from]] ELSE bin
           ELSE UNCHANGED <<where, disk, bin>>
        /\ UNCHANGED <<ui, outcomes, saves, reads, spent>>

\* A prepared document is installed if it answers the selection there is now.
TakeLoaded ==
    /\ Idle /\ done # <<>> /\ Head(done).kind = "load"
    /\ done' = Tail(done)
    /\ LET answer == Head(done) IN
       IF answer.note # ui.selected \/ answer.generation # ui.generation THEN UNCHANGED ui
       ELSE IF TabsOf(ui, answer.note) # {} THEN Becomes(Opened(ui, answer.note))
       ELSE \E t \in FreshTabs(ui) : /\ \A s \in FreshTabs(ui) : t <= s
                                     /\ Becomes(Installed(ui, t, answer))
    /\ UNCHANGED <<outcomes, threads, jobs, where, bin, spent>>

\* complete_trash_operation: the tab goes, whatever was typed since.
Trashed(u, n) ==
    LET gone == Dismissed(u, TabsOf(u, n)) IN
    IF u.selected = n /\ TabsOf(u, n) # {}
    THEN [gone EXCEPT !.selected = None, !.generation = @ + 1] ELSE gone
TakeTrashed ==
    /\ Idle /\ done # <<>> /\ Head(done).kind = "trash"
    /\ done' = Tail(done)
    /\ Becomes(Trashed(ui, Head(done).note))
    /\ UNCHANGED <<outcomes, threads, jobs, where, bin, spent>>

\* synchronize_open_note_path: a tab that has the old path takes the new one, with the revision
\* found there now.  A moved note is also selected.
Rebound(u, answer) ==
    LET ts == {t \in TabsOf(u, answer.note) : IsOpen(u, t) /\ u.tabs[t].path = answer.from} IN
    [u EXCEPT !.tabs = [t \in Tabs |-> IF t \notin ts THEN u.tabs[t]
                            ELSE [u.tabs[t] EXCEPT !.path = answer.to,
                                                   !.rev = disk[answer.to]]]]
TakeMoved ==
    /\ Idle /\ done # <<>> /\ Head(done).kind \in {"move", "title"}
    /\ done' = Tail(done)
    /\ LET answer == Head(done)
           bound == Rebound(ui, answer)
           chosen == answer.kind = "move"
       IN  /\ Becomes(IF chosen THEN Chosen(bound, answer.note) ELSE bound)
           /\ jobs' = jobs \o (IF chosen THEN Loads(bound, answer.note) ELSE <<>>)
    /\ UNCHANGED <<outcomes, threads, where, bin, spent>>

-----------------------------------------------------------------------------
(* Conflicts, other programs, the change of the workspace, the exit *)

\* "Save anyway": a thread reads the revision the file has,
Retry(t) ==
    /\ Idle /\ "retry" \in Uses /\ requests < MaxRequests
    /\ t \in ui.conflict \cap TabsOf(ui, ui.selected)
    /\ requests' = requests + 1
    /\ reads' = reads \cup {[tab |-> t, crev |-> ui.tabs[t].crev, path |-> ui.tabs[t].path,
                             st |-> "running", rev |-> None]}
    /\ UNCHANGED <<ui, outcomes, saves, disk, worker, texts, selects, faults>>

CaptureRevision(r) ==
    /\ r \in reads /\ r.st = "running"
    /\ reads' = (reads \ {r})
                \cup (IF disk[r.path] = None THEN {}
                      ELSE {[r EXCEPT !.st = "read", !.rev = disk[r.path]]})
    /\ UNCHANGED <<ui, outcomes, saves, disk, worker, spent>>

\* and the document, if unchanged, is saved over it.
Rebased(u, r) ==
    [u EXCEPT !.tabs[r.tab] = [@ EXCEPT !.path = r.path, !.rev = r.rev],
              !.retrying = {q \in @ : q.tab # r.tab} \cup {[tab |-> r.tab, crev |-> r.crev]}]
RetrySave(r) ==
    /\ Idle /\ r \in reads /\ r.st = "read"
    /\ reads' = reads \ {r}
    /\ IF IsOpen(ui, r.tab) /\ r.tab \in Registered(ui) /\ ui.tabs[r.tab].crev = r.crev
       THEN /\ Becomes(Submitted(Rebased(ui, r), {r.tab}))
            /\ saves' = saves \cup Spawned(Rebased(ui, r), {r.tab})
       ELSE UNCHANGED <<ui, saves>>
    /\ UNCHANGED <<outcomes, disk, worker, spent>>

OutsideWrite(p) ==
    /\ "outside" \in Uses /\ texts < MaxTexts /\ requests < MaxRequests /\ disk[p] # None
    /\ texts' = texts + 1 /\ requests' = requests + 1
    /\ disk' = [disk EXCEPT ![p] = Revision(@.file, texts + 1, "other", @.stamp + 1)]
    /\ UNCHANGED <<ui, outcomes, saves, reads, worker, selects, faults>>

\* prepare_workspace_transition: the tabs with unsaved text are saved first.
SwitchBegun(u) ==
    LET dirty == DirtyTabs(u) \cap Registered(u) IN
    Submitted([u EXCEPT !.switching = TRUE,
                        !.switch = {[tab |-> t, crev |-> u.tabs[t].crev] : t \in dirty}], dirty)
Switch ==
    /\ Idle /\ "switch" \in Uses /\ ~ui.switching /\ requests < MaxRequests
    /\ requests' = requests + 1
    /\ Becomes(SwitchBegun(ui))
    /\ saves' = saves \cup Spawned(ui, DirtyTabs(ui) \cap Registered(ui))
    /\ UNCHANGED <<outcomes, reads, disk, worker, texts, selects, faults>>

\* shutdown: save what is unsaved, drain until nothing is in flight or the time is up,
Exit ==
    /\ Idle /\ "exit" \in Uses
    /\ LET dirty == DirtyTabs(ui) \cap Registered(ui) IN
       /\ ui' = [Submitted(ui, dirty) EXCEPT !.stage = "exiting"]
       /\ saves' = saves \cup Spawned(ui, dirty)
    /\ UNCHANGED <<outcomes, reads, disk, worker, spent>>

\* and keep a snapshot of what is still unsaved.
Snapshots(u) == {[note |-> u.tabs[t].note, text |-> u.tabs[t].text] : t \in DirtyTabs(u)}
ExitEnds ==
    /\ ui.stage = "exiting" /\ ui.phase = "idle"
    /\ \A s \in saves : s.st = "running"
    /\ ui' = [ui EXCEPT !.stage = "exited", !.kept = Snapshots(ui)]
    /\ UNCHANGED <<outcomes, threads, worker, spent>>

-----------------------------------------------------------------------------
Init ==
    /\ ui = [tabs |-> [t \in Tabs |-> NoTab], registered |-> {}, before |-> {}, preview |-> 0,
             shown |-> 0, selected |-> None, generation |-> 0,
             auto |-> [t \in Tabs |-> NoAuto], failed |-> {}, conflict |-> {}, retrying |-> {},
             deferred |-> {}, switching |-> FALSE, switch |-> {}, stage |-> "running",
             phase |-> "idle", kept |-> {}]
    /\ disk = [p \in Paths |-> IF \E n \in Notes : p = Home[n]
                               THEN Revision(CHOOSE n \in Notes : p = Home[n], 0, "own", 0)
                               ELSE None]
    /\ where = Home /\ bin = [n \in Notes |-> None]
    /\ outcomes = <<>> /\ jobs = <<>> /\ done = <<>>
    /\ saves = {} /\ reads = {}
    /\ texts = 0 /\ requests = 0 /\ selects = 0 /\ faults = 0

User ==
    \/ \E t \in Tabs : Edit(t) \/ SaveNow(t) \/ Retry(t)
    \/ \E n \in Notes : \/ Select(n) \/ RequestRelocation(n, "trash", None)
                        \/ \E p \in Paths, kind \in {"move", "title"} :
                               RequestRelocation(n, kind, p)
    \/ Switch \/ Exit

System ==
    \/ \E t \in Tabs : Due(t)
    \/ \E s \in saves : SaveEnds(s) \/ DrainSave(s)
    \/ \E r \in reads : CaptureRevision(r) \/ RetrySave(r)
    \/ ApplyOutcome \/ Work \/ TakeLoaded \/ TakeTrashed \/ TakeMoved \/ ExitEnds

Next == User \/ System \/ \E p \in Paths : OutsideWrite(p)
Spec == Init /\ [][Next]_vars

\* The deadlines pass, the threads run and the event loop serves what they send.
FairSpec == Spec /\ WF_vars(System)
=============================================================================
