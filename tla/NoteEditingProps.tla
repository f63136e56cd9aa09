-------------------------- MODULE NoteEditingProps --------------------------
(***************************************************************************)
(* What Notora promises about the text of its open notes.                  *)
(***************************************************************************)
EXTENDS NoteEditing

Relocations == {"trash", "move", "title"}
Targets(kind) == IF kind \in {"move", "title"} THEN Paths ELSE {None}

Tab == [st : {"fresh", "open", "closed"}, note : Notes \cup {None}, path : Paths \cup {None},
        rev : Revisions \cup {None}, text : Texts, crev : Nat, dirty : BOOLEAN]
AutoState == [st : {"idle", "scheduled", "saving", "failed"}, crev : Nat]
Job == [kind : Relocations \cup {"load"}, note : Notes, to : Paths \cup {None}, generation : Nat]
Reply == [kind : Relocations \cup {"load"}, note : Notes, from : Paths, to : Paths \cup {None},
          generation : Nat, rev : Revisions]
Save == [tab : Tabs, id : Nat, path : Paths, base : Revisions \cup {None}, text : Texts,
         crev : Nat, st : {"running", "saved", "conflict", "error"}, rev : Revisions \cup {None}]
Read == [tab : Tabs, crev : Nat, path : Paths, st : {"running", "read"},
         rev : Revisions \cup {None}]
At == [tab : Tabs, crev : Nat]
Wait == [tab : Tabs, crev : Nat, job : Job]

Ui == [tabs : [Tabs -> Tab], registered : SUBSET Tabs, before : SUBSET (Tabs \X Tabs),
       preview : Tabs \cup {0}, shown : Tabs \cup {0}, selected : Notes \cup {None},
       generation : Nat, auto : [Tabs -> AutoState], failed : SUBSET Tabs, conflict : SUBSET Tabs,
       retrying : SUBSET At, deferred : SUBSET Wait, switching : BOOLEAN, switch : SUBSET At,
       stage : {"running", "exiting", "exited", "switched"},
       phase : {"idle", "draining", "applying"}, kept : SUBSET [note : Notes, text : Texts]]

\* The values the variables take.  An open tab has a note and a path, a load brings a file,
\* a move knows where to.
OpenTabsAreBound(u) ==
    \A t \in Tabs : IF IsOpen(u, t) THEN u.tabs[t].note # None /\ u.tabs[t].path # None
                    ELSE ~u.tabs[t].dirty
TypeOK ==
    /\ ui \in Ui /\ OpenTabsAreBound(ui)
    /\ disk \in [Paths -> Revisions \cup {None}]
    /\ where \in [Notes -> Paths \cup {None}] /\ bin \in [Notes -> Revisions \cup {None}]
    /\ saves \in SUBSET Save /\ IsFiniteSet(saves) /\ reads \in SUBSET Read
    /\ \A s \in saves : s.st = "saved" => s.rev # None
    /\ \A r \in reads : r.st = "read" => r.rev # None
    /\ outcomes \in Seq([send : Seq(Job), again : Seq(Job)])
    /\ jobs \in Seq(Job) /\ \A i \in DOMAIN jobs : jobs[i].to \in Targets(jobs[i].kind)
    /\ done \in Seq(Reply) /\ \A i \in DOMAIN done : done[i].kind # "trash" => done[i].to # None
    /\ texts \in Texts /\ requests \in 0..MaxRequests
    /\ selects \in 0..MaxSelects /\ faults \in 0..MaxFaults

-----------------------------------------------------------------------------
(* Safety *)

\* A note has one tab, the registry knows exactly the open tabs and in which order they were
\* used, and it and the editor agree on which is the preview: closing a preview on the way to
\* another note, replacing one and evicting tabs all keep both sides together
\* (document_registry.rs, runtime_lru.rs).
Agree(u) ==
    /\ Registered(u) = {t \in Tabs : IsOpen(u, t)}
    /\ \A s, t \in Registered(u) :
          s # t => /\ u.tabs[s].note # u.tabs[t].note
                   /\ <<s, t>> \in u.before <=> <<t, s>> \notin u.before
    /\ u.preview = u.shown /\ u.preview \in Registered(u) \cup {0}
OneTabPerNote == Agree(ui)

\* The file of a note, the one in the trash included.
Kept(n) == IF where[n] = None THEN bin[n] ELSE disk[where[n]]

\* The text of an open note is in the note's file (also when that is in the trash) or in one
\* that moves left behind, or the tab is marked as unsaved, and at exit in a snapshot; unless
\* another program wrote the file.  No completion of an older save makes newer text count as
\* saved, whatever was in flight when the time was up, and no document prepared for an earlier
\* selection is shown.
Foreign(tab) == tab.crev = 0 /\ tab.rev # None /\ tab.rev.by = "other"
Holds(file, text) == file # None /\ (file.text = text \/ file.by = "other")
TextIsKept ==
    \A t \in Tabs : IsOpen(ui, t) =>
        LET tab == ui.tabs[t] IN
        \/ tab.dirty /\ ui.stage # "exited"
        \/ [note |-> tab.note, text |-> tab.text] \in ui.kept
        \/ Holds(Kept(tab.note), tab.text)
        \/ \E p \in Paths : disk[p] # None /\ disk[p].text = tab.text
        \/ Foreign(tab)

\* A file in the registry's hands never goes back to an older text of the user: of two saves
\* that run at once, only the one that knows what the other wrote replaces it.
NewerTextWins ==
    [][\A p \in Paths : disk[p] # None /\ disk'[p] # None /\ disk'[p] # disk[p]
           => disk'[p].text >= disk[p].text \/ disk[p].by = "other"]_vars

\* A note is sent to the trash, to another directory or to another name only with its text:
\* when the command leaves, no tab of the note holds unsaved text, although edits, other saves
\* and their failures may have come between the request and the save it waited for.
MovedWithItsText ==
    [][\A i \in DOMAIN jobs' \ DOMAIN jobs : jobs'[i].kind # "load" =>
           DirtyTabsOf(ui, jobs'[i].note) = {}]_<<ui, jobs>>

\* Text that is not saved leaves the editor only with a note that went to the trash, or with
\* the whole workspace: not with a preview that gives way, not to make room.
UnsavedStaysOpen ==
    [][\A t \in DirtyTabs(ui) : IsOpen(ui', t) \/ where[ui.tabs[t].note] = None
                                \/ ui'.stage = "switched"]_ui

-----------------------------------------------------------------------------
(* Why it holds *)

\* The preview is a tab nobody has typed in; a tab never used has nothing in flight.
PreviewIsClean(u) == \A t \in DirtyTabs(u) : t # u.preview
FreshTabsAreUnused ==
    \A t \in FreshTabs(ui) :
        /\ t \notin ui.conflict /\ \A s \in saves : s.tab # t
        /\ \A r \in reads : r.tab # t
        /\ \A d \in ui.deferred : d.tab # t

\* A move waits for the save of its own note's tab; when the save came the note has no unsaved
\* text until the command leaves, as nothing is typed between draining and applying.
DeferredFit ==
    \A d \in ui.deferred :
        /\ d.job.kind \in Relocations /\ d.job.to \in Targets(d.job.kind)
        /\ IsOpen(ui, d.tab) => ui.tabs[d.tab].note = d.job.note
ReadyToLeave ==
    /\ outcomes # <<>> => ui.phase # "idle"
    /\ \A i \in DOMAIN outcomes :
          /\ \A k \in DOMAIN outcomes[i].again :
                LET job == outcomes[i].again[k] IN
                k = 1 /\ job.kind = "title" /\ job.to \in Paths
          /\ \A k \in DOMAIN outcomes[i].send :
                LET job == outcomes[i].send[k] IN
                /\ job.kind \in Relocations /\ job.to \in Targets(job.kind)
                /\ DirtyTabsOf(ui, job.note) = {}

\* The answer of the worker comes after the note went to the trash.
TrashedIsGone ==
    \A i \in DOMAIN done : done[i].kind = "trash" => where[done[i].note] = None

Registry ==
    /\ PreviewIsClean(ui) /\ FreshTabsAreUnused /\ DeferredFit /\ ReadyToLeave /\ TrashedIsGone

-----------------------------------------------------------------------------
(* Why the text is kept, as long as notes stay where they are or go to the trash *)

Loading(job) == job.kind = "load" /\ job.generation = ui.generation

\* Nothing moves,
OnlyTrash ==
    /\ \A i \in DOMAIN jobs : jobs[i].kind \in {"load", "trash"}
    /\ \A i \in DOMAIN done : done[i].kind \in {"load", "trash"}
    /\ \A d \in ui.deferred : d.job.kind = "trash"
    /\ \A i \in DOMAIN outcomes : /\ outcomes[i].again = <<>>
                                  /\ \A k \in DOMAIN outcomes[i].send :
                                        outcomes[i].send[k].kind = "trash"

\* so tabs, saves and answers are about the file of their note, and know a revision of it.
AtHome ==
    /\ \A n \in Notes : IF where[n] = None THEN disk[Home[n]] = None /\ bin[n] # None
                        ELSE where[n] = Home[n] /\ disk[Home[n]] # None
    /\ \A t \in Tabs : IsOpen(ui, t) => /\ ui.tabs[t].path = Home[ui.tabs[t].note]
                                        /\ ui.tabs[t].rev # None
    /\ \A s \in saves : /\ s.base # None
                        /\ IsOpen(ui, s.tab) => s.path = ui.tabs[s.tab].path
                        /\ \E n \in Notes : s.path = Home[n]
    /\ \A r \in reads : IsOpen(ui, r.tab) => r.path = ui.tabs[r.tab].path
    /\ \A i \in DOMAIN done : done[i].kind = "load" => done[i].to = Home[done[i].note]

\* A selection loads once, and no tab of the note comes before the answer.
OneLoad ==
    /\ \A i \in DOMAIN jobs : jobs[i].kind = "load" => jobs[i].generation <= ui.generation
    /\ \A i \in DOMAIN done : done[i].kind = "load" => done[i].generation <= ui.generation
    /\ \A i, j \in DOMAIN jobs : Loading(jobs[i]) /\ Loading(jobs[j]) => i = j
    /\ \A i, j \in DOMAIN done : Loading(done[i]) /\ Loading(done[j]) => i = j
    /\ \A i \in DOMAIN jobs, j \in DOMAIN done : ~(Loading(jobs[i]) /\ Loading(done[j]))
    /\ \A i \in DOMAIN jobs : Loading(jobs[i]) => TabsOf(ui, jobs[i].note) = {}
    /\ \A i \in DOMAIN done : Loading(done[i]) => TabsOf(ui, done[i].note) = {}

\* Texts are numbered as they are typed or written, and revisions of a file in their order.
\* What a save carries is what its tab held at that content revision.
Numbered ==
    /\ \A t \in Tabs : IsOpen(ui, t) => ui.tabs[t].text <= texts /\ ui.tabs[t].rev.text <= texts
    /\ \A p \in Paths : disk[p] # None => disk[p].text <= texts
    /\ \A s \in saves : s.text <= texts /\ s.base.text <= texts
                        /\ (s.st = "saved" => s.rev.text = s.text /\ s.rev.by = "own")
    /\ \A r \in reads : r.st = "read" => r.rev.text <= texts
    /\ \A i \in DOMAIN done : done[i].rev.text <= texts

SavesOfTabs ==
    /\ \A t \in Tabs : IsDirty(ui, t) => ui.tabs[t].crev > 0
    /\ \A t \in Tabs : IsOpen(ui, t) /\ ui.tabs[t].crev = 0 => ui.tabs[t].text = ui.tabs[t].rev.text
    /\ \A s \in saves : IsOpen(ui, s.tab) =>
          /\ 0 < s.crev /\ s.crev <= ui.tabs[s.tab].crev
          /\ s.crev = ui.tabs[s.tab].crev => s.text = ui.tabs[s.tab].text
    /\ \A t \in ui.conflict : IsOpen(ui, t) => ui.tabs[t].crev > 0
    /\ \A r \in reads : IsOpen(ui, r.tab) => 0 < r.crev /\ r.crev <= ui.tabs[r.tab].crev

\* What is typed last is newer than all there is of the note, and a save than what it replaces.
Older(rev, text) == rev.by = "own" => rev.text <= text
UnsavedIsNewest ==
    /\ \A t \in DirtyTabs(ui) :
          LET tab == ui.tabs[t] IN
          /\ Older(tab.rev, tab.text)
          /\ disk[tab.path] # None => Older(disk[tab.path], tab.text)
          /\ \A s \in saves : s.path = tab.path => s.text <= tab.text
          /\ \A r \in reads : r.tab = t /\ r.st = "read" /\ r.crev = tab.crev
                              => Older(r.rev, tab.text)
    /\ \A s \in saves : s.st = "running" => Older(s.base, s.text)

\* No revision known of a file is ahead of it.
NotAhead(rev, file) == rev.stamp <= file.stamp /\ (rev.stamp = file.stamp => rev = file)
KnownRevisions ==
    \A n \in Notes : where[n] # None =>
        LET file == disk[Home[n]] IN
        /\ \A t \in TabsOf(ui, n) : NotAhead(ui.tabs[t].rev, file)
        /\ \A s \in saves : s.path = Home[n] =>
              /\ s.st = "running" => NotAhead(s.base, file)
              /\ s.st = "saved" => NotAhead(s.rev, file)
        /\ \A r \in reads : r.path = Home[n] /\ r.st = "read" => NotAhead(r.rev, file)
        /\ \A i \in DOMAIN done : done[i].kind = "load" /\ done[i].note = n
                                  => NotAhead(done[i].rev, file)

\* A save that can still replace the file of a note would write the text its tab shows as
\* saved, or has just saved, or that the file has when the tab is gone.
CanReplace(s, n) == s.st = "running" /\ s.path = Home[n] /\ where[n] # None
                    /\ s.base = disk[Home[n]]
JustSaved(s, t) == s.st = "saved" /\ s.tab = t /\ s.crev = ui.tabs[t].crev
Settles(text, n) ==
    Holds(Kept(n), text) /\ \A s \in saves : CanReplace(s, n) => s.text = text
SavedIsKept ==
    /\ \A t \in Tabs : IsOpen(ui, t) /\ ~ui.tabs[t].dirty /\ ~Foreign(ui.tabs[t])
                       => Settles(ui.tabs[t].text, ui.tabs[t].note)
    /\ \A t \in Tabs, s \in saves : IsOpen(ui, t) /\ JustSaved(s, t)
                                    => Settles(s.text, ui.tabs[t].note)
    /\ ui.stage # "switched" =>
          /\ \A i \in DOMAIN done : Loading(done[i]) /\ done[i].rev.by = "own"
                                    => Settles(done[i].rev.text, done[i].note)
          /\ \A n \in Notes, s \in saves :
                CanReplace(s, n) /\ ~IsOpen(ui, s.tab) /\ disk[Home[n]].by = "own"
                => s.text = disk[Home[n]].text
    /\ ui.stage = "exited" => Snapshots(ui) \subseteq ui.kept

KeptAtHome ==
    /\ OnlyTrash /\ AtHome /\ OneLoad /\ Numbered /\ SavesOfTabs /\ UnsavedIsNewest /\ KnownRevisions
    /\ SavedIsKept

IInv == TypeOK /\ OneTabPerNote /\ Registry

-----------------------------------------------------------------------------
(* Liveness *)

\* Every edit is saved, or its failure recorded, unless the tab goes or the loop ends: the
\* scheduler forgets no revision, whichever completions arrive in between.
Unsettled(t) == ui.stage = "running" /\ IsDirty(ui, t)
                /\ ui.auto[t].st # "failed" /\ t \notin ui.failed
EditsSettle == \A t \in Tabs : Unsettled(t) ~> ~Unsettled(t)

\* A move that waits for a save is carried out, tried again or given up: none waits for ever.
DeferredEnd ==
    \A t \in Tabs : (ui.stage = "running" /\ \E d \in ui.deferred : d.tab = t)
                    ~> (ui.stage # "running" \/ \A d \in ui.deferred : d.tab # t)
=============================================================================
