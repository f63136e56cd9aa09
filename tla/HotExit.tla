------------------------------ MODULE HotExit ------------------------------
(***************************************************************************)
(* Hot exit of Textora: what is open, and unsaved, comes back at the next  *)
(* start.  A persist writes a snapshot for every dirty tab (a file named   *)
(* after the tab's path, or after an id of its own) and then the session   *)
(* file that refers to them; the start removes what the session does not   *)
(* refer to and restores the tabs.  Each write replaces one file in one    *)
(* step; any may fail, the process may be killed between any two, and the  *)
(* files change under it, also while it does not run.                      *)
(*                                                                         *)
(* A check of a file and its consequences are one step here, and a save    *)
(* is two, the worker's and its completion: FileSafety takes them apart.   *)
(***************************************************************************)
EXTENDS Naturals, FiniteSets

CONSTANTS
    Tabs,         \* places in the tab list, in their order
    Paths,        \* files the tabs may be about
    Ids,          \* ids of untitled tabs (untitled_id)
    None,
    Present,      \* the files there are to begin with
    MaxTexts,     \* bound: texts typed or written by other programs
    MaxWrites,    \* bound: files written by saves and other programs
    MaxStarts,    \* bound: starts of the program
    MaxFaults     \* bound: reads and writes that fail, files deleted, tabs closed

\* A text is where it was typed (None: read from a file) and when; a revision differs from
\* every other, also from one of the same text.
Texts == [of : Tabs \cup {None}, no : 0..MaxTexts]
Revisions == [text : Texts, id : Nat]

\* A snapshot's file: the path of its tab (snapshot_id_for_path) or the id.
Names == Paths \cup Ids

Documents == [path : Paths \cup {None}, text : Texts, rev : Revisions \cup {None},
              dirty : BOOLEAN, name : Names \cup {None}]
Entries == [path : Paths \cup {None}, text : Texts, dirty : BOOLEAN,
            name : Names \cup {None}, base : Revisions \cup {None}]
Snapshots == [text : Texts, base : Revisions \cup {None}]

ASSUME HotExitAssumption ==
    /\ Tabs \subseteq Nat \ {0} /\ IsFiniteSet(Tabs) /\ Tabs # {}
    /\ Present \subseteq Paths /\ Ids \subseteq Nat /\ Paths \cap Ids = {}
    /\ None \notin Paths \cup Tabs \cup Ids
    /\ None \notin Documents \cup Entries \cup Snapshots \cup Revisions
    /\ {MaxTexts, MaxWrites, MaxStarts, MaxFaults} \subseteq Nat /\ MaxTexts > 0

VARIABLES
    disk,      \* path -> revision or None
    snapshots, \* the .dirty files: name -> text and baseline, or None
    session,   \* workspace.toml: place -> entry or None
    docs,      \* the tabs: place -> document or None
    active,    \* the active tab
    monitor,   \* what the file-safety monitor saw last of a tab's file, or None
    saves,     \* saves the worker has, or has done and the tab not heard of
    run,       \* the process: its phase, and the persist it is in
    texts, revisions, starts, faults,
    known,     \* history: revisions a tab or a persist has seen
    doubtful,  \* history: places whose snapshot may hold another text: it could not be
               \* read, or a tab of the same name wrote it
    left       \* history: the tabs as the last quit left them, or None

files == <<disk, snapshots, session>>
spent == <<texts, revisions, starts, faults>>
history == <<known, doubtful, left>>
vars == <<files, docs, active, monitor, saves, run, spent, history>>

-----------------------------------------------------------------------------
(* Texts, revisions, documents *)

Blank == [of |-> None, no |-> 0]
\* A text the user makes is never empty (an emptied tab is taken for a stub of its file).
Typed(t) == [of |-> t, no |-> texts + 1]
Revision(text) == [text |-> text, id |-> revisions + 1]

Document(path, text, rev, name) ==
    [path |-> path, text |-> text, rev |-> rev, dirty |-> FALSE, name |-> name]
Untitled(name) == Document(None, Blank, None, name)
Loaded(p) == Document(p, disk[p].text, disk[p], None)

Open == {t \in Tabs : docs[t] # None}
Free(t) == docs[t] = None /\ \A u \in Tabs : u < t => docs[u] # None
OpenOn(p) == {t \in Open : docs[t].path = p}

\* untitled_id gives an id that nothing has.
InUse(i) ==
    \/ snapshots[i] # None
    \/ \E t \in Open : docs[t].name = i
    \/ \E t \in Tabs : session[t] # None /\ session[t].name = i
NewName(i) == i \in Ids /\ ~InUse(i) /\ \A j \in Ids : j < i => InUse(j)
NameIfNone(name, path, i) ==
    IF name # None THEN i = name ELSE IF path # None THEN i = path ELSE NewName(i)

\* hydrate_stub_document, when a tab becomes active: a tab without text, one that was not
\* loaded at the start, takes its file's.  Only the dirty flag stays.
Hydrated(doc) ==
    IF doc.path # None /\ doc.text = Blank /\ disk[doc.path] # None
    THEN [Loaded(doc.path) EXCEPT !.dirty = doc.dirty] ELSE doc
\* The revisions whose text a tab shows.
SeenIn(tabs) ==
    LET shown == {t \in Tabs : tabs[t] # None /\ tabs[t].rev # None
                              /\ tabs[t].rev.text = tabs[t].text}
    IN  {tabs[t].rev : t \in shown}

-----------------------------------------------------------------------------
(* The user *)

NoTabs == [t \in Tabs |-> None]
Process(phase, todo, quit) ==
    [phase |-> phase, todo |-> todo, draft |-> NoTabs, quit |-> quit, whole |-> TRUE]
UI == run.phase = "up"

\* The effect PersistWorkspace, at the end of a handler.
PersistNow == run' = Process("persist", {t \in Tabs : docs'[t] # None}, FALSE)

Edit(t) ==
    /\ UI /\ t = active /\ texts < MaxTexts
    /\ texts' = texts + 1
    /\ \E i \in Names :
          /\ NameIfNone(docs[t].name, docs[t].path, i)
          /\ docs' = [docs EXCEPT ![t].text = Typed(t), ![t].dirty = TRUE, ![t].name = i]
    /\ UNCHANGED <<files, active, monitor, saves, run, revisions, starts, faults, history>>

Shows(tabs, t) ==
    /\ docs' = tabs /\ active' = t
    /\ known' = known \cup SeenIn(tabs)
    /\ PersistNow
    /\ monitor' = [u \in Tabs |-> IF tabs[u] # None /\ tabs[u].path # None THEN monitor[u]
                                  ELSE None]
    /\ UNCHANGED <<files, texts, revisions, starts, doubtful, left>>

NewTab(t) ==
    /\ UI /\ Free(t) /\ UNCHANGED <<saves, faults>>
    /\ \E i \in Ids : NewName(i) /\ Shows([docs EXCEPT ![t] = Untitled(i)], t)

OpenFile(t, p) ==
    /\ UI /\ Free(t) /\ OpenOn(p) = {} /\ disk[p] # None /\ UNCHANGED <<saves, faults>>
    /\ Shows([docs EXCEPT ![t] = Loaded(p)], t)

Activate(t) ==
    /\ UI /\ t \in Open \ {active} /\ UNCHANGED <<saves, faults>>
    /\ Shows([docs EXCEPT ![t] = Hydrated(@)], t)

\* The user gives the text up: a save of it is not heard of.  There is always a tab.
\* Mutated form: it comes to the tab that has the place then.
OrphansKept(t) == saves
Orphaned(t) == {IF s.tab = t THEN [s EXCEPT !.tab = None] ELSE s : s \in saves}
Close(t) ==
    /\ UI /\ t \in Open
    /\ faults < MaxFaults /\ faults' = faults + 1
    /\ saves' = Orphaned(t)
    /\ \/ \E u \in Open \ {t} :
             Shows([docs EXCEPT ![t] = None, ![u] = IF active = t THEN Hydrated(@) ELSE @],
                   IF active = t THEN u ELSE active)
       \/ /\ Open = {t}
          /\ \E i \in Ids : NewName(i) /\ Shows([docs EXCEPT ![t] = Untitled(i)], t)

-----------------------------------------------------------------------------
(* Saving *)

\* Path, text and expected revision are fixed now; an untitled tab gets a path that is free.
Save(t) ==
    /\ UI /\ t \in Open /\ docs[t].dirty /\ revisions + Cardinality(saves) < MaxWrites
    /\ \A s \in saves : s.tab # t
    /\ \E p \in Paths :
          /\ IF docs[t].path # None THEN p = docs[t].path ELSE disk[p] = None /\ OpenOn(p) = {}
          /\ saves' = saves \cup {[tab |-> t, path |-> p, text |-> docs[t].text,
                                   base |-> docs[t].rev, rev |-> None]}
    /\ UNCHANGED <<files, docs, active, monitor, run, spent, history>>

\* The worker replaces the file if it is the expected one; a quit waits for it.
WorkerSaves(s) ==
    /\ s \in saves /\ s.rev = None /\ run.phase # "down"
    /\ IF disk[s.path] = s.base
       THEN /\ revisions' = revisions + 1
            /\ disk' = [disk EXCEPT ![s.path] = Revision(s.text)]
            /\ known' = known \cup {Revision(s.text)}
            /\ monitor' = [t \in Tabs |->
                    IF monitor[t] # None /\ docs[t].path = s.path THEN Revision(s.text)
                    ELSE monitor[t]]
            /\ saves' = (saves \ {s}) \cup {[s EXCEPT !.rev = Revision(s.text)]}
       ELSE saves' = saves \ {s} /\ UNCHANGED <<revisions, disk, known, monitor>>
    /\ UNCHANGED <<snapshots, session, docs, active, run, texts, starts, faults, doubtful, left>>

Completed(s) ==
    /\ UI /\ s \in saves /\ s.rev # None
    /\ saves' = saves \ {s}
    /\ IF s.tab = None THEN UNCHANGED <<docs, run>>
       ELSE /\ docs' = [docs EXCEPT ![s.tab].path = s.path, ![s.tab].rev = s.rev,
                                    ![s.tab].dirty = @ /\ docs[s.tab].text # s.text]
            /\ PersistNow
    /\ UNCHANGED <<files, active, monitor, spent, history>>

-----------------------------------------------------------------------------
(* The check of a tab's file *)

\* The revision a change is measured by.  A tab that is dirty at its first check brings its own.
FirstSeen(doc) ==
    IF doc.dirty /\ doc.rev # None THEN doc.rev ELSE disk[doc.path]
Baseline(t) == IF monitor[t] # None THEN monitor[t] ELSE FirstSeen(docs[t])

\* A deleted file leaves an untitled tab behind, with the name it had;
Detached(t) ==
    /\ disk[docs[t].path] = None
    /\ monitor' = [monitor EXCEPT ![t] = None]
    /\ \E i \in Names :
          /\ NameIfNone(docs[t].name, None, i)
          /\ docs' = [docs EXCEPT ![t].path = None, ![t].rev = None, ![t].dirty = TRUE,
                                  ![t].name = i]
    /\ UNCHANGED <<disk, revisions>>

\* a changed one is loaded again, or the text goes to a copy and the tab follows.
Reloaded(t) ==
    LET p == docs[t].path IN
    /\ monitor' = [monitor EXCEPT ![t] = disk[p]]
    /\ disk[p] \notin {None, Baseline(t)}
    /\ disk[p].text # docs[t].text /\ ~docs[t].dirty
    /\ docs' = [docs EXCEPT ![t] = Loaded(p)]
    /\ UNCHANGED <<disk, revisions>>

Conflict(t) ==
    LET p == docs[t].path
        copy == Revision(docs[t].text)
    IN  /\ monitor' = [monitor EXCEPT ![t] = None]
        /\ disk[p] \notin {None, Baseline(t)}
        /\ disk[p].text # docs[t].text /\ docs[t].dirty
        /\ \E q \in Paths :
              /\ disk[q] = None
              /\ disk' = [disk EXCEPT ![q] = copy]
              /\ revisions' = revisions + 1
              /\ docs' = [docs EXCEPT ![t].path = q, ![t].rev = copy]

NothingNew(t) ==
    LET p == docs[t].path IN
    /\ monitor' = [monitor EXCEPT ![t] = disk[p]]
    /\ disk[p] # None
    /\ disk[p] = Baseline(t) \/ disk[p].text = docs[t].text
    /\ UNCHANGED <<docs, disk, revisions>>

Check(t) ==
    /\ UI /\ t \in Open /\ docs[t].path # None /\ Baseline(t) # None
    /\ \A s \in saves : s.tab # t
    /\ Detached(t) \/ Reloaded(t) \/ Conflict(t) \/ NothingNew(t)
    /\ known' = known \cup SeenIn(docs') \cup ({disk[docs[t].path]} \ {None})
    /\ UNCHANGED <<snapshots, session, active, saves, run, texts, starts, faults, doubtful, left>>

-----------------------------------------------------------------------------
(* persist_workspace_state, quit_app *)

Quit ==
    /\ UI
    /\ run' = Process("persist", Open, TRUE)
    /\ UNCHANGED <<files, docs, active, monitor, saves, spent, history>>

\* persisted_runtime_tab.  The snapshot's baseline is the revision the file has now.
Entry(doc, name, base) ==
    [path |-> doc.path, text |-> doc.text, dirty |-> doc.dirty, name |-> name, base |-> base]
Named(entries, name) == {t \in Tabs : entries[t] # None /\ entries[t].name = name}
Noted(t, entry) ==
    run' = [run EXCEPT !.todo = @ \ {t}, !.draft[t] = entry,
                       !.whole = @ /\ (docs[t].dirty => entry.name # None)]

\* A clean tab keeps its text only if it has no file; a dirty one's is for the properties.
PersistTab(t) ==
    LET doc == docs[t]
        base == IF doc.path = None THEN None ELSE disk[doc.path]
    IN  /\ run.phase = "persist" /\ t \in run.todo /\ \A u \in run.todo : t <= u
        /\ \/ /\ ~doc.dirty
              /\ Noted(t, Entry(doc, None, None))
              /\ UNCHANGED <<snapshots, faults, doubtful>>
           \/ \E i \in Names :
                 /\ doc.dirty
                 /\ IF doc.path # None THEN i = doc.path ELSE NameIfNone(doc.name, None, i)
                 /\ snapshots' = [snapshots EXCEPT ![i] = [text |-> doc.text, base |-> base]]
                 /\ Noted(t, Entry(doc, i, base))
                 /\ doubtful' = doubtful \cup {u \in Named(session, i) : u # t}
                 /\ UNCHANGED faults
           \/ /\ doc.dirty /\ faults < MaxFaults /\ faults' = faults + 1
              /\ Noted(t, Entry(doc, None, None))
              /\ UNCHANGED <<snapshots, doubtful>>
        /\ known' = known \cup ({base} \ {None})
        /\ UNCHANGED <<disk, session, docs, active, monitor, saves, texts, revisions, starts,
                       left>>

\* The session file is written last.  A quit goes on even if that failed.
PersistSession ==
    /\ run.phase = "persist" /\ run.todo = {}
    /\ \/ /\ session' = run.draft /\ UNCHANGED faults
          /\ left' = IF run.quit /\ run.whole THEN docs ELSE None
          /\ doubtful' = {t \in Tabs : /\ run.draft[t] # None /\ run.draft[t].name # None
                                      /\ Named(run.draft, run.draft[t].name) # {t}}
       \/ /\ faults < MaxFaults /\ faults' = faults + 1
          /\ UNCHANGED <<session, left, doubtful>>
    /\ run' = Process(IF run.quit THEN "closing" ELSE "up", {}, FALSE)
    /\ UNCHANGED <<disk, snapshots, docs, active, monitor, saves, texts, revisions, starts, known>>

Stopped ==
    /\ docs' = NoTabs /\ active' = None /\ saves' = {}
    /\ monitor' = [t \in Tabs |-> None]
    /\ run' = Process("down", {}, FALSE)

\* The worker is joined: it carries out the saves it has.
Exit ==
    /\ run.phase = "closing" /\ \A s \in saves : s.rev # None
    /\ Stopped
    /\ UNCHANGED <<files, spent, history>>

Kill ==
    /\ run.phase \in {"up", "persist", "closing", "starting"}
    /\ Stopped
    /\ UNCHANGED <<files, spent, history>>

-----------------------------------------------------------------------------
(* The start: cleanup_snapshot_orphans, load_workspace, restore_workspace *)

Referred == {session[t].name : t \in {u \in Tabs : session[u] # None}}
\* Mutated form: only the snapshots named after a path of the session are kept.
CleanedOfIds ==
    [n \in Names |-> IF \E t \in Tabs : session[t] # None /\ session[t].path = n
                     THEN snapshots[n] ELSE None]
Cleaned == [n \in Names |-> IF n \in Referred THEN snapshots[n] ELSE None]

Start ==
    /\ run.phase = "down" /\ starts < MaxStarts /\ starts' = starts + 1
    /\ snapshots' = Cleaned
    /\ run' = Process("starting", {}, FALSE)
    /\ UNCHANGED <<disk, session, docs, active, monitor, saves, texts, revisions, faults, history>>

\* restore_document, when the snapshot can be read.
\* Mutated form: the revision the file has now.
RestoredOnto(e) ==
    [Document(e.path, snapshots[e.name].text,
              IF e.path = None THEN None ELSE disk[e.path], e.name) EXCEPT !.dirty = e.dirty]
\* Mutated form: a restored text counts as saved.
RestoredClean(e) ==
    Document(e.path, snapshots[e.name].text,
             IF e.base # None THEN e.base ELSE snapshots[e.name].base, e.name)
Restored(e) ==
    LET rev == IF e.base # None THEN e.base ELSE snapshots[e.name].base
        path == IF rev = None THEN None ELSE e.path
    IN  [Document(path, snapshots[e.name].text, rev, e.name) EXCEPT !.dirty = e.dirty]

\* And when there is none: the active tab loads its file, others are loaded when shown.
Reopened(e, shown) ==
    LET doc == IF e.path # None THEN Document(e.path, Blank, None, None)
               ELSE Document(None, IF e.dirty THEN Blank ELSE e.text, None, None)
        dirty == [doc EXCEPT !.dirty = e.dirty]
    IN  IF shown THEN Hydrated(dirty) ELSE dirty

Load ==
    LET kept == {t \in Tabs : session[t] # None}
        back(lost, shown) ==
            [t \in Tabs |-> IF t \notin kept THEN None
                            ELSE IF session[t].name = None \/ t \in lost
                                    \/ snapshots[session[t].name] = None
                            THEN Reopened(session[t], t = shown)
                            ELSE Restored(session[t])]
    IN  /\ run.phase = "starting" /\ kept # {}
        /\ \E lost \in SUBSET kept, shown \in kept :
              /\ Cardinality(lost) <= MaxFaults - faults
              /\ faults' = faults + Cardinality(lost)
              /\ docs' = back(lost, shown) /\ active' = shown
              /\ doubtful' = doubtful \cup lost
              /\ known' = known \cup SeenIn(docs')
        /\ run' = Process("up", {}, FALSE)
        /\ left' = None
        /\ UNCHANGED <<files, monitor, saves, texts, revisions, starts>>

\* load_file: there is no session, or it cannot be read.
LoadNothing ==
    /\ run.phase = "starting"
    /\ \/ NoTabs = session /\ UNCHANGED faults
       \/ NoTabs # session /\ faults < MaxFaults /\ faults' = faults + 1
    /\ \E t \in Tabs, i \in Ids :
          /\ NewName(i) /\ active' = t /\ \A u \in Tabs : t <= u
          /\ docs' = [NoTabs EXCEPT ![t] = Untitled(i)]
    /\ run' = Process("up", {}, FALSE)
    /\ left' = None
    /\ UNCHANGED <<files, monitor, saves, texts, revisions, starts, known, doubtful>>

-----------------------------------------------------------------------------
(* Other programs *)

Outside(p, rev) ==
    /\ disk' = [disk EXCEPT ![p] = rev]
    /\ UNCHANGED <<snapshots, session, docs, active, monitor, saves, run, starts, history>>

OutsideWrite(p) ==
    /\ texts < MaxTexts /\ revisions + Cardinality(saves) < MaxWrites
    /\ texts' = texts + 1 /\ revisions' = revisions + 1 /\ UNCHANGED faults
    /\ Outside(p, Revision([of |-> None, no |-> texts + 1]))

OutsideDelete(p) ==
    /\ disk[p] # None
    /\ faults < MaxFaults /\ faults' = faults + 1
    /\ Outside(p, None) /\ UNCHANGED <<texts, revisions>>

-----------------------------------------------------------------------------
Init ==
    /\ disk = [p \in Paths |-> IF p \in Present THEN [text |-> [of |-> None, no |-> 1], id |-> 0]
                               ELSE None]
    /\ snapshots = [n \in Names |-> None]
    /\ session = NoTabs /\ docs = NoTabs /\ active = None
    /\ monitor = [t \in Tabs |-> None]
    /\ saves = {} /\ run = Process("down", {}, FALSE)
    /\ texts = 1 /\ revisions = 0 /\ starts = 0 /\ faults = 0
    /\ known = {} /\ doubtful = {} /\ left = None

User ==
    \/ \E t \in Tabs : Edit(t) \/ NewTab(t) \/ Activate(t) \/ Close(t) \/ Save(t)
    \/ \E t \in Tabs, p \in Paths : OpenFile(t, p)
    \/ Quit

Program ==
    \/ \E s \in saves : WorkerSaves(s) \/ Completed(s)
    \/ \E t \in Tabs : Check(t) \/ PersistTab(t)
    \/ PersistSession \/ Exit \/ Start \/ Load \/ LoadNothing

Next ==
    \/ User \/ Program \/ Kill
    \/ \E p \in Paths : OutsideWrite(p) \/ OutsideDelete(p)

Spec == Init /\ [][Next]_vars
=============================================================================
