---------------------------- MODULE HotExitProps ----------------------------
(***************************************************************************)
(* What hot exit promises, and the invariant these promises rest on.       *)
(***************************************************************************)
EXTENDS HotExit

Saves == [tab : Tabs \cup {None}, path : Paths, text : Texts,
          base : Revisions \cup {None}, rev : Revisions \cup {None}]
Processes == [phase : {"down", "starting", "up", "persist", "closing"}, todo : SUBSET Tabs,
              draft : [Tabs -> Entries \cup {None}], quit : BOOLEAN, whole : BOOLEAN]

\* The shape of every variable; the program is down with nothing in memory and up with an
\* active tab that is open (workspace.rs: there is always an active document).
TypeOK ==
    /\ disk \in [Paths -> Revisions \cup {None}]
    /\ snapshots \in [Names -> Snapshots \cup {None}]
    /\ session \in [Tabs -> Entries \cup {None}]
    /\ docs \in [Tabs -> Documents \cup {None}]
    /\ active \in Open \cup {None}
    /\ active = None <=> run.phase \in {"down", "starting"}
    /\ active = None => Open = {} /\ saves = {}
    /\ monitor \in [Tabs -> Revisions \cup {None}]
    /\ saves \subseteq Saves
    /\ run \in Processes
    /\ texts \in 1..MaxTexts /\ revisions \in Nat
    /\ starts \in 0..MaxStarts /\ faults \in 0..MaxFaults
    /\ known \subseteq Revisions /\ doubtful \subseteq Tabs
    /\ left \in [Tabs -> Documents \cup {None}] \cup {None}

\* Whatever stops the program, and between whatever two writes: a tab that the session on
\* disk calls unsaved finds its snapshot, with the text it had when the session was written
\* or a newer one.  (workspace_persistence.rs:147 writes the snapshot before the session,
\* store.rs:44 keeps what the session refers to.)  Left out are the doubtful places: after a
\* start that could not read the snapshot the next persist puts an empty text there, and two
\* tabs of one name write one snapshot (an untitled tab keeps the name of the path it had).
KeptTextOnDisk ==
    \A t \in Tabs :
        LET e == session[t]
        IN  e # None /\ e.name # None =>
                /\ snapshots[e.name] # None
                /\ t \in doubtful \/ snapshots[e.name].text.no >= e.text.no

\* A quit whose writes succeeded loses nothing: the next start that can read the session has
\* every unsaved tab again in its place, with its text and still unsaved, whatever saves the
\* worker finished on the way out and whatever other programs did to the files meanwhile.
QuitKeepsAll ==
    [][\A t \in Tabs :
        /\ Load /\ left # None
        /\ left[t] # None /\ left[t].dirty /\ t \notin doubtful'
        => docs'[t] # None /\ docs'[t].text = left[t].text /\ docs'[t].dirty]_vars

\* A save never replaces a revision of the file that neither a tab nor a persist has seen:
\* what other programs wrote while the program did not run makes the save of a restored
\* text fail (workspace_persistence.rs:338 takes the baseline from the session, not from
\* the file).
ReplacedWasKnown ==
    [][\A p \in Paths, s \in saves :
        s.path = p /\ WorkerSaves(s) /\ disk'[p] # disk[p] => disk[p] \in known \cup {None}]_vars

-----------------------------------------------------------------------------
(* The inductive invariant *)

\* Every revision that anything in memory or on disk refers to has been seen.
Seen(r) == r \in known \cup {None}
RevisionsKnown ==
    /\ \A t \in Tabs : /\ docs[t] # None => Seen(docs[t].rev)
                       /\ session[t] # None => Seen(session[t].base)
                       /\ run.draft[t] # None => Seen(run.draft[t].base)
    /\ \A n \in Names : snapshots[n] # None => Seen(snapshots[n].base)
    /\ \A s \in saves : Seen(s.base) /\ Seen(s.rev)

\* No text is newer than the counter.
TextsCounted ==
    /\ \A t \in Tabs : /\ docs[t] # None => docs[t].text.no <= texts
                       /\ session[t] # None => session[t].text.no <= texts
    /\ \A n \in Names : snapshots[n] # None => snapshots[n].text.no <= texts
    /\ \A p \in Paths : disk[p] # None => disk[p].text.no <= texts
    /\ \A s \in saves : s.text.no <= texts

\* A persist under way: what it has drafted is what the tabs have, and its snapshots are
\* written; outside a persist there is no draft.
DraftOf(t) ==
    LET e == run.draft[t]
    IN  /\ docs[t] # None /\ e.text = docs[t].text /\ e.dirty = docs[t].dirty
        /\ run.whole /\ e.dirty => e.name # None
        /\ e.name # None => /\ snapshots[e.name] # None
                            /\ \/ snapshots[e.name].text = e.text
                               \/ Named(run.draft, e.name) # {t}
PersistUnderWay ==
    /\ run.phase # "persist" => run.draft = NoTabs /\ run.todo = {}
    /\ run.todo \subseteq Open /\ \A t \in run.todo : run.draft[t] = None
    /\ run.phase = "persist" => \A t \in Open \ run.todo : run.draft[t] # None
    /\ \A t \in Tabs : run.draft[t] # None => DraftOf(t)

\* An unsaved text with a file, or under the name of the session's, is not older than the
\* session's; what is typed during the one save of a tab is newer.
Newer(t) == session[t] # None /\ session[t].name # None /\ t \notin doubtful
            => docs[t].text.no >= session[t].text.no
TabsNotOlder ==
    /\ \A t \in Open :
          /\ docs[t].dirty /\ docs[t].path # None => Newer(t)
          /\ docs[t].name # None /\ session[t] # None /\ session[t].name = docs[t].name
             => Newer(t)
    /\ \A s \in saves : s.tab # None =>
          /\ s.tab \in Open /\ docs[s.tab].dirty
          /\ docs[s.tab].text # s.text => Newer(s.tab)
          /\ \A r \in saves : r.tab = s.tab => r = s

\* Between a complete quit and the next load the session is that of the quit.
LeftIsKept ==
    left # None =>
        /\ run.phase \in {"closing", "down", "starting"}
        /\ \A t \in Tabs : left[t] # None /\ left[t].dirty =>
              /\ session[t] # None /\ session[t].dirty /\ session[t].name # None
              /\ t \in doubtful \/ snapshots[session[t].name].text = left[t].text

\* What the proofs of the properties above go by.
IInv == /\ TypeOK /\ RevisionsKnown /\ TextsCounted /\ PersistUnderWay
        /\ KeptTextOnDisk /\ TabsNotOlder /\ LeftIsKept
=============================================================================
