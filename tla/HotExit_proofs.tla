--------------------------- MODULE HotExit_proofs ---------------------------
(***************************************************************************)
(* Proofs about HotExit: the inductive invariant, and from it that unsaved *)
(* texts are on disk, that a complete quit keeps them all, and that a save *)
(* replaces nothing unseen; for any tabs, files, ids and bounds.           *)
(***************************************************************************)
EXTENDS HotExitProps, FiniteSetTheorems, TLAPS

(* Constants and records *)

LEMMA Constants ==
    /\ None \notin Paths /\ None \notin Tabs /\ None \notin Names /\ None \notin Documents
    /\ None \notin Entries /\ None \notin Snapshots /\ None \notin Revisions
    /\ MaxTexts \in Nat /\ MaxFaults \in Nat /\ MaxStarts \in Nat /\ MaxTexts > 0
    /\ Present \subseteq Paths /\ IsFiniteSet(Tabs) /\ Paths \subseteq Names
    /\ Ids \subseteq Names /\ Tabs \subseteq Nat
BY HotExitAssumption DEF Names

LEMMA BlankType == Blank \in Texts /\ Blank.no = 0
BY Constants DEF Blank, Texts

LEMMA TextType == \A text \in Texts : text.no \in Nat
BY DEF Texts

LEMMA RevisionType ==
    ASSUME NEW text \in Texts, revisions \in Nat
    PROVE  Revision(text) \in Revisions /\ Revision(text).text = text /\ Revision(text) # None
BY Constants DEF Revision, Revisions

LEMMA DocumentFields ==
    ASSUME NEW doc \in Documents
    PROVE  /\ doc.path \in Paths \cup {None} /\ doc.text \in Texts /\ doc.text.no \in Nat
           /\ doc.rev \in Revisions \cup {None} /\ doc.dirty \in BOOLEAN
           /\ doc.name \in Names \cup {None} /\ doc # None
BY Constants DEF Documents, Texts

LEMMA RevisionFields ==
    ASSUME NEW rev \in Revisions
    PROVE  rev # None /\ rev.text \in Texts /\ rev.text.no \in Nat
BY Constants DEF Revisions, Texts

LEMMA EntryFields ==
    ASSUME NEW e \in Entries
    PROVE  /\ e.path \in Paths \cup {None} /\ e.text \in Texts /\ e.text.no \in Nat
           /\ e.base \in Revisions \cup {None} /\ e.dirty \in BOOLEAN
           /\ e.name \in Names \cup {None} /\ e # None
BY Constants DEF Entries, Texts

LEMMA SnapshotFields ==
    ASSUME NEW n \in Snapshots
    PROVE  n.text \in Texts /\ n.text.no \in Nat /\ n.base \in Revisions \cup {None} /\ n # None
BY Constants DEF Snapshots, Texts

\* A document's own dirty flag, kept.
LEMMA DirtyKept ==
    ASSUME NEW doc \in Documents, NEW dirty \in BOOLEAN
    PROVE  /\ [doc EXCEPT !.dirty = dirty] \in Documents
           /\ [doc EXCEPT !.dirty = dirty].path = doc.path
           /\ [doc EXCEPT !.dirty = dirty].text = doc.text
           /\ [doc EXCEPT !.dirty = dirty].rev = doc.rev
           /\ [doc EXCEPT !.dirty = dirty].name = doc.name
           /\ [doc EXCEPT !.dirty = dirty].dirty = dirty
BY DEF Documents
-----------------------------------------------------------------------------
(* The invariant by what it speaks of: a tab, a save, the files *)

MemoryTyped ==
    /\ disk \in [Paths -> Revisions \cup {None}]
    /\ docs \in [Tabs -> Documents \cup {None}]
    /\ monitor \in [Tabs -> Revisions \cup {None}]
    /\ saves \subseteq Saves
    /\ texts \in 1..MaxTexts /\ revisions \in Nat /\ faults \in 0..MaxFaults
    /\ known \subseteq Revisions

DocGood(t) ==
    /\ Seen(docs[t].rev) /\ docs[t].text.no <= texts
    /\ docs[t].dirty /\ docs[t].path # None => Newer(t)
    /\ docs[t].name # None /\ session[t] # None /\ session[t].name = docs[t].name => Newer(t)
DocsGood == \A t \in Open : DocGood(t)

SaveGood(s) ==
    /\ Seen(s.base) /\ Seen(s.rev) /\ s.text.no <= texts
    /\ s.tab # None => /\ s.tab \in Open /\ docs[s.tab].dirty
                       /\ docs[s.tab].text # s.text => Newer(s.tab)
                       /\ \A r \in saves : r.tab = s.tab => r = s
SavesGood == \A s \in saves : SaveGood(s)

FilesGood == \A p \in Paths : disk[p] # None => disk[p].text.no <= texts

LEMMA Parts == IInv => MemoryTyped /\ DocsGood /\ SavesGood /\ FilesGood
BY DEF IInv, MemoryTyped, DocsGood, DocGood, SavesGood, SaveGood, FilesGood, TypeOK,
       RevisionsKnown, TextsCounted, TabsNotOlder, Open

\* Steps that leave what the session and the snapshots say alone, and no draft behind.
Quiet ==
    /\ UNCHANGED <<snapshots, session, starts, doubtful, left>>
    /\ known \subseteq known' /\ texts <= texts'
Aside == docs' = docs /\ active' = active /\ run' = run /\ (saves = {} => saves' = {})
Handled ==
    /\ UI /\ active' \in Open'
    /\ run' = run \/ \E quit \in BOOLEAN : run' = Process("persist", Open', quit)

LEMMA PersistBegins ==
    ASSUME NEW quit \in BOOLEAN, run' = Process("persist", Open', quit)
    PROVE  /\ run' \in Processes /\ run'.phase = "persist" /\ run'.todo = Open'
           /\ run'.draft = NoTabs /\ run'.quit = quit
BY DEF Process, Processes, NoTabs, Open

LEMMA QuietStep ==
    ASSUME IInv, Quiet, Aside \/ Handled, MemoryTyped', DocsGood', SavesGood', FilesGood'
    PROVE  IInv'
<1>1. TypeOK'
  <2>1. active' \in Open' \cup {None} /\ (active' = None <=> run'.phase \in {"down", "starting"})
        /\ (active' = None => Open' = {} /\ saves' = {})
    <3>1. CASE Aside
      BY <3>1 DEF Aside, IInv, TypeOK, Open
    <3>2. CASE Handled
      <4>1. active' # None
        BY <3>2, Constants DEF Handled, Open
      <4>2. run'.phase \in {"up", "persist"}
        BY <3>2, PersistBegins DEF Handled, UI
      <4> QED BY <4>1, <4>2, <3>2 DEF Handled
    <3> QED BY <3>1, <3>2
  <2>2. run' \in Processes
    BY PersistBegins DEF Aside, Handled, IInv, TypeOK
  <2> QED BY <2>1, <2>2 DEF Quiet, IInv, TypeOK, MemoryTyped
<1>2. PersistUnderWay'
  <2>1. CASE Aside
    BY <2>1 DEF Aside, Quiet, IInv, PersistUnderWay, DraftOf, Open, Named
  <2>2. CASE Handled /\ run' = run
    BY <2>2, Constants DEF Handled, UI, IInv, PersistUnderWay, NoTabs
  <2>3. CASE \E quit \in BOOLEAN : run' = Process("persist", Open', quit)
    BY <2>3, PersistBegins DEF PersistUnderWay, NoTabs, Open
  <2> QED BY <2>1, <2>2, <2>3 DEF Handled
<1>3. (\A t \in Tabs : run.draft[t] # None => Seen(run.draft[t].base))'
  <2>1. CASE run' = run
    BY <2>1 DEF Quiet, IInv, RevisionsKnown, Seen
  <2>2. CASE \E quit \in BOOLEAN : run' = Process("persist", Open', quit)
    BY <2>2, PersistBegins DEF NoTabs
  <2> QED BY <2>1, <2>2 DEF Aside, Handled
<1>4. RevisionsKnown'
  BY <1>3 DEF RevisionsKnown, Quiet, IInv, DocsGood, DocGood, SavesGood, SaveGood, Seen, Open
<1>5. TextsCounted'
  <2>1. \A t \in Tabs : session'[t] # None => session'[t].text.no <= texts'
    BY EntryFields DEF Quiet, IInv, TextsCounted, TypeOK, MemoryTyped
  <2>2. \A n \in Names : snapshots'[n] # None => snapshots'[n].text.no <= texts'
    BY SnapshotFields DEF Quiet, IInv, TextsCounted, TypeOK, MemoryTyped
  <2> QED BY <2>1, <2>2 DEF TextsCounted, DocsGood, DocGood, SavesGood, SaveGood, FilesGood, Open
<1>6. KeptTextOnDisk'
  BY DEF IInv, KeptTextOnDisk, Quiet
<1>7. TabsNotOlder'
  BY DEF TabsNotOlder, DocsGood, DocGood, SavesGood, SaveGood
<1>8. LeftIsKept'
  <2>1. CASE run'.phase = run.phase
    BY <2>1 DEF IInv, LeftIsKept, Quiet
  <2>2. CASE UI
    BY <2>2 DEF IInv, LeftIsKept, Quiet, UI
  <2> QED BY <2>1, <2>2 DEF Aside, Handled
<1> QED BY <1>1, <1>2, <1>4, <1>5, <1>6, <1>7, <1>8 DEF IInv
-----------------------------------------------------------------------------
(* The documents that come into the tabs *)

LEMMA LoadedType ==
    ASSUME MemoryTyped, NEW p \in Paths, disk[p] # None
    PROVE  /\ Loaded(p) \in Documents /\ Loaded(p).path = p /\ Loaded(p).rev = disk[p]
           /\ Loaded(p).text = disk[p].text /\ Loaded(p).name = None /\ Loaded(p).dirty = FALSE
<1>1. disk[p] \in Revisions
  BY DEF MemoryTyped
<1>2. disk[p].text \in Texts
  BY <1>1, RevisionFields
<1> QED BY <1>1, <1>2 DEF Loaded, Document, Documents

LEMMA UntitledType ==
    ASSUME NEW i \in Ids
    PROVE  /\ Untitled(i) \in Documents /\ Untitled(i) # None
           /\ Untitled(i).path = None /\ Untitled(i).rev = None
           /\ Untitled(i).text = Blank /\ Untitled(i).name = i /\ Untitled(i).dirty = FALSE
<1>1. Untitled(i) \in Documents
  BY BlankType, Constants DEF Untitled, Document, Documents
<1>2. Untitled(i) # None
  BY <1>1, Constants
<1> QED BY <1>1, <1>2 DEF Untitled, Document

\* hydrate_stub_document leaves a tab as it is, or replaces an empty text by its file's.
LEMMA HydratedIs ==
    ASSUME MemoryTyped, NEW doc \in Documents
    PROVE  /\ Hydrated(doc) \in Documents /\ Hydrated(doc).dirty = doc.dirty
           /\ \/ Hydrated(doc) = doc
              \/ /\ doc.path # None /\ doc.text = Blank
                 /\ doc.path \in Paths /\ disk[doc.path] # None
                 /\ Hydrated(doc).path = doc.path /\ Hydrated(doc).name = None
                 /\ Hydrated(doc).rev = disk[doc.path]
                 /\ Hydrated(doc).text = disk[doc.path].text
<1> DEFINE stub == doc.path # None /\ doc.text = Blank /\ disk[doc.path] # None
<1>1. CASE ~stub
  BY <1>1 DEF Hydrated
<1>2. CASE stub
  <2>1. doc.path \in Paths /\ doc.dirty \in BOOLEAN
    BY <1>2, DocumentFields
  <2>2. Loaded(doc.path) \in Documents
    BY <2>1, <1>2, LoadedType
  <2> DEFINE file == Loaded(doc.path)
  <2>3. Hydrated(doc) = [file EXCEPT !.dirty = doc.dirty]
    BY <1>2 DEF Hydrated
  <2>4. file.path = doc.path /\ file.rev = disk[doc.path] /\ file.text = disk[doc.path].text
        /\ file.name = None
    BY <2>1, <1>2, LoadedType
  <2> HIDE DEF file
  <2> QED BY <1>2, <2>1, <2>2, <2>3, <2>4, DirtyKept DEF file
<1> QED BY <1>1, <1>2

LEMMA SeenInType ==
    ASSUME NEW tabs \in [Tabs -> Documents \cup {None}]
    PROVE  /\ SeenIn(tabs) \subseteq Revisions
           /\ \A t \in Tabs : tabs[t] # None /\ tabs[t].rev # None
                             /\ tabs[t].rev.text = tabs[t].text => tabs[t].rev \in SeenIn(tabs)
BY DocumentFields DEF SeenIn

\* A name untitled_id gives is in no entry of the session, and in no tab.
LEMMA NewNameIsNew ==
    ASSUME NEW i, NewName(i)
    PROVE  /\ i \in Ids /\ \A t \in Tabs : session[t] # None => session[t].name # i
BY DEF NewName, InUse
-----------------------------------------------------------------------------
(* The user's tabs *)

LEMMA DocStays ==
    ASSUME IInv, Quiet, MemoryTyped', NEW t \in Tabs, docs[t] # None, docs'[t] = docs[t]
    PROVE  DocGood(t)'
<1>1. DocGood(t) /\ docs[t] \in Documents /\ docs[t].text.no \in Nat
  BY Parts, DocumentFields DEF DocsGood, Open, MemoryTyped
<1>2. docs'[t].text.no <= texts'
  BY <1>1, Parts DEF Quiet, MemoryTyped, DocGood
<1> QED BY <1>1, <1>2 DEF DocGood, Quiet, Newer, Seen

\* What a save was prepared with stays known.
LEMMA SaveSeen ==
    ASSUME IInv, Quiet, MemoryTyped', NEW s \in saves
    PROVE  Seen(s.base)' /\ Seen(s.rev)' /\ s.text.no <= texts' /\ s \in Saves
<1>1. s \in Saves /\ SaveGood(s)
  BY Parts DEF SavesGood, MemoryTyped
<1>2. s.text.no \in Nat
  BY <1>1, TextType DEF Saves
<1> QED BY <1>1, <1>2, Parts DEF SaveGood, Quiet, Seen, MemoryTyped

LEMMA HydratedIsGood ==
    ASSUME IInv, Quiet, MemoryTyped', NEW t \in Tabs, docs[t] # None,
           docs'[t] = Hydrated(docs[t]), known' = known \cup SeenIn(docs')
    PROVE  /\ DocGood(t)' /\ docs'[t].dirty = docs[t].dirty
           /\ docs'[t].text # docs[t].text /\ docs[t].dirty => Newer(t)'
<1> DEFINE doc == docs[t]
<1>1. MemoryTyped /\ doc \in Documents /\ DocGood(t)
  BY Parts DEF DocsGood, Open, MemoryTyped
<1>2. CASE Hydrated(doc) = doc
  BY <1>2, DocStays
<1>3. CASE Hydrated(doc) # doc
  <2>1. /\ doc.path \in Paths /\ doc.path # None /\ disk[doc.path] # None /\ doc.text = Blank
        /\ docs'[t].path = doc.path /\ docs'[t].name = None /\ docs'[t].rev = disk[doc.path]
        /\ docs'[t].text = disk[doc.path].text /\ docs'[t].dirty = doc.dirty
        /\ docs'[t] \in Documents
    BY <1>1, <1>3, HydratedIs
  <2>2. disk[doc.path] \in Revisions /\ docs'[t].text.no \in Nat
    BY <2>1, <1>1, RevisionFields DEF MemoryTyped
  <2>3. Seen(docs[t].rev)'
    <3>1. docs' \in [Tabs -> Documents \cup {None}] /\ docs'[t] # None
      BY <2>1, Constants DEF MemoryTyped
    <3>2. docs'[t].rev # None
      BY <2>1, <2>2, Constants
    <3> QED BY <2>1, <3>1, <3>2, SeenInType DEF Seen
  <2>4. docs'[t].text.no <= texts'
    BY <2>1, <2>2, <1>1, Parts DEF FilesGood, Quiet, MemoryTyped
  <2>5. doc.dirty => Newer(t)'
    <3>1. SUFFICES ASSUME doc.dirty, session[t] # None, session[t].name # None, t \notin doubtful
                   PROVE  docs'[t].text.no >= session[t].text.no
      BY DEF Newer, Quiet
    <3>2. 0 >= session[t].text.no
      BY <1>1, <2>1, <3>1, BlankType DEF DocGood, Newer
    <3>3. session[t].text.no \in Nat
      BY <3>1, EntryFields DEF IInv, TypeOK
    <3> QED BY <2>2, <3>2, <3>3
  <2> QED BY <2>1, <2>3, <2>4, <2>5, <1>1 DEF DocGood
<1> QED BY <1>2, <1>3

\* A tab as a user's action leaves it.
Same(u, tabs) == docs[u] # None /\ tabs[u] = docs[u]
Woken(u, tabs) == docs[u] # None /\ tabs[u] = Hydrated(docs[u])
Fresh(u, tabs) ==
    \/ \E p \in Paths : disk[p] # None /\ tabs[u] = Loaded(p)
    \/ \E i \in Ids : NewName(i) /\ tabs[u] = Untitled(i)

LEMMA FreshIsGood ==
    ASSUME IInv, Quiet, MemoryTyped', NEW t \in Tabs, Fresh(t, docs'),
           known' = known \cup SeenIn(docs')
    PROVE  DocGood(t)' /\ docs'[t] # None
<1>1. MemoryTyped /\ FilesGood
  BY Parts
<1>2. ASSUME NEW p \in Paths, disk[p] # None, docs'[t] = Loaded(p)
      PROVE  DocGood(t)' /\ docs'[t] # None
  <2>1. /\ docs'[t] \in Documents /\ docs'[t].rev = disk[p] /\ docs'[t].text = disk[p].text
        /\ docs'[t].name = None /\ docs'[t].dirty = FALSE
    BY <1>1, <1>2, LoadedType
  <2>2. docs'[t] # None /\ docs'[t].text.no \in Nat /\ docs'[t].rev # None
    BY <2>1, <1>2, DocumentFields
  <2>3. docs'[t].rev \in SeenIn(docs')
    BY <2>1, <2>2, SeenInType DEF MemoryTyped
  <2>4. docs'[t].text.no <= texts'
    BY <2>1, <2>2, <1>1, <1>2 DEF FilesGood, Quiet, MemoryTyped
  <2> QED BY <2>1, <2>2, <2>3, <2>4 DEF DocGood, Seen
<1>3. ASSUME NEW i \in Ids, NewName(i), docs'[t] = Untitled(i)
      PROVE  DocGood(t)' /\ docs'[t] # None
  <2>1. /\ docs'[t] \in Documents /\ docs'[t].rev = None /\ docs'[t].text.no = 0
        /\ docs'[t].name = i /\ docs'[t].dirty = FALSE
    BY <1>3, UntitledType, BlankType
  <2>2. docs'[t] # None /\ 0 <= texts'
    BY <2>1, Constants DEF MemoryTyped
  <2> QED BY <2>1, <2>2, <1>3, NewNameIsNew DEF DocGood, Seen, Quiet
<1> QED BY <1>2, <1>3 DEF Fresh

LEMMA ShowsStep ==
    ASSUME IInv, UI, NEW tabs \in [Tabs -> Documents \cup {None}], NEW a \in Tabs,
           tabs[a] # None, Shows(tabs, a), faults' \in 0..MaxFaults, saves' \subseteq Saves,
           \A u \in Tabs : tabs[u] # None => Same(u, tabs) \/ Woken(u, tabs) \/ Fresh(u, tabs),
           \A s \in saves' : \E r \in saves : s.base = r.base /\ s.rev = r.rev /\ s.text = r.text,
           \A s \in saves' : s.tab # None =>
               s \in saves /\ (Same(s.tab, tabs) \/ Woken(s.tab, tabs))
    PROVE  IInv'
<1>1. Quiet /\ docs' = tabs /\ known' = known \cup SeenIn(docs') /\ MemoryTyped
  BY Parts DEF Shows, Quiet, files, MemoryTyped
<1>2. MemoryTyped'
  <2>1. monitor' \in [Tabs -> Revisions \cup {None}]
    BY <1>1 DEF Shows, MemoryTyped
  <2>2. known' \subseteq Revisions
    BY <1>1, SeenInType DEF MemoryTyped
  <2> QED BY <1>1, <2>1, <2>2 DEF Shows, MemoryTyped, files
<1>3. DocsGood'
  <2>1. SUFFICES ASSUME NEW t \in Tabs, tabs[t] # None
                 PROVE  DocGood(t)'
    BY <1>1 DEF DocsGood, Open
  <2> QED BY <1>1, <1>2, <2>1, DocStays, HydratedIsGood, FreshIsGood DEF Same, Woken, Fresh
<1>4. SavesGood'
  <2>1. SUFFICES ASSUME NEW s \in saves'
                 PROVE  SaveGood(s)'
    BY DEF SavesGood
  <2>2. Seen(s.base)' /\ Seen(s.rev)' /\ s.text.no <= texts'
    <3>1. PICK r \in saves : s.base = r.base /\ s.rev = r.rev /\ s.text = r.text
      OBVIOUS
    <3> QED BY <3>1, <1>1, <1>2, SaveSeen DEF Seen
  <2>3. ASSUME s.tab # None
        PROVE  /\ s.tab \in Open' /\ docs'[s.tab].dirty
               /\ docs'[s.tab].text # s.text => Newer(s.tab)'
               /\ \A r \in saves' : r.tab = s.tab => r = s
    <3>1. s \in saves /\ SaveGood(s) /\ s.tab \in Tabs /\ docs[s.tab] # None
      BY <2>3, Parts DEF SavesGood, SaveGood, Open
    <3>2. \A r \in saves' : r.tab = s.tab => r = s
      BY <2>3, <3>1 DEF SaveGood
    <3>3. CASE Same(s.tab, tabs)
      <4>1. docs'[s.tab] = docs[s.tab] /\ docs'[s.tab] # None
        BY <1>1, <3>3 DEF Same
      <4> QED BY <2>3, <3>1, <3>2, <4>1, <1>1 DEF SaveGood, Newer, Quiet, Open
    <3>4. CASE Woken(s.tab, tabs)
      <4>1. docs'[s.tab] = Hydrated(docs[s.tab]) /\ docs[s.tab].dirty
        BY <1>1, <2>3, <3>1, <3>4 DEF Woken, SaveGood
      <4>2. docs'[s.tab] # None
        BY <3>1, <4>1, <1>1, HydratedIs, Constants DEF MemoryTyped
      <4>3. /\ docs'[s.tab].dirty
            /\ docs'[s.tab].text # docs[s.tab].text => Newer(s.tab)'
        BY <1>1, <1>2, <3>1, <4>1, HydratedIsGood
      <4>4. docs'[s.tab].text = docs[s.tab].text /\ docs'[s.tab].text # s.text => Newer(s.tab)'
        BY <2>3, <3>1, <1>1 DEF SaveGood, Newer, Quiet
      <4> QED BY <3>1, <3>2, <4>2, <4>3, <4>4 DEF Open
    <3> QED BY <2>3, <3>1, <3>3, <3>4
  <2> QED BY <2>2, <2>3 DEF SaveGood
<1>5. FilesGood'
  BY Parts DEF FilesGood, Shows, files
<1>6. Handled
  BY <1>1 DEF Handled, Shows, PersistNow, Open
<1> QED BY <1>1, <1>2, <1>3, <1>4, <1>5, <1>6, QuietStep

LEMMA NewTabStep ==
    ASSUME IInv, NEW t \in Tabs, NewTab(t)
    PROVE  IInv'
<1>1. PICK i \in Ids : NewName(i) /\ Shows([docs EXCEPT ![t] = Untitled(i)], t)
  BY DEF NewTab
<1> DEFINE tabs == [docs EXCEPT ![t] = Untitled(i)]
<1>2. /\ tabs \in [Tabs -> Documents \cup {None}] /\ tabs[t] = Untitled(i)
      /\ \A u \in Tabs \ {t} : tabs[u] = docs[u]
  BY Parts, UntitledType DEF MemoryTyped
<1> HIDE DEF tabs
<1>3. Shows(tabs, t) /\ UI /\ docs[t] = None /\ UNCHANGED <<saves, faults>>
  BY <1>1 DEF tabs, NewTab, Free
<1>4. tabs[t] # None /\ Fresh(t, tabs)
  BY <1>1, <1>2, UntitledType DEF Fresh
<1>5. \A s \in saves : s.tab # None => s.tab \in Tabs \ {t} /\ docs[s.tab] # None
  BY <1>3, Parts DEF SavesGood, SaveGood, Open
<1> QED BY <1>2, <1>3, <1>4, <1>5, Parts, ShowsStep DEF Same, MemoryTyped

LEMMA OpenFileStep ==
    ASSUME IInv, NEW t \in Tabs, NEW p \in Paths, OpenFile(t, p)
    PROVE  IInv'
<1> DEFINE tabs == [docs EXCEPT ![t] = Loaded(p)]
<1>1. disk[p] # None /\ Loaded(p) \in Documents /\ Loaded(p) # None
  BY Parts, LoadedType, Constants, ZenonT(60) DEF OpenFile
<1>2. /\ tabs \in [Tabs -> Documents \cup {None}] /\ tabs[t] = Loaded(p)
      /\ \A u \in Tabs \ {t} : tabs[u] = docs[u]
  BY <1>1, Parts DEF MemoryTyped
<1>3. Shows(tabs, t) /\ UI /\ docs[t] = None /\ UNCHANGED <<saves, faults>>
  BY DEF OpenFile, Free
<1> HIDE DEF tabs
<1>4. tabs[t] # None /\ Fresh(t, tabs)
  BY <1>1, <1>2 DEF Fresh
<1>5. \A s \in saves : s.tab # None => s.tab \in Tabs \ {t} /\ docs[s.tab] # None
  BY <1>3, Parts DEF SavesGood, SaveGood, Open
<1> QED BY <1>2, <1>3, <1>4, <1>5, Parts, ShowsStep DEF Same, MemoryTyped

LEMMA ActivateStep ==
    ASSUME IInv, NEW t \in Tabs, Activate(t)
    PROVE  IInv'
<1> DEFINE tabs == [docs EXCEPT ![t] = Hydrated(@)]
<1>1. docs[t] # None /\ Hydrated(docs[t]) \in Documents /\ Hydrated(docs[t]) # None
  BY Parts, HydratedIs, Constants DEF Activate, Open, MemoryTyped
<1>2. /\ tabs \in [Tabs -> Documents \cup {None}] /\ tabs[t] = Hydrated(docs[t])
      /\ \A u \in Tabs \ {t} : tabs[u] = docs[u]
  BY <1>1, Parts DEF MemoryTyped
<1>3. Shows(tabs, t) /\ UI /\ UNCHANGED <<saves, faults>>
  BY DEF Activate
<1> HIDE DEF tabs
<1>4. \A s \in saves : s.tab # None => s.tab \in Tabs /\ docs[s.tab] # None
  BY <1>3, Parts DEF SavesGood, SaveGood, Open
<1> QED BY <1>1, <1>2, <1>3, <1>4, Parts, ShowsStep DEF Same, Woken, MemoryTyped

\* The saves of a closed tab go on, for nobody.
LEMMA OrphanedSaves ==
    ASSUME IInv, NEW t \in Tabs
    PROVE  /\ Orphaned(t) \subseteq Saves
           /\ \A s \in Orphaned(t) : \E r \in saves :
                 s.base = r.base /\ s.rev = r.rev /\ s.text = r.text
           /\ \A s \in Orphaned(t) : s.tab # None =>
                 s \in saves /\ s.tab \in Tabs \ {t} /\ docs[s.tab] # None
<1>1. saves \subseteq Saves
  BY Parts DEF MemoryTyped
<1>2. \A r \in saves :
         /\ [r EXCEPT !.tab = None] \in Saves /\ [r EXCEPT !.tab = None].tab = None
         /\ [r EXCEPT !.tab = None].base = r.base /\ [r EXCEPT !.tab = None].rev = r.rev
         /\ [r EXCEPT !.tab = None].text = r.text
  BY <1>1 DEF Saves
<1>3. \A s \in Orphaned(t) : \E r \in saves :
         \/ s = r /\ r.tab # t
         \/ s = [r EXCEPT !.tab = None]
  BY DEF Orphaned
<1>4. \A s \in saves : s.tab # None => s.tab \in Tabs /\ docs[s.tab] # None
  BY Parts DEF SavesGood, SaveGood, Open
<1> QED BY <1>1, <1>2, <1>3, <1>4, ZenonT(60)

LEMMA CloseStep ==
    ASSUME IInv, NEW t \in Tabs, Close(t)
    PROVE  IInv'
<1>1. /\ UI /\ docs[t] # None /\ saves' = Orphaned(t) /\ faults' \in 0..MaxFaults
      /\ active \in Open
  BY Parts, Constants DEF Close, Open, MemoryTyped, IInv, TypeOK, UI
<1>2. CASE \E u \in Open \ {t} :
             Shows([docs EXCEPT ![t] = None, ![u] = IF active = t THEN Hydrated(@) ELSE @],
                   IF active = t THEN u ELSE active)
  <2>1. PICK u \in Open \ {t} :
             Shows([docs EXCEPT ![t] = None, ![u] = IF active = t THEN Hydrated(@) ELSE @],
                   IF active = t THEN u ELSE active)
    BY <1>2
  <2> DEFINE shown == IF active = t THEN Hydrated(docs[u]) ELSE docs[u]
             tabs == [docs EXCEPT ![t] = None, ![u] = IF active = t THEN Hydrated(@) ELSE @]
             next == IF active = t THEN u ELSE active
  <2>2. u \in Tabs \ {t} /\ docs[u] # None /\ shown \in Documents
    BY Parts, HydratedIs DEF Open, MemoryTyped
  <2>3. /\ tabs \in [Tabs -> Documents \cup {None}] /\ tabs[t] = None /\ tabs[u] = shown
        /\ \A v \in Tabs \ {t, u} : tabs[v] = docs[v]
    BY <2>2, Parts DEF MemoryTyped
  <2>4. Same(u, tabs) \/ Woken(u, tabs)
    BY <2>2, <2>3 DEF Same, Woken
  <2>5. Shows(tabs, next)
    BY <2>1
  <2> HIDE DEF tabs, shown
  <2>6. next \in Tabs /\ tabs[next] # None
    BY <1>1, <2>2, <2>3, Constants DEF Open
  <2> HIDE DEF next
  <2>7. \A v \in Tabs : tabs[v] # None => Same(v, tabs) \/ Woken(v, tabs) \/ Fresh(v, tabs)
    BY <2>3, <2>4 DEF Same
  <2>8. \A s \in saves' : s.tab # None => s \in saves /\ (Same(s.tab, tabs) \/ Woken(s.tab, tabs))
    BY <1>1, <2>3, <2>4, OrphanedSaves DEF Same
  <2> QED BY <1>1, <2>3, <2>5, <2>6, <2>7, <2>8, OrphanedSaves, ShowsStep
<1>3. CASE /\ Open = {t}
           /\ \E i \in Ids : NewName(i) /\ Shows([docs EXCEPT ![t] = Untitled(i)], t)
  <2>1. PICK i \in Ids : NewName(i) /\ Shows([docs EXCEPT ![t] = Untitled(i)], t)
    BY <1>3
  <2> DEFINE tabs == [docs EXCEPT ![t] = Untitled(i)]
  <2>2. /\ tabs \in [Tabs -> Documents \cup {None}] /\ tabs[t] = Untitled(i)
        /\ \A u \in Tabs \ {t} : tabs[u] = docs[u]
    BY Parts, UntitledType DEF MemoryTyped
  <2>3. Shows(tabs, t)
    BY <2>1
  <2> HIDE DEF tabs
  <2>4. tabs[t] # None /\ Fresh(t, tabs)
    BY <2>1, <2>2, UntitledType DEF Fresh
  <2> QED BY <1>1, <2>2, <2>3, <2>4, OrphanedSaves, ShowsStep DEF Same
<1> QED BY <1>2, <1>3 DEF Close
-----------------------------------------------------------------------------
(* Steps that change one tab, or none *)

LEMMA OneTabStep ==
    ASSUME IInv, Quiet, UI, UNCHANGED active, NEW t \in Tabs, docs[t] # None,
           NEW doc \in Documents, docs' = [docs EXCEPT ![t] = doc], saves' \subseteq saves,
           MemoryTyped', FilesGood', DocGood(t)', run' = run \/ PersistNow,
           \A s \in saves' : s.tab = t => doc.dirty /\ (doc.text # s.text => Newer(t)')
    PROVE  IInv'
<1>1. /\ docs'[t] = doc /\ docs'[t] # None /\ docs \in [Tabs -> Documents \cup {None}]
      /\ \A u \in Tabs \ {t} : docs'[u] = docs[u]
  BY Parts, Constants DEF MemoryTyped
<1>2. DocsGood'
  <2>1. SUFFICES ASSUME NEW u \in Tabs, docs'[u] # None
                 PROVE  DocGood(u)'
    BY DEF DocsGood, Open
  <2> QED BY <1>1, <2>1, DocStays
<1>3. SavesGood'
  <2>1. SUFFICES ASSUME NEW s \in saves'
                 PROVE  SaveGood(s)'
    BY DEF SavesGood
  <2>2. SaveGood(s) /\ Seen(s.base)' /\ Seen(s.rev)' /\ s.text.no <= texts'
    BY Parts, SaveSeen DEF SavesGood
  <2>3. CASE s.tab = t
    BY <1>1, <2>2, <2>3 DEF SaveGood, Open
  <2>4. CASE s.tab # t
    BY <1>1, <2>2, <2>4 DEF SaveGood, Open, Newer, Quiet
  <2> QED BY <2>3, <2>4
<1>4. active' \in Open'
  BY <1>1 DEF IInv, TypeOK, UI, Open
<1>5. Handled
  BY <1>4 DEF Handled, PersistNow, Open
<1> QED BY <1>2, <1>3, <1>5, QuietStep

LEMMA AsideStep ==
    ASSUME IInv, Quiet, docs' = docs, Aside \/ Handled, MemoryTyped', SavesGood', FilesGood'
    PROVE  IInv'
<1>1. DocsGood'
  BY DocStays DEF DocsGood, Open
<1> QED BY <1>1, QuietStep

\* The saves that remain are as good as before.
LEMMA SavesStay ==
    ASSUME IInv, Quiet, MemoryTyped', docs' = docs, saves' \subseteq saves
    PROVE  SavesGood'
BY Parts, SaveSeen DEF SavesGood, SaveGood, Newer, Quiet, Open

LEMMA EditStep ==
    ASSUME IInv, NEW t \in Tabs, Edit(t)
    PROVE  IInv'
<1>1. PICK i \in Names :
         docs' = [docs EXCEPT ![t].text = Typed(t), ![t].dirty = TRUE, ![t].name = i]
  BY DEF Edit
<1> DEFINE doc == [docs[t] EXCEPT !.text = Typed(t), !.dirty = TRUE, !.name = i]
<1>2. /\ docs[t] \in Documents /\ docs[t] # None /\ MemoryTyped /\ DocGood(t)
      /\ UI /\ UNCHANGED <<active, saves, run>> /\ FilesGood
  BY Parts, Constants DEF Edit, IInv, TypeOK, UI, Open, MemoryTyped, DocsGood
<1>3. Typed(t) \in Texts /\ Typed(t).no = texts + 1
  BY <1>2, Constants DEF Edit, Typed, Texts, MemoryTyped
<1>4. /\ doc \in Documents /\ doc.text = Typed(t) /\ doc.dirty /\ doc.rev = docs[t].rev
  BY <1>2, <1>3 DEF Documents
<1>5. docs' = [docs EXCEPT ![t] = doc]
  BY <1>1, <1>2 DEF MemoryTyped
<1> HIDE DEF doc
<1>6. Quiet
  BY <1>2 DEF Edit, Quiet, files, history, MemoryTyped
<1>7. MemoryTyped'
  <2>1. docs' \in [Tabs -> Documents \cup {None}]
    BY <1>2, <1>4, <1>5 DEF MemoryTyped
  <2>2. texts' \in 1..MaxTexts
    BY <1>2, Constants DEF Edit, MemoryTyped
  <2> QED BY <1>2, <2>1, <2>2 DEF Edit, files, history, MemoryTyped
<1>8. FilesGood'
  BY <1>2, RevisionFields DEF FilesGood, Edit, files, MemoryTyped
<1>9. docs'[t] = doc
  BY <1>2, <1>5 DEF MemoryTyped
<1>10. Newer(t)'
  <2>1. SUFFICES ASSUME session[t] # None
                 PROVE  texts + 1 >= session[t].text.no
    BY <1>3, <1>4, <1>6, <1>9 DEF Newer, Quiet
  <2>2. session[t].text.no <= texts /\ session[t].text.no \in Nat /\ texts \in Nat
    BY <2>1, <1>2, EntryFields DEF IInv, TextsCounted, TypeOK, MemoryTyped
  <2> QED BY <2>2
<1>11. DocGood(t)'
  BY <1>2, <1>3, <1>4, <1>6, <1>9, <1>10 DEF DocGood, Quiet, Seen, Edit, MemoryTyped
<1> QED BY <1>2, <1>4, <1>5, <1>6, <1>7, <1>8, <1>10, <1>11, OneTabStep

LEMMA SaveStep ==
    ASSUME IInv, NEW t \in Tabs, Save(t)
    PROVE  IInv'
<1>1. PICK p \in Paths :
         saves' = saves \cup {[tab |-> t, path |-> p, text |-> docs[t].text,
                               base |-> docs[t].rev, rev |-> None]}
  BY DEF Save
<1>2. /\ docs[t] \in Documents /\ docs[t] # None /\ MemoryTyped /\ DocGood(t) /\ FilesGood
      /\ docs[t].dirty /\ UI
  BY Parts, Constants DEF Save, Open, MemoryTyped, DocsGood
<1>3. \E s \in Saves : s = [tab |-> t, path |-> p, text |-> docs[t].text,
                            base |-> docs[t].rev, rev |-> None]
  BY <1>2, DocumentFields DEF Saves
<1>4. PICK s \in Saves : s = [tab |-> t, path |-> p, text |-> docs[t].text,
                             base |-> docs[t].rev, rev |-> None]
  BY <1>3
<1>5. /\ s.tab = t /\ s.text = docs[t].text /\ s.base = docs[t].rev /\ s.rev = None
      /\ saves' = saves \cup {s} /\ \A r \in saves : r.tab # t
  BY <1>1, <1>4 DEF Save
<1>6. Quiet /\ docs' = docs
  BY <1>2 DEF Save, Quiet, files, spent, history, MemoryTyped
<1>7. Handled
  BY <1>2, <1>6 DEF Handled, Save, IInv, TypeOK, UI, Open
<1>8. MemoryTyped' /\ FilesGood'
  BY <1>2, <1>4, <1>5 DEF Save, files, spent, history, MemoryTyped, FilesGood
<1>9. SaveGood(s)'
  <2>1. Seen(s.base)' /\ Seen(s.rev)' /\ s.text.no <= texts'
    BY <1>2, <1>5 DEF DocGood, Seen, Save, spent, history
  <2>2. s.tab \in Open' /\ docs'[s.tab].dirty /\ docs'[s.tab].text = s.text
    BY <1>2, <1>5, <1>6 DEF Open
  <2> QED BY <2>1, <2>2, <1>5 DEF SaveGood
<1>10. ASSUME NEW r \in saves
       PROVE  SaveGood(r)'
  BY <1>5, <1>6, <1>8, SaveSeen, Parts DEF SavesGood, SaveGood, Newer, Quiet, Open
<1>11. SavesGood'
  BY <1>5, <1>9, <1>10 DEF SavesGood
<1> QED BY <1>6, <1>7, <1>8, <1>11, AsideStep

LEMMA WorkerSavesStep ==
    ASSUME IInv, NEW s \in saves, WorkerSaves(s)
    PROVE  IInv'
<1>1. /\ s \in Saves /\ s.text \in Texts /\ s.rev = None /\ MemoryTyped /\ FilesGood
      /\ SaveGood(s) /\ s.path \in Paths
  BY Parts DEF WorkerSaves, MemoryTyped, SavesGood, Saves
<1>2. CASE disk[s.path] # s.base
  <2>1. Quiet /\ Aside /\ saves' \subseteq saves
    BY <1>1, <1>2 DEF WorkerSaves, Quiet, Aside, MemoryTyped
  <2>2. MemoryTyped' /\ FilesGood'
    BY <1>1, <1>2 DEF WorkerSaves, MemoryTyped, FilesGood
  <2> QED BY <2>1, <2>2, SavesStay, AsideStep DEF Aside
<1>3. CASE disk[s.path] = s.base
  <2>1. \E rev \in Revisions : rev = Revision(s.text) /\ rev.text = s.text
    BY <1>1, RevisionType DEF MemoryTyped
  <2>2. PICK rev \in Revisions : rev = Revision(s.text) /\ rev.text = s.text
    BY <2>1
  <2>3. \E n \in Saves : /\ n = [s EXCEPT !.rev = rev] /\ n.tab = s.tab /\ n.text = s.text
                        /\ n.base = s.base /\ n.rev = rev
    <3> DEFINE n == [s EXCEPT !.rev = rev]
    <3>1. /\ n \in Saves /\ n.tab = s.tab /\ n.text = s.text /\ n.base = s.base /\ n.rev = rev
      BY <1>1 DEF Saves
    <3> QED BY <3>1
  <2>4. PICK n \in Saves : /\ n = [s EXCEPT !.rev = rev] /\ n.tab = s.tab /\ n.text = s.text
                          /\ n.base = s.base /\ n.rev = rev
    BY <2>3
  <2>5. /\ saves' = (saves \ {s}) \cup {n} /\ known' = known \cup {rev}
        /\ disk' = [disk EXCEPT ![s.path] = rev] /\ revisions' = revisions + 1
        /\ monitor' = [t \in Tabs |-> IF monitor[t] # None /\ docs[t].path = s.path THEN rev
                                      ELSE monitor[t]]
    BY <1>3, <2>2, <2>4 DEF WorkerSaves
  <2>6. Quiet /\ Aside
    BY <1>1, <2>5 DEF WorkerSaves, Quiet, Aside, MemoryTyped
  <2>7. MemoryTyped'
    <3>1. monitor' \in [Tabs -> Revisions \cup {None}]
      BY <1>1, <2>5 DEF MemoryTyped
    <3> QED BY <1>1, <2>5, <3>1 DEF WorkerSaves, MemoryTyped
  <2>8. FilesGood'
    BY <1>1, <2>2, <2>5 DEF FilesGood, SaveGood, WorkerSaves, MemoryTyped
  <2>9. SaveGood(n)'
    <3>1. Seen(n.base)' /\ Seen(n.rev)' /\ n.text.no <= texts'
      BY <1>1, <2>4, <2>5 DEF SaveGood, Seen, WorkerSaves
    <3> QED BY <1>1, <2>4, <2>5, <2>6, <3>1 DEF SaveGood, Quiet, Aside, Newer, Open
  <2>10. ASSUME NEW r \in saves \ {s}
         PROVE  SaveGood(r)'
    <3>1. SaveGood(r) /\ Seen(r.base)' /\ Seen(r.rev)' /\ r.text.no <= texts'
      BY <2>6, <2>7, SaveSeen, Parts DEF SavesGood
    <3>2. r.tab # None => r.tab # s.tab
      BY <1>1 DEF SaveGood
    <3> QED BY <2>4, <2>5, <2>6, <3>1, <3>2 DEF SaveGood, Quiet, Aside, Newer, Open
  <2>11. SavesGood'
    BY <2>5, <2>9, <2>10 DEF SavesGood
  <2> QED BY <2>6, <2>7, <2>8, <2>11, AsideStep DEF Aside
<1> QED BY <1>2, <1>3

LEMMA CompletedStep ==
    ASSUME IInv, NEW s \in saves, Completed(s)
    PROVE  IInv'
<1>1. /\ s \in Saves /\ MemoryTyped /\ FilesGood /\ SaveGood(s) /\ UI /\ s.rev # None
      /\ saves' = saves \ {s} /\ UNCHANGED <<files, active, monitor, spent, history>>
  BY Parts DEF Completed, MemoryTyped, SavesGood
<1>2. Quiet
  BY <1>1 DEF Quiet, files, spent, history, MemoryTyped
<1>3. FilesGood'
  BY <1>1 DEF FilesGood, files, spent
<1>4. CASE s.tab = None
  <2>1. Aside
    BY <1>1, <1>4 DEF Completed, Aside
  <2>2. MemoryTyped'
    BY <1>1, <1>4 DEF Completed, MemoryTyped, files, spent, history
  <2> QED BY <1>1, <1>2, <1>3, <2>1, <2>2, SavesStay, AsideStep DEF Aside
<1>5. CASE s.tab # None
  <2> DEFINE t == s.tab
             doc == [docs[t] EXCEPT !.path = s.path, !.rev = s.rev,
                                    !.dirty = @ /\ docs[t].text # s.text]
  <2>1. t \in Tabs /\ docs[t] # None /\ docs[t] \in Documents /\ DocGood(t)
    BY <1>1, <1>5, Parts DEF SaveGood, Open, MemoryTyped, DocsGood
  <2>2. /\ doc \in Documents /\ doc.rev = s.rev /\ doc.text = docs[t].text
        /\ doc.name = docs[t].name /\ doc.dirty = (docs[t].dirty /\ docs[t].text # s.text)
    BY <1>1, <2>1 DEF Saves, Documents
  <2>3. docs' = [docs EXCEPT ![t] = doc] /\ PersistNow
    BY <1>1, <1>5, <2>1 DEF Completed, MemoryTyped
  <2> HIDE DEF doc
  <2>4. MemoryTyped' /\ docs'[t] = doc
    BY <1>1, <2>1, <2>2, <2>3 DEF MemoryTyped, files, spent, history
  <2>5. \A r \in saves' : r.tab # t
    BY <1>1, <1>5 DEF SaveGood
  <2>6. /\ doc.rev \in known' \cup {None} /\ doc.text.no <= texts'
        /\ doc.dirty => Newer(t)
        /\ doc.name # None /\ session[t] # None /\ session[t].name = doc.name => Newer(t)
    BY <1>1, <1>5, <2>1, <2>2 DEF SaveGood, DocGood, Seen, history, spent
  <2>7. DocGood(t)'
    <3>1. Newer(t) => Newer(t)'
      BY <1>2, <2>2, <2>4 DEF Newer, Quiet
    <3> QED BY <1>2, <2>4, <2>6, <3>1 DEF DocGood, Quiet, Seen
  <2> QED BY <1>1, <1>2, <1>3, <2>1, <2>2, <2>3, <2>4, <2>5, <2>7, OneTabStep
<1> QED BY <1>4, <1>5
-----------------------------------------------------------------------------
(* The check of a file *)

\* Whatever a check makes of a tab: its revision is the one of its text, an unsaved text is
\* the one it had, and its name is the one it had, a new one or none.
LEMMA CheckedStep ==
    ASSUME IInv, NEW t \in Tabs, Check(t), NEW doc \in Documents,
           docs' = [docs EXCEPT ![t] = doc], FilesGood', revisions' \in Nat,
           disk' \in [Paths -> Revisions \cup {None}],
           monitor' \in [Tabs -> Revisions \cup {None}],
           doc.rev # None => doc.rev.text = doc.text, doc.text.no <= texts,
           doc.dirty /\ doc.path # None => doc.text = docs[t].text /\ docs[t].dirty,
           \/ doc.name = None \/ NewName(doc.name)
           \/ doc.name = docs[t].name /\ doc.text = docs[t].text
    PROVE  IInv'
<1>1. /\ MemoryTyped /\ docs[t] \in Documents /\ docs[t] # None /\ docs[t].path \in Paths
      /\ docs[t].path # None /\ DocGood(t) /\ UI
  BY Parts, DocumentFields DEF Check, Open, MemoryTyped, DocsGood
<1>2. docs'[t] = doc /\ docs'[t] # None /\ docs' \in [Tabs -> Documents \cup {None}]
  BY <1>1, DocumentFields DEF MemoryTyped
<1>3. known \subseteq known' /\ SeenIn(docs') \subseteq known' /\ known' \subseteq Revisions
  <2>1. SeenIn(docs') \subseteq Revisions /\ {disk[docs[t].path]} \ {None} \subseteq Revisions
    BY <1>1, <1>2, SeenInType DEF MemoryTyped
  <2> QED BY <1>1, <2>1 DEF Check, MemoryTyped
<1>4. Quiet
  BY <1>1, <1>3 DEF Check, Quiet, MemoryTyped
<1>5. MemoryTyped'
  BY <1>1, <1>2, <1>3 DEF Check, MemoryTyped
<1>6. Newer(t) /\ doc.text = docs[t].text => Newer(t)'
  BY <1>2, <1>4 DEF Newer, Quiet
<1>7. doc.dirty /\ doc.path # None => Newer(t)'
  BY <1>1, <1>6 DEF DocGood
<1>8. doc.name # None /\ session'[t] # None /\ session'[t].name = doc.name => Newer(t)'
  BY <1>1, <1>4, <1>6, NewNameIsNew DEF DocGood, Quiet
<1>9. doc.rev \in known' \cup {None}
  BY <1>2, <1>3, SeenInType
<1>10. DocGood(t)'
  BY <1>2, <1>7, <1>8, <1>9 DEF DocGood, Seen, Check
<1> QED BY <1>1, <1>4, <1>5, <1>10, OneTabStep DEF Check

LEMMA CheckStep ==
    ASSUME IInv, NEW t \in Tabs, Check(t)
    PROVE  IInv'
<1> DEFINE p == docs[t].path
<1>1. /\ MemoryTyped /\ docs[t] \in Documents /\ docs[t] # None /\ p \in Paths /\ p # None
      /\ DocGood(t) /\ docs[t].text \in Texts /\ UI /\ FilesGood
      /\ disk[p] \in Revisions \cup {None}
  BY Parts, DocumentFields DEF Check, Open, MemoryTyped, DocsGood
<1>2. monitor' = [monitor EXCEPT ![t] = None] \/ monitor' = [monitor EXCEPT ![t] = disk[p]]
      => monitor' \in [Tabs -> Revisions \cup {None}]
  BY <1>1 DEF MemoryTyped
<1>3. UNCHANGED disk => FilesGood' /\ disk' \in [Paths -> Revisions \cup {None}]
  BY <1>1 DEF Check, FilesGood, MemoryTyped
<1>4. CASE Detached(t)
  <2>1. PICK i \in Names :
           /\ NameIfNone(docs[t].name, None, i)
           /\ docs' = [docs EXCEPT ![t].path = None, ![t].rev = None, ![t].dirty = TRUE,
                                   ![t].name = i]
    BY <1>4 DEF Detached
  <2> DEFINE doc == [docs[t] EXCEPT !.path = None, !.rev = None, !.dirty = TRUE, !.name = i]
  <2>2. /\ doc \in Documents /\ doc.path = None /\ doc.rev = None /\ doc.text = docs[t].text
        /\ doc.name = i
    BY <1>1 DEF Documents
  <2>3. docs' = [docs EXCEPT ![t] = doc]
    BY <1>1, <2>1 DEF MemoryTyped
  <2> HIDE DEF doc
  <2>4. doc.name = docs[t].name \/ NewName(doc.name)
    BY <2>1, <2>2 DEF NameIfNone
  <2>5. UNCHANGED <<disk, revisions>> /\ monitor' \in [Tabs -> Revisions \cup {None}]
    BY <1>2, <1>4 DEF Detached
  <2> QED BY <1>1, <1>3, <2>2, <2>3, <2>4, <2>5, CheckedStep DEF DocGood, MemoryTyped
<1>5. CASE Reloaded(t)
  <2> DEFINE doc == Loaded(p)
  <2>1. /\ disk[p] # None /\ docs' = [docs EXCEPT ![t] = doc] /\ UNCHANGED <<disk, revisions>>
        /\ monitor' \in [Tabs -> Revisions \cup {None}]
    BY <1>2, <1>5 DEF Reloaded
  <2>2. /\ doc \in Documents /\ doc.rev = disk[p] /\ doc.text = disk[p].text
        /\ doc.name = None /\ doc.dirty = FALSE
    BY <1>1, <2>1, LoadedType
  <2> HIDE DEF doc
  <2>3. doc.text.no <= texts
    BY <1>1, <2>1, <2>2 DEF FilesGood
  <2> QED BY <1>1, <1>3, <2>1, <2>2, <2>3, CheckedStep DEF MemoryTyped
<1>6. CASE Conflict(t)
  <2>1. \E copy \in Revisions : copy = Revision(docs[t].text) /\ copy.text = docs[t].text
    BY <1>1, RevisionType DEF MemoryTyped
  <2>2. PICK copy \in Revisions : copy = Revision(docs[t].text) /\ copy.text = docs[t].text
    BY <2>1
  <2>3. PICK q \in Paths :
           /\ disk' = [disk EXCEPT ![q] = copy] /\ revisions' = revisions + 1
           /\ docs' = [docs EXCEPT ![t].path = q, ![t].rev = copy]
    BY <1>6, <2>2 DEF Conflict
  <2> DEFINE doc == [docs[t] EXCEPT !.path = q, !.rev = copy]
  <2>4. /\ doc \in Documents /\ doc.rev = copy /\ doc.text = docs[t].text
        /\ doc.name = docs[t].name /\ doc.dirty = docs[t].dirty
    BY <1>1 DEF Documents
  <2>5. docs' = [docs EXCEPT ![t] = doc]
    BY <1>1, <2>3 DEF MemoryTyped
  <2> HIDE DEF doc
  <2>6. doc.text.no <= texts /\ docs[t].dirty
    BY <1>1, <1>6, <2>4 DEF DocGood, Conflict
  <2>7. disk' \in [Paths -> Revisions \cup {None}] /\ revisions' \in Nat
    BY <1>1, <2>3 DEF MemoryTyped
  <2>8. FilesGood'
    BY <1>1, <2>2, <2>3, <2>4, <2>6 DEF FilesGood, MemoryTyped, Check
  <2>9. monitor' \in [Tabs -> Revisions \cup {None}]
    BY <1>2, <1>6 DEF Conflict
  <2> QED BY <2>2, <2>4, <2>5, <2>6, <2>7, <2>8, <2>9, CheckedStep
<1>7. CASE NothingNew(t)
  <2>1. UNCHANGED <<docs, disk, revisions>> /\ monitor' \in [Tabs -> Revisions \cup {None}]
    BY <1>2, <1>7 DEF NothingNew
  <2>2. known \subseteq known' /\ known' \subseteq Revisions
    <3>1. SeenIn(docs') \subseteq Revisions
      BY <1>1, <2>1, SeenInType DEF MemoryTyped
    <3> QED BY <1>1, <3>1 DEF Check, MemoryTyped
  <2>3. Quiet /\ Aside /\ MemoryTyped'
    BY <1>1, <2>1, <2>2 DEF Check, Quiet, Aside, MemoryTyped
  <2> QED BY <1>3, <2>1, <2>3, SavesStay, AsideStep DEF Check
<1> QED BY <1>4, <1>5, <1>6, <1>7 DEF Check

LEMMA QuitStep ==
    ASSUME IInv, Quit
    PROVE  IInv'
<1>1. MemoryTyped /\ FilesGood /\ UI
  BY Parts DEF Quit
<1>2. Quiet /\ docs' = docs /\ MemoryTyped' /\ FilesGood'
  BY <1>1 DEF Quit, Quiet, files, spent, history, MemoryTyped, FilesGood
<1>3. Handled
  BY <1>1 DEF Handled, Quit, IInv, TypeOK, UI, Open
<1> QED BY <1>2, <1>3, SavesStay, AsideStep DEF Quit

LEMMA OutsideWriteStep ==
    ASSUME IInv, NEW p \in Paths, OutsideWrite(p)
    PROVE  IInv'
<1> DEFINE text == [of |-> None, no |-> texts + 1]
<1>1. MemoryTyped /\ FilesGood
  BY Parts
<1>2. text \in Texts /\ text.no = texts + 1
  BY <1>1, Constants DEF OutsideWrite, MemoryTyped, Texts
<1>3. PICK rev \in Revisions : rev = Revision(text) /\ rev.text = text
  BY <1>1, <1>2, RevisionType DEF MemoryTyped
<1>4. disk' = [disk EXCEPT ![p] = rev] /\ texts' = texts + 1 /\ texts' \in 1..MaxTexts
  BY <1>1, <1>3, Constants DEF OutsideWrite, Outside, MemoryTyped
<1> HIDE DEF text
<1>5. Quiet /\ Aside /\ MemoryTyped'
  BY <1>1, <1>4 DEF OutsideWrite, Outside, Quiet, Aside, history, MemoryTyped
<1>6. FilesGood'
  BY <1>1, <1>2, <1>3, <1>4, RevisionFields DEF FilesGood, MemoryTyped
<1> QED BY <1>5, <1>6, SavesStay, AsideStep DEF Aside, OutsideWrite, Outside

LEMMA OutsideDeleteStep ==
    ASSUME IInv, NEW p \in Paths, OutsideDelete(p)
    PROVE  IInv'
<1>1. MemoryTyped /\ FilesGood
  BY Parts
<1>2. Quiet /\ Aside /\ FilesGood'
  BY <1>1 DEF OutsideDelete, Outside, Quiet, Aside, history, MemoryTyped, FilesGood
<1>3. MemoryTyped'
  BY <1>1, Constants DEF OutsideDelete, Outside, history, MemoryTyped
<1> QED BY <1>2, <1>3, SavesStay, AsideStep DEF Aside, OutsideDelete, Outside
-----------------------------------------------------------------------------
(* The end of the process, and its start *)

\* What the session and the snapshots promise needs no more than that the snapshots the
\* session names are as before.
LEMMA SnapshotsStay ==
    ASSUME IInv, UNCHANGED <<session, doubtful, left>>,
           \A t \in Tabs : session[t] # None /\ session[t].name # None =>
               snapshots'[session[t].name] = snapshots[session[t].name],
           run'.phase \in {"closing", "down", "starting"}
    PROVE  KeptTextOnDisk' /\ LeftIsKept'
<1>1. KeptTextOnDisk'
  BY DEF IInv, KeptTextOnDisk
<1>2. LeftIsKept'
  BY DEF IInv, LeftIsKept
<1> QED BY <1>1, <1>2

\* A state of the program without tabs, saves and draft.
LEMMA NothingOpen ==
    ASSUME docs' = NoTabs, saves' = {}, run'.draft = NoTabs, run'.todo = {}
    PROVE  PersistUnderWay' /\ TabsNotOlder' /\ Open' = {}
BY DEF PersistUnderWay, TabsNotOlder, Open, NoTabs

LEMMA StoppedStep ==
    ASSUME IInv, Stopped, UNCHANGED <<files, spent, history>>
    PROVE  IInv'
<1>1. /\ run' \in Processes /\ run'.phase = "down" /\ run'.todo = {} /\ run'.draft = NoTabs
  BY DEF Stopped, Process, Processes, NoTabs
<1>2. PersistUnderWay' /\ TabsNotOlder' /\ Open' = {}
  BY <1>1, NothingOpen DEF Stopped
<1>3. KeptTextOnDisk' /\ LeftIsKept'
  BY <1>1, SnapshotsStay DEF files, history
<1>4. TypeOK'
  BY <1>1, <1>2 DEF Stopped, files, spent, history, IInv, TypeOK, NoTabs
<1>5. RevisionsKnown'
  BY <1>1 DEF Stopped, files, history, IInv, RevisionsKnown, NoTabs, Seen
<1>6. TextsCounted'
  BY DEF Stopped, files, spent, IInv, TextsCounted, NoTabs
<1> QED BY <1>2, <1>3, <1>4, <1>5, <1>6 DEF IInv

LEMMA StartStep ==
    ASSUME IInv, Start
    PROVE  IInv'
<1>1. /\ run' \in Processes /\ run'.phase = "starting" /\ run'.todo = {}
      /\ run'.draft = NoTabs
  BY DEF Start, Process, Processes, NoTabs
<1>2. docs = NoTabs /\ active = None /\ saves = {}
  BY DEF Start, IInv, TypeOK, Open, NoTabs
<1>3. PersistUnderWay' /\ TabsNotOlder' /\ Open' = {}
  BY <1>1, <1>2, NothingOpen DEF Start
<1>4. /\ snapshots' \in [Names -> Snapshots \cup {None}]
      /\ \A n \in Names : snapshots'[n] # None => snapshots'[n] = snapshots[n]
      /\ \A n \in Names \cap Referred : snapshots'[n] = snapshots[n]
  BY DEF Start, Cleaned, IInv, TypeOK
<1>5. \A t \in Tabs : session[t] # None /\ session[t].name # None =>
         session[t].name \in Names \cap Referred
  BY EntryFields DEF IInv, TypeOK, Referred
<1>6. KeptTextOnDisk' /\ LeftIsKept'
  BY <1>1, <1>4, <1>5, SnapshotsStay DEF Start, history
<1>7. TypeOK'
  <2>1. starts' \in 0..MaxStarts
    BY Constants DEF Start, IInv, TypeOK
  <2>2. active' = None /\ saves' = {} /\ docs' = docs
    BY <1>2 DEF Start
  <2>3. UNCHANGED <<disk, session, monitor, texts, revisions, faults, known, doubtful, left>>
    BY DEF Start, history
  <2>4. TypeOK
    BY DEF IInv
  <2> QED BY <1>1, <1>3, <1>4, <2>1, <2>2, <2>3, <2>4 DEF TypeOK
<1>8. RevisionsKnown'
  BY <1>1, <1>2, <1>4 DEF Start, history, IInv, RevisionsKnown, NoTabs, Seen
<1>9. TextsCounted'
  BY <1>2, <1>4 DEF Start, IInv, TextsCounted
<1> QED BY <1>3, <1>6, <1>7, <1>8, <1>9 DEF IInv

\* The tabs a start makes: each is good, whatever it was made from.
LEMMA UpStep ==
    ASSUME IInv, run.phase = "starting",
           UNCHANGED <<files, monitor, saves, texts, revisions, starts>>,
           docs' \in [Tabs -> Documents \cup {None}], active' \in Open', DocsGood',
           run' = Process("up", {}, FALSE), left' = None, doubtful \subseteq doubtful',
           doubtful' \subseteq Tabs, faults' \in 0..MaxFaults, known \subseteq known',
           known' \subseteq Revisions
    PROVE  IInv'
<1>1. /\ run' \in Processes /\ run'.phase = "up" /\ run'.todo = {} /\ run'.draft = NoTabs
  BY DEF Process, Processes, NoTabs
<1>2. saves' = {} /\ active' # None
  BY Constants DEF IInv, TypeOK, Open
<1>3. TypeOK'
  BY <1>1, <1>2 DEF files, IInv, TypeOK
<1>4. RevisionsKnown'
  BY <1>1, <1>2 DEF files, IInv, RevisionsKnown, DocsGood, DocGood, Open, Seen, NoTabs
<1>5. TextsCounted'
  BY <1>2 DEF files, IInv, TextsCounted, DocsGood, DocGood, Open
<1>6. PersistUnderWay'
  BY <1>1 DEF PersistUnderWay, NoTabs
<1>7. KeptTextOnDisk'
  BY DEF files, IInv, KeptTextOnDisk
<1>8. TabsNotOlder'
  BY <1>2 DEF TabsNotOlder, DocsGood, DocGood
<1> QED BY <1>3, <1>4, <1>5, <1>6, <1>7, <1>8 DEF IInv, LeftIsKept

LEMMA LoadNothingStep ==
    ASSUME IInv, LoadNothing
    PROVE  IInv'
<1>1. PICK t \in Tabs, i \in Ids :
         NewName(i) /\ active' = t /\ docs' = [NoTabs EXCEPT ![t] = Untitled(i)]
  BY DEF LoadNothing
<1>2. /\ Untitled(i) \in Documents /\ Untitled(i) # None /\ Untitled(i).rev = None
      /\ Untitled(i).text.no = 0 /\ Untitled(i).name = i /\ Untitled(i).dirty = FALSE
  BY UntitledType, BlankType
<1>3. /\ docs' \in [Tabs -> Documents \cup {None}] /\ docs'[t] = Untitled(i)
      /\ \A u \in Tabs \ {t} : docs'[u] = None
  BY <1>1, <1>2 DEF NoTabs
<1>4. texts' = texts /\ texts \in Nat /\ session' = session
  BY Parts DEF LoadNothing, files, MemoryTyped
<1>5. DocGood(t)'
  BY <1>1, <1>2, <1>3, <1>4, NewNameIsNew DEF DocGood, Seen
<1>6. DocsGood' /\ active' \in Open'
  BY <1>1, <1>2, <1>3, <1>5 DEF DocsGood, Open
<1>7. faults' \in 0..MaxFaults
  BY Constants DEF LoadNothing, IInv, TypeOK
<1> QED BY <1>3, <1>6, <1>7, UpStep DEF LoadNothing, IInv, TypeOK

\* A tab without a snapshot, as restore_document makes it.
LEMMA ReopenedType ==
    ASSUME IInv, NEW e \in Entries, e.text.no <= texts, NEW shown \in BOOLEAN
    PROVE  /\ Reopened(e, shown) \in Documents /\ Reopened(e, shown).name = None
           /\ Reopened(e, shown).text.no <= texts
           /\ \/ Reopened(e, shown).rev = None
              \/ Reopened(e, shown).rev.text = Reopened(e, shown).text
<1> DEFINE doc == IF e.path # None THEN Document(e.path, Blank, None, None)
                  ELSE Document(None, IF e.dirty THEN Blank ELSE e.text, None, None)
           stub == [doc EXCEPT !.dirty = e.dirty]
<1>1. MemoryTyped /\ FilesGood /\ texts \in Nat
  BY Parts DEF MemoryTyped
<1>2. doc \in Documents /\ doc.rev = None /\ doc.name = None /\ doc.text.no <= texts
  <2>1. /\ e.path \in Paths \cup {None} /\ e.text \in Texts /\ Blank \in Texts
        /\ Blank.no <= texts
    BY <1>1, EntryFields, BlankType
  <2>2. PICK path \in Paths \cup {None}, text \in Texts :
           doc = Document(path, text, None, None) /\ text.no <= texts
    BY <2>1
  <2> HIDE DEF doc
  <2>3. doc \in Documents
    BY <2>2, Constants DEF Document, Documents
  <2> QED BY <2>2, <2>3 DEF Document
<1> HIDE DEF doc
<1>3. /\ stub \in Documents /\ stub.rev = None /\ stub.name = None /\ stub.text.no <= texts
  BY <1>2, DirtyKept, EntryFields
<1>4. Reopened(e, shown) = IF shown THEN Hydrated(stub) ELSE stub
  BY DEF Reopened, doc
<1> HIDE DEF stub
<1>5. CASE Reopened(e, shown) = stub
  BY <1>3, <1>5
<1>6. CASE Reopened(e, shown) # stub
  BY <1>1, <1>3, <1>4, <1>6, HydratedIs DEF FilesGood
<1> QED BY <1>5, <1>6

\* A tab with its snapshot.
LEMMA RestoredType ==
    ASSUME IInv, NEW e \in Entries, e.name # None, snapshots[e.name] # None, Seen(e.base)
    PROVE  /\ Restored(e) \in Documents /\ Restored(e).name = e.name
           /\ Restored(e).text = snapshots[e.name].text /\ Restored(e).dirty = e.dirty
           /\ Restored(e).text.no <= texts /\ Seen(Restored(e).rev)
<1> DEFINE rev == IF e.base # None THEN e.base ELSE snapshots[e.name].base
           path == IF rev = None THEN None ELSE e.path
           doc == Document(path, snapshots[e.name].text, rev, e.name)
<1>1. /\ snapshots[e.name] \in Snapshots /\ snapshots[e.name].text.no <= texts
      /\ Seen(snapshots[e.name].base)
  BY EntryFields DEF IInv, TypeOK, TextsCounted, RevisionsKnown
<1>2. rev \in Revisions \cup {None} /\ Seen(rev) /\ path \in Paths \cup {None}
  <2>1. e.base \in Revisions \cup {None} /\ snapshots[e.name].base \in Revisions \cup {None}
        /\ e.path \in Paths \cup {None}
    BY <1>1, EntryFields, SnapshotFields
  <2>2. rev = e.base \/ rev = snapshots[e.name].base
    OBVIOUS
  <2>3. path = None \/ path = e.path
    OBVIOUS
  <2> HIDE DEF rev, path
  <2> QED BY <1>1, <2>1, <2>2, <2>3
<1> HIDE DEF rev, path
<1>3. doc \in Documents /\ doc.text = snapshots[e.name].text /\ doc.rev = rev /\ doc.name = e.name
  <2>1. snapshots[e.name].text \in Texts /\ e.name \in Names
    BY <1>1, EntryFields, SnapshotFields
  <2>2. doc \in Documents
    BY <1>2, <2>1 DEF Document, Documents
  <2> QED BY <2>2 DEF Document
<1>4. Restored(e) = [doc EXCEPT !.dirty = e.dirty]
  BY DEF Restored, rev, path
<1> HIDE DEF doc
<1> QED BY <1>1, <1>2, <1>3, <1>4, DirtyKept, EntryFields

\* A place that no doubt falls on comes back from its snapshot.
LEMMA LoadIs ==
    ASSUME Load, NEW t \in Tabs, t \notin doubtful', session[t] # None, session[t].name # None
    PROVE  /\ t \notin doubtful
           /\ snapshots[session[t].name] # None => docs'[t] = Restored(session[t])
BY Zenon DEF Load

LEMMA LoadStep ==
    ASSUME IInv, Load
    PROVE  IInv'
<1> DEFINE kept == {t \in Tabs : session[t] # None}
           back(lost, shown) ==
             [t \in Tabs |-> IF t \notin kept THEN None
                             ELSE IF session[t].name = None \/ t \in lost
                                     \/ snapshots[session[t].name] = None
                             THEN Reopened(session[t], t = shown)
                             ELSE Restored(session[t])]
<1>0. /\ run.phase = "starting" /\ run' = Process("up", {}, FALSE) /\ left' = None
      /\ UNCHANGED <<files, monitor, saves, texts, revisions, starts>>
  BY DEF Load
<1>1. PICK lost \in SUBSET kept, shown \in kept :
        /\ Cardinality(lost) <= MaxFaults - faults
        /\ faults' = faults + Cardinality(lost)
        /\ docs' = back(lost, shown) /\ active' = shown
        /\ doubtful' = doubtful \cup lost
        /\ known' = known \cup SeenIn(docs')
  BY Zenon DEF Load
<1>2. \A t \in kept : /\ t \in Tabs /\ session[t] \in Entries /\ session[t].text.no <= texts
                       /\ Seen(session[t].base)
  BY DEF IInv, TypeOK, TextsCounted, RevisionsKnown
<1>3. ASSUME NEW t \in kept
      PROVE  /\ docs'[t] \in Documents /\ docs'[t].text.no <= texts
             /\ Newer(t)'
             /\ docs'[t].rev = None \/ docs'[t].rev.text = docs'[t].text
                \/ Seen(docs'[t].rev)
  <2>0. session' = session /\ t \in Tabs
    BY <1>0, <1>2 DEF files
  <2>1. CASE session[t].name = None \/ t \in lost \/ snapshots[session[t].name] = None
    <3>1. docs'[t] = Reopened(session[t], t = shown)
      BY <1>1, <1>2, <2>1
    <3>2. session[t].name = None \/ t \in doubtful'
      BY <1>1, <1>2, <2>1 DEF IInv, KeptTextOnDisk
    <3>3. Newer(t)'
      BY <2>0, <3>2 DEF Newer
    <3>4. PICK b \in BOOLEAN : docs'[t] = Reopened(session[t], b)
      BY <3>1
    <3>5. session[t] \in Entries /\ session[t].text.no <= texts
      BY <1>2
    <3> QED BY <3>3, <3>4, <3>5, ReopenedType
  <2>2. CASE ~(session[t].name = None \/ t \in lost \/ snapshots[session[t].name] = None)
    <3>1. docs'[t] = Restored(session[t])
      BY <1>1, <1>2, <2>2
    <3>2. t \in doubtful' \/ snapshots[session[t].name].text.no >= session[t].text.no
      BY <1>1, <1>2, <2>2 DEF IInv, KeptTextOnDisk
    <3> QED BY <1>2, <2>0, <2>2, <3>1, <3>2, RestoredType DEF Newer
  <2> QED BY <2>1, <2>2
<1>4. \A t \in Tabs \ kept : docs'[t] = None
  BY <1>1
<1>5. docs' \in [Tabs -> Documents \cup {None}]
  <2>1. docs' = [t \in Tabs |-> docs'[t]]
    BY <1>1
  <2> QED BY <1>3, <1>4, <2>1
<1>6. known' \subseteq Revisions /\ known \subseteq known' /\ SeenIn(docs') \subseteq known'
  BY <1>1, <1>5, SeenInType DEF IInv, TypeOK
<1>7. texts' = texts
  BY <1>0
<1> HIDE DEF back
<1>8. ASSUME NEW t \in Tabs, docs'[t] # None
      PROVE  DocGood(t)'
  <2>1. t \in kept
    BY <1>4, <1>8
  <2>2. Seen(docs[t].rev)'
    BY <1>3, <1>5, <1>6, <1>8, <2>1, SeenInType DEF Seen
  <2> QED BY <1>3, <1>7, <2>1, <2>2 DEF DocGood
<1>9. DocsGood' /\ active' \in Open'
  <2>1. shown \in Tabs /\ docs'[shown] # None
    BY <1>2, <1>3, DocumentFields
  <2> QED BY <1>1, <1>8, <2>1 DEF DocsGood, Open
<1>10. faults' \in 0..MaxFaults /\ doubtful' \subseteq Tabs
  <2>1. IsFiniteSet(lost)
    BY Constants, FS_Subset
  <2>2. Cardinality(lost) \in Nat
    BY <2>1, FS_CardinalityType
  <2> QED BY <1>1, <2>2, Constants DEF IInv, TypeOK
<1>11. doubtful \subseteq doubtful'
  BY <1>1
<1> QED BY <1>0, <1>5, <1>6, <1>9, <1>10, <1>11, UpStep
-----------------------------------------------------------------------------
(* The persist *)

\* A tab is noted in the draft, with a snapshot that has its text or without a name.
LEMMA NotedStep ==
    ASSUME IInv, run.phase = "persist", NEW t \in run.todo, NEW e \in Entries, Noted(t, e),
           e.text = docs[t].text, e.dirty = docs[t].dirty, Seen(e.base)',
           UNCHANGED <<disk, session, docs, active, monitor, saves, texts, revisions, starts,
                       left>>,
           known \subseteq known', known' \subseteq Revisions,
           doubtful \subseteq doubtful', doubtful' \subseteq Tabs, faults' \in 0..MaxFaults,
           \/ e.name = None /\ snapshots' = snapshots
           \/ /\ e.name # None
              /\ \E snap \in Snapshots : /\ snap.text = e.text /\ Seen(snap.base)'
                                         /\ snapshots' = [snapshots EXCEPT ![e.name] = snap]
              /\ \A u \in Tabs \ {t} :
                    session[u] # None /\ session[u].name = e.name => u \in doubtful'
              /\ session[t] # None /\ session[t].name = e.name => Newer(t)
    PROVE  IInv'
<1>1. /\ TypeOK /\ PersistUnderWay /\ t \in Open /\ t \in Tabs /\ docs[t] # None
      /\ run \in Processes
  BY DEF IInv, TypeOK, PersistUnderWay, Open
<1>2. /\ run' \in Processes /\ run'.phase = "persist" /\ run'.todo = run.todo \ {t}
      /\ run'.whole => run.whole /\ (docs[t].dirty => e.name # None)
      /\ run'.draft[t] = e /\ \A u \in Tabs \ {t} : run'.draft[u] = run.draft[u]
  BY <1>1 DEF Noted, Processes
<1>3. e # None /\ e.name \in Names \cup {None} /\ e.text.no \in Nat /\ e.text.no <= texts
  BY <1>1, EntryFields DEF IInv, TextsCounted
<1>4. /\ snapshots' \in [Names -> Snapshots \cup {None}]
      /\ \A n \in Names : n # e.name => snapshots'[n] = snapshots[n]
      /\ e.name # None => /\ snapshots'[e.name] # None /\ snapshots'[e.name].text = e.text
                          /\ Seen(snapshots[e.name].base)'
  BY <1>1, <1>3, SnapshotFields DEF TypeOK
<1>5. TypeOK'
  BY <1>1, <1>2, <1>4 DEF TypeOK, Open
<1>6. RevisionsKnown'
  <2>1. \A u \in Tabs : /\ docs'[u] # None => Seen(docs[u].rev)'
                        /\ session'[u] # None => Seen(session[u].base)'
    BY DEF IInv, RevisionsKnown, Seen
  <2>2. \A u \in Tabs : run'.draft[u] # None => Seen(run.draft[u].base)'
    BY <1>2 DEF IInv, RevisionsKnown, Seen
  <2>3. \A n \in Names : snapshots'[n] # None => Seen(snapshots[n].base)'
    BY <1>4 DEF IInv, RevisionsKnown, Seen
  <2>4. \A s \in saves' : Seen(s.base)' /\ Seen(s.rev)'
    BY DEF IInv, RevisionsKnown, Seen
  <2> QED BY <2>1, <2>2, <2>3, <2>4 DEF RevisionsKnown
<1>7. TextsCounted'
  BY <1>3, <1>4 DEF IInv, TextsCounted
<1>8. PersistUnderWay'
  <2>1. \A u \in run'.todo : run'.draft[u] = None
    BY <1>1, <1>2 DEF PersistUnderWay, TypeOK, Processes
  <2>2. \A u \in Open' \ run'.todo : run'.draft[u] # None
    BY <1>1, <1>2, <1>3 DEF PersistUnderWay, Open
  <2>3. DraftOf(t)'
    BY <1>1, <1>2, <1>4 DEF DraftOf
  <2>4. ASSUME NEW u \in Tabs \ {t}, run.draft[u] # None
        PROVE  DraftOf(u)'
    <3> DEFINE d == run.draft[u]
    <3>1. /\ DraftOf(u) /\ d \in Entries /\ d.name \in Names \cup {None}
          /\ run'.draft[u] = d /\ run.draft[t] = None
      BY <1>1, <1>2, <2>4, EntryFields DEF PersistUnderWay, Processes
    <3>2. /\ docs[u] # None /\ d.text = docs[u].text /\ d.dirty = docs[u].dirty
          /\ run.whole /\ d.dirty => d.name # None
          /\ d.name # None => /\ snapshots[d.name] # None
                              /\ \/ snapshots[d.name].text = d.text
                                 \/ Named(run.draft, d.name) # {u}
      BY <3>1 DEF DraftOf
    <3>3. ASSUME d.name # None
          PROVE  /\ snapshots'[d.name] # None
                 /\ \/ snapshots'[d.name].text = d.text
                    \/ Named(run'.draft, d.name) # {u}
      <4>1. CASE d.name = e.name
        <5>1. t \in Named(run'.draft, d.name)
          BY <1>1, <1>2, <1>3, <4>1 DEF Named
        <5> QED BY <1>4, <3>3, <4>1, <5>1
      <4>2. CASE d.name # e.name
        <5>1. Named(run.draft, d.name) \subseteq Named(run'.draft, d.name)
          BY <1>2, <3>1 DEF Named
        <5>2. u \in Named(run.draft, d.name)
          BY <2>4 DEF Named
        <5> QED BY <1>4, <3>1, <3>2, <3>3, <4>2, <5>1, <5>2
      <4> QED BY <4>1, <4>2
    <3> HIDE DEF d
    <3> QED BY <1>2, <3>1, <3>2, <3>3 DEF DraftOf
  <2> QED BY <1>1, <1>2, <2>1, <2>2, <2>3, <2>4 DEF PersistUnderWay, Open
<1>9. KeptTextOnDisk'
  <2>1. SUFFICES ASSUME NEW u \in Tabs, session[u] # None, session[u].name # None
                 PROVE  /\ snapshots'[session[u].name] # None
                        /\ \/ u \in doubtful'
                           \/ snapshots'[session[u].name].text.no >= session[u].text.no
    BY DEF KeptTextOnDisk
  <2>2. session[u].name \in Names
    BY <1>1, <2>1, EntryFields DEF TypeOK
  <2>3. CASE session[u].name # e.name
    BY <1>4, <2>1, <2>2, <2>3 DEF IInv, KeptTextOnDisk
  <2>4. CASE session[u].name = e.name /\ u # t
    BY <1>4, <2>1, <2>4
  <2>5. CASE session[u].name = e.name /\ u = t
    BY <1>4, <2>1, <2>5 DEF Newer
  <2> QED BY <2>3, <2>4, <2>5
<1>10. TabsNotOlder'
  <2>1. \A u : Newer(u) => Newer(u)'
    BY DEF Newer
  <2> QED BY <2>1 DEF IInv, TabsNotOlder, Open
<1>11. LeftIsKept'
  BY DEF IInv, LeftIsKept
<1> QED BY <1>5, <1>6, <1>7, <1>8, <1>9, <1>10, <1>11 DEF IInv
LEMMA EntryType ==
    ASSUME NEW doc \in Documents, NEW name \in Names \cup {None},
           NEW base \in Revisions \cup {None}
    PROVE  \E e \in Entries : /\ e = Entry(doc, name, base) /\ e.text = doc.text
                              /\ e.dirty = doc.dirty /\ e.name = name /\ e.base = base
<1> DEFINE e == Entry(doc, name, base)
<1>1. e \in Entries
  BY DocumentFields DEF Entry, Entries
<1>2. e.text = doc.text /\ e.dirty = doc.dirty /\ e.name = name /\ e.base = base
  BY DEF Entry
<1> HIDE DEF e
<1> QED BY <1>1, <1>2 DEF e

LEMMA SnapshotType ==
    ASSUME NEW text \in Texts, NEW base \in Revisions \cup {None}
    PROVE  \E snap \in Snapshots : /\ snap = [text |-> text, base |-> base]
                                   /\ snap.text = text /\ snap.base = base
<1> DEFINE snap == [text |-> text, base |-> base]
<1>1. snap \in Snapshots /\ snap.text = text /\ snap.base = base
  BY DEF Snapshots
<1> HIDE DEF snap
<1> QED BY <1>1 DEF snap

LEMMA PersistTabStep ==
    ASSUME IInv, NEW t \in Tabs, PersistTab(t)
    PROVE  IInv'
<1> DEFINE base == IF docs[t].path = None THEN None ELSE disk[docs[t].path]
<1>1. /\ run.phase = "persist" /\ t \in run.todo
      /\ known' = known \cup ({base} \ {None})
      /\ UNCHANGED <<disk, session, docs, active, monitor, saves, texts, revisions, starts, left>>
  BY DEF PersistTab
<1>2. /\ MemoryTyped /\ docs[t] # None /\ docs[t] \in Documents /\ DocGood(t)
      /\ faults \in 0..MaxFaults /\ doubtful \subseteq Tabs
      /\ snapshots \in [Names -> Snapshots \cup {None}]
      /\ session \in [Tabs -> Entries \cup {None}]
  BY <1>1, Parts DEF IInv, TypeOK, PersistUnderWay, Open, MemoryTyped, DocsGood
<1>3. /\ docs[t].path \in Paths \cup {None} /\ docs[t].text \in Texts
      /\ docs[t].dirty \in BOOLEAN /\ docs[t].name \in Names \cup {None}
  BY <1>2, DocumentFields
<1>4. /\ base \in Revisions \cup {None} /\ known \subseteq known' /\ known' \subseteq Revisions
      /\ base \in known' \cup {None}
  BY <1>1, <1>2, <1>3 DEF MemoryTyped
<1> HIDE DEF base
<1>5. ASSUME NEW i \in Names, docs[t].dirty,
             IF docs[t].path # None THEN i = docs[t].path ELSE NameIfNone(docs[t].name, None, i),
             snapshots' = [snapshots EXCEPT ![i] = [text |-> docs[t].text, base |-> base]],
             Noted(t, Entry(docs[t], i, base)), faults' = faults,
             doubtful' = doubtful \cup {u \in Named(session, i) : u # t}
      PROVE  IInv'
  <2>1. PICK e \in Entries : /\ e = Entry(docs[t], i, base) /\ e.text = docs[t].text
                             /\ e.dirty = docs[t].dirty /\ e.name = i /\ e.base = base
    BY <1>2, <1>4, EntryType
  <2>2. PICK snap \in Snapshots : /\ snap = [text |-> docs[t].text, base |-> base]
                                  /\ snap.text = docs[t].text /\ snap.base = base
    BY <1>3, <1>4, SnapshotType
  <2>3. Seen(e.base)' /\ Seen(snap.base)'
    BY <1>4, <2>1, <2>2 DEF Seen
  <2>4. session[t] # None /\ session[t].name = i => Newer(t)
    <3>1. CASE docs[t].path # None
      BY <1>2, <1>5, <3>1 DEF DocGood
    <3>2. CASE docs[t].path = None /\ docs[t].name # None
      BY <1>2, <1>5, <3>2 DEF DocGood, NameIfNone
    <3>3. CASE docs[t].path = None /\ docs[t].name = None
      BY <1>5, <3>3, NewNameIsNew DEF NameIfNone
    <3> QED BY <3>1, <3>2, <3>3
  <2>5. \A u \in Tabs \ {t} : session[u] # None /\ session[u].name = i => u \in doubtful'
    BY <1>5 DEF Named
  <2>6. doubtful \subseteq doubtful' /\ doubtful' \subseteq Tabs
    BY <1>2, <1>5 DEF Named
  <2>7. i # None
    BY Constants
  <2>8. Noted(t, e) /\ snapshots' = [snapshots EXCEPT ![e.name] = snap]
    BY <1>5, <2>1, <2>2
  <2> QED BY <1>1, <1>2, <1>4, <1>5, <2>1, <2>2, <2>3, <2>4, <2>5, <2>6, <2>7, <2>8, NotedStep
<1>6. ASSUME Noted(t, Entry(docs[t], None, None)), UNCHANGED <<snapshots, doubtful>>,
             faults' \in 0..MaxFaults
      PROVE  IInv'
  <2>1. PICK e \in Entries : /\ e = Entry(docs[t], None, None) /\ e.text = docs[t].text
                             /\ e.dirty = docs[t].dirty /\ e.name = None /\ e.base = None
    BY <1>2, EntryType
  <2>2. Noted(t, e) /\ Seen(e.base)'
    BY <1>6, <2>1 DEF Seen
  <2> QED BY <1>1, <1>2, <1>4, <1>6, <2>1, <2>2, NotedStep
<1>7. CASE ~docs[t].dirty
  BY <1>2, <1>6, <1>7 DEF PersistTab
<1>8. CASE docs[t].dirty
  <2>1. \/ \E i \in Names :
             /\ IF docs[t].path # None THEN i = docs[t].path
                ELSE NameIfNone(docs[t].name, None, i)
             /\ snapshots' = [snapshots EXCEPT ![i] = [text |-> docs[t].text, base |-> base]]
             /\ Noted(t, Entry(docs[t], i, base)) /\ faults' = faults
             /\ doubtful' = doubtful \cup {u \in Named(session, i) : u # t}
        \/ /\ faults < MaxFaults /\ faults' = faults + 1
           /\ Noted(t, Entry(docs[t], None, None))
           /\ UNCHANGED <<snapshots, doubtful>>
    BY <1>8 DEF PersistTab, base
  <2>2. faults < MaxFaults /\ faults' = faults + 1 => faults' \in 0..MaxFaults
    BY <1>2, Constants
  <2> QED BY <1>5, <1>6, <1>8, <2>1, <2>2
<1> QED BY <1>7, <1>8
LEMMA PersistSessionStep ==
    ASSUME IInv, PersistSession
    PROVE  IInv'
<1>1. /\ run.phase = "persist" /\ run.todo = {} /\ left = None /\ run.quit \in BOOLEAN
      /\ run' = Process(IF run.quit THEN "closing" ELSE "up", {}, FALSE)
  BY DEF PersistSession, IInv, TypeOK, Processes, LeftIsKept
<1>2. /\ run' \in Processes /\ run'.phase = (IF run.quit THEN "closing" ELSE "up")
      /\ run'.todo = {} /\ run'.draft = NoTabs
  BY <1>1 DEF Process, Processes, NoTabs
<1>3. \A t \in Tabs : run'.draft[t] = None
  BY <1>2 DEF NoTabs
<1>4. UNCHANGED <<disk, snapshots, docs, active, monitor, saves, texts, revisions, starts,
                  known>>
  BY DEF PersistSession
<1>5. PersistUnderWay'
  BY <1>2 DEF PersistUnderWay, NoTabs
<1>6. CASE /\ session' = run.draft /\ UNCHANGED faults
           /\ left' = IF run.quit /\ run.whole THEN docs ELSE None
           /\ doubtful' = {t \in Tabs : /\ run.draft[t] # None /\ run.draft[t].name # None
                                        /\ Named(run.draft, run.draft[t].name) # {t}}
  <2>1. \A t \in Tabs : run.draft[t] # None => DraftOf(t)
    BY DEF IInv, PersistUnderWay
  <2>2. \A t \in Open : run.draft[t] # None
    BY <1>1 DEF IInv, PersistUnderWay
  <2>3. \A t \in Open : docs[t].text.no \in Nat /\ docs[t].text.no <= texts
    BY DocumentFields DEF IInv, TypeOK, TextsCounted, Open
  <2>4. TypeOK'
    BY <1>1, <1>4, <1>2, <1>6 DEF IInv, TypeOK, Processes, Open
  <2>5. RevisionsKnown'
    <3>1. RevisionsKnown
      BY DEF IInv
    <3> QED BY <1>3, <1>4, <1>6, <3>1 DEF RevisionsKnown, Seen
  <2>6. TextsCounted'
    BY <1>1, <1>4, <1>6, <2>1, <2>3 DEF IInv, TextsCounted, DraftOf, Open
  <2>7. KeptTextOnDisk'
    <3>1. SUFFICES ASSUME NEW t \in Tabs, run.draft[t] # None, run.draft[t].name # None
                   PROVE  /\ snapshots[run.draft[t].name] # None
                          /\ \/ t \in doubtful'
                             \/ snapshots[run.draft[t].name].text.no >= run.draft[t].text.no
      BY <1>4, <1>6 DEF KeptTextOnDisk
    <3>2. DraftOf(t) /\ t \in Open
      BY <2>1, <3>1 DEF DraftOf, Open
    <3> QED BY <1>6, <2>3, <3>1, <3>2 DEF DraftOf
  <2>8. \A t \in Open : Newer(t)'
    BY <1>1, <1>4, <1>6, <2>1, <2>2, <2>3 DEF Newer, DraftOf, Open
  <2>9. TabsNotOlder'
    BY <1>1, <1>4, <2>8 DEF IInv, TabsNotOlder, Open
  <2>10. LeftIsKept'
    <3>1. SUFFICES ASSUME run.quit, run.whole, NEW t \in Open, docs[t].dirty
                   PROVE  /\ session'[t] # None /\ session'[t].dirty
                          /\ session'[t].name # None
                          /\ t \in doubtful' \/ snapshots[session'[t].name].text = docs[t].text
      <4>1. left' # None => run.quit /\ run.whole /\ left' = docs /\ run'.phase = "closing"
        BY <1>2, <1>6
      <4> QED BY <1>1, <1>4, <4>1 DEF LeftIsKept, Open
    <3>2. run.draft[t] # None /\ DraftOf(t) /\ t \in Tabs
      BY <2>1, <2>2, <3>1 DEF Open
    <3> QED BY <1>6, <3>1, <3>2 DEF DraftOf
  <2> QED BY <1>5, <2>4, <2>5, <2>6, <2>7, <2>9, <2>10 DEF IInv
<1>7. CASE faults < MaxFaults /\ faults' = faults + 1 /\ UNCHANGED <<session, left, doubtful>>
  <2>1. TypeOK'
    <3>1. TypeOK /\ Open' = Open /\ faults' \in 0..MaxFaults
      BY <1>4, <1>7, Constants DEF IInv, TypeOK, Open
    <3>2. run'.phase \notin {"down", "starting"} /\ active # None
      BY <1>1, <1>4, <1>2, <3>1 DEF TypeOK
    <3> QED BY <1>2, <1>4, <1>7, <3>1, <3>2 DEF TypeOK
  <2>2. RevisionsKnown' /\ TextsCounted'
    <3>1. RevisionsKnown /\ TextsCounted
      BY DEF IInv
    <3>2. RevisionsKnown'
      BY <1>3, <1>4, <1>7, <3>1 DEF RevisionsKnown, Seen
    <3>3. TextsCounted'
      BY <1>4, <1>7, <3>1 DEF TextsCounted
    <3> QED BY <3>2, <3>3
  <2>3. KeptTextOnDisk' /\ TabsNotOlder' /\ LeftIsKept'
    BY <1>1, <1>4, <1>7 DEF IInv, KeptTextOnDisk, TabsNotOlder, Newer, Open, LeftIsKept
  <2> QED BY <1>5, <2>1, <2>2, <2>3 DEF IInv
<1> QED BY <1>6, <1>7 DEF PersistSession
-----------------------------------------------------------------------------
(* The theorems *)

LEMMA InitLemma == Init => IInv
<1> SUFFICES ASSUME Init PROVE IInv
  OBVIOUS
<1>1. run \in Processes /\ run.phase = "down" /\ run.todo = {} /\ run.draft = NoTabs
  BY DEF Init, Process, Processes, NoTabs
<1>2. disk \in [Paths -> Revisions \cup {None}]
      /\ \A p \in Paths : disk[p] # None => disk[p].text.no = 1
  <2> DEFINE text == [of |-> None, no |-> 1]
             rev == [text |-> text, id |-> 0]
  <2>1. 1 \in 0..MaxTexts
    BY Constants
  <2>2. text \in Texts /\ text.no = 1
    BY <2>1 DEF Texts
  <2> HIDE DEF text
  <2>3. rev \in Revisions /\ rev.text = text
    BY <2>2 DEF Revisions
  <2>4. disk = [p \in Paths |-> IF p \in Present THEN rev ELSE None]
    BY DEF Init, text
  <2> HIDE DEF rev
  <2> QED BY <2>2, <2>3, <2>4
<1>3. TypeOK
  <2>1. Open = {}
    BY DEF Init, Open, NoTabs
  <2>2. texts \in 1..MaxTexts /\ starts \in 0..MaxStarts /\ faults \in 0..MaxFaults
    BY Constants DEF Init
  <2> QED BY <1>1, <1>2, <2>1, <2>2 DEF Init, TypeOK, NoTabs
<1>4. RevisionsKnown /\ TextsCounted /\ PersistUnderWay
  <2>1. RevisionsKnown
    BY <1>1 DEF Init, RevisionsKnown, NoTabs
  <2>2. TextsCounted
    BY <1>2 DEF Init, TextsCounted, NoTabs
  <2>3. PersistUnderWay
    BY <1>1 DEF PersistUnderWay, NoTabs
  <2> QED BY <2>1, <2>2, <2>3
<1>5. KeptTextOnDisk /\ TabsNotOlder /\ LeftIsKept
  BY DEF Init, KeptTextOnDisk, TabsNotOlder, LeftIsKept, NoTabs, Open
<1> QED BY <1>3, <1>4, <1>5 DEF IInv

LEMMA NextStep == IInv /\ [Next]_vars => IInv'
<1> SUFFICES ASSUME IInv, [Next]_vars PROVE IInv'
  OBVIOUS
<1>1. ASSUME NEW t \in Tabs, Edit(t) \/ NewTab(t) \/ Activate(t) \/ Close(t) \/ Save(t)
      PROVE  IInv'
  BY <1>1, EditStep, NewTabStep, ActivateStep, CloseStep, SaveStep
<1>2. ASSUME NEW t \in Tabs, NEW p \in Paths, OpenFile(t, p)
      PROVE  IInv'
  BY <1>2, OpenFileStep
<1>3. ASSUME NEW s \in saves, WorkerSaves(s) \/ Completed(s)
      PROVE  IInv'
  BY <1>3, WorkerSavesStep, CompletedStep
<1>4. ASSUME NEW t \in Tabs, Check(t) \/ PersistTab(t)
      PROVE  IInv'
  BY <1>4, CheckStep, PersistTabStep
<1>5. Exit \/ Kill => IInv'
  BY StoppedStep DEF Exit, Kill
<1>6. ASSUME NEW p \in Paths, OutsideWrite(p) \/ OutsideDelete(p)
      PROVE  IInv'
  BY <1>6, OutsideWriteStep, OutsideDeleteStep
<1>7. CASE UNCHANGED vars
  <2>1. UNCHANGED <<disk, snapshots, session, docs, active, monitor, saves, run, texts,
                    revisions, starts, faults, known, doubtful, left>>
    BY <1>7 DEF vars, files, spent, history
  <2> QED BY <2>1 DEF IInv, TypeOK, Open, RevisionsKnown, Seen, TextsCounted, PersistUnderWay,
                  DraftOf, Named, KeptTextOnDisk, TabsNotOlder, Newer, LeftIsKept
<1> QED BY <1>1, <1>2, <1>3, <1>4, <1>5, <1>6, <1>7, QuitStep, PersistSessionStep, StartStep,
           LoadStep, LoadNothingStep DEF Next, User, Program

\* The invariant of hot exit holds for any tabs, files, ids and bounds.
THEOREM InductiveInvariant == Spec => []IInv
BY InitLemma, NextStep, PTL DEF Spec

\* Whatever stops the program, an unsaved tab of the session finds its text, or a newer one.
THEOREM UnsavedTextsAreOnDisk == Spec => []KeptTextOnDisk
<1>1. IInv => KeptTextOnDisk
  BY DEF IInv
<1> QED BY <1>1, InductiveInvariant, PTL

\* A save replaces what a tab or a persist has seen, or nothing.
THEOREM SavesReplaceTheKnown == Spec => ReplacedWasKnown
<1> DEFINE Step == \A p \in Paths, s \in saves :
        s.path = p /\ WorkerSaves(s) /\ disk'[p] # disk[p] => disk[p] \in known \cup {None}
<1>1. IInv => Step
  <2> SUFFICES ASSUME IInv, NEW p \in Paths, NEW s \in saves, s.path = p, WorkerSaves(s),
                      disk'[p] # disk[p]
               PROVE  disk[p] \in known \cup {None}
    OBVIOUS
  <2>1. disk[p] = s.base
    BY DEF WorkerSaves
  <2> QED BY <2>1 DEF IInv, RevisionsKnown, Seen
<1> HIDE DEF Step
<1>2. IInv /\ [Next]_vars => [Step]_vars
  BY <1>1
<1> QED BY <1>2, InductiveInvariant, PTL DEF Spec, ReplacedWasKnown, Step

\* A quit whose writes succeeded loses no unsaved text, whatever happens until the start.
THEOREM NothingLostByQuit == Spec => QuitKeepsAll
<1> DEFINE Step == \A t \in Tabs :
        /\ Load /\ left # None
        /\ left[t] # None /\ left[t].dirty /\ t \notin doubtful'
        => docs'[t] # None /\ docs'[t].text = left[t].text /\ docs'[t].dirty
<1>1. IInv => Step
  <2> SUFFICES ASSUME IInv, NEW t \in Tabs, Load, left # None, left[t] # None, left[t].dirty,
                      t \notin doubtful'
               PROVE  docs'[t] # None /\ docs'[t].text = left[t].text /\ docs'[t].dirty
    OBVIOUS
  <2> DEFINE e == session[t]
  <2>1. /\ e \in Entries /\ e # None /\ e.dirty /\ e.name # None /\ e.name \in Names
        /\ Seen(e.base)
    BY EntryFields DEF IInv, TypeOK, LeftIsKept, RevisionsKnown
  <2>2. t \notin doubtful /\ docs'[t] = Restored(e)
    BY <2>1, LoadIs DEF IInv, KeptTextOnDisk
  <2>3. snapshots[e.name] # None /\ snapshots[e.name].text = left[t].text
    BY <2>1, <2>2 DEF IInv, LeftIsKept, KeptTextOnDisk
  <2> HIDE DEF e
  <2> QED BY <2>1, <2>2, <2>3, RestoredType, DocumentFields
<1> HIDE DEF Step
<1>2. IInv /\ [Next]_vars => [Step]_vars
  BY <1>1
<1> QED BY <1>2, InductiveInvariant, PTL DEF Spec, QuitKeepsAll, Step
=============================================================================
