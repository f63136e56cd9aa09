-------------------------- MODULE NoteTexts_proofs --------------------------
(***************************************************************************)
(* Proofs about NoteEditing: as long as no note is moved to another place, *)
(* no text of an open note is lost and none is replaced by an older one,   *)
(* for any notes, tabs and bounds, whatever else the user and the world    *)
(* do.                                                                     *)
(***************************************************************************)
EXTENDS NoteEditing_proofs

\* Notes stay where they are, or go to the trash.
NotesStay == Uses \cap {"move", "title"} = {}
Kept0 == IInv /\ KeptAtHome

(* The invariant, element by element *)

TabFits(tab) ==
    /\ tab.path = Home[tab.note] /\ tab.rev # None
    /\ tab.text <= texts /\ tab.rev.text <= texts
    /\ tab.crev = 0 => tab.text = tab.rev.text
    /\ tab.dirty => /\ tab.crev > 0 /\ Older(tab.rev, tab.text)
                    /\ disk[tab.path] # None => Older(disk[tab.path], tab.text)
    /\ where[tab.note] # None => NotAhead(tab.rev, disk[Home[tab.note]])
SaveFits(s) ==
    /\ s.base # None /\ s.text <= texts /\ s.base.text <= texts
    /\ s.st = "saved" => s.rev.text = s.text /\ s.rev.by = "own"
    /\ s.st = "running" => Older(s.base, s.text)
    /\ \E n \in Notes : s.path = Home[n]
    /\ \A n \in Notes : where[n] # None /\ s.path = Home[n] =>
          /\ s.st = "running" => NotAhead(s.base, disk[Home[n]])
          /\ s.st = "saved" => NotAhead(s.rev, disk[Home[n]])
ReadFits(r) ==
    r.st = "read" =>
        /\ r.rev.text <= texts
        /\ \A n \in Notes : where[n] # None /\ r.path = Home[n] => NotAhead(r.rev, disk[Home[n]])
AnswerFits(a) ==
    /\ a.kind \in {"load", "trash"} /\ a.rev.text <= texts
    /\ a.kind = "load" => /\ a.to = Home[a.note]
                          /\ where[a.note] # None => NotAhead(a.rev, disk[Home[a.note]])
NotesFit ==
    /\ \A n \in Notes : IF where[n] = None THEN disk[Home[n]] = None /\ bin[n] # None
                        ELSE where[n] = Home[n] /\ disk[Home[n]] # None
    /\ \A p \in Paths : disk[p] # None => disk[p].text <= texts

\* A save, or a revision that was read, for the tab t, which is as tab says
SaveOfTab(s, t, tab) ==
    /\ s.tab = t => /\ s.path = tab.path /\ 0 < s.crev /\ s.crev <= tab.crev
                    /\ s.crev = tab.crev => s.text = tab.text
    /\ tab.dirty /\ s.path = tab.path => s.text <= tab.text
ReadOfTab(r, t, tab) ==
    r.tab = t => /\ r.path = tab.path /\ 0 < r.crev /\ r.crev <= tab.crev
                 /\ tab.dirty /\ r.st = "read" /\ r.crev = tab.crev => Older(r.rev, tab.text)
TabSettled(t, tab) ==
    /\ ~tab.dirty /\ ~Foreign(tab) => Settles(tab.text, tab.note)
    /\ \A s \in saves : s.st = "saved" /\ s.tab = t /\ s.crev = tab.crev
                        => Settles(s.text, tab.note)

AnswersSettled ==
    ui.stage # "switched" =>
        \A i \in DOMAIN done : Loading(done[i]) /\ done[i].rev.by = "own"
                               => Settles(done[i].rev.text, done[i].note)
OrphansSettled ==
    ui.stage # "switched" =>
        \A n \in Notes, s \in saves :
            CanReplace(s, n) /\ ~IsOpen(ui, s.tab) /\ disk[Home[n]].by = "own"
            => s.text = disk[Home[n]].text
SnapshotsKept == ui.stage = "exited" => Snapshots(ui) \subseteq ui.kept
TabsFit ==
    \A t \in Tabs : IsOpen(ui, t) =>
        /\ TabFits(ui.tabs[t]) /\ TabSettled(t, ui.tabs[t])
        /\ \A s \in saves : SaveOfTab(s, t, ui.tabs[t])
        /\ \A r \in reads : ReadOfTab(r, t, ui.tabs[t])
ConflictsFit == \A t \in ui.conflict : IsOpen(ui, t) => ui.tabs[t].crev > 0

Fits ==
    /\ OnlyTrash /\ OneLoad /\ NotesFit /\ TabsFit /\ ConflictsFit
    /\ \A s \in saves : SaveFits(s)
    /\ \A r \in reads : ReadFits(r)
    /\ \A i \in DOMAIN done : AnswerFits(done[i])
    /\ AnswersSettled /\ OrphansSettled /\ SnapshotsKept

LEMMA TabsOfOpen ==
    ASSUME IInv
    PROVE  /\ \A n \in Notes : TabsOf(ui, n) = {t \in Tabs : IsOpen(ui, t) /\ ui.tabs[t].note = n}
           /\ \A t \in Tabs : IsOpen(ui, t) => ui.tabs[t].note \in Notes /\ ui.tabs[t] \in Tab
<1>1. Good(ui) /\ ui \in Ui
  BY IInvParts DEF Good
<1>2. Registered(ui) = {t \in Tabs : IsOpen(ui, t)}
  BY <1>1 DEF Good, Agree
<1>3. \A t \in Tabs : ui.tabs[t] \in Tab
  BY <1>1, UiFields
<1>4. \A t \in Tabs : IsOpen(ui, t) => ui.tabs[t].note \in Notes
  BY <1>1, <1>3, TabFields DEF Good, OpenTabsAreBound
<1> QED BY <1>2, <1>3, <1>4 DEF TabsOf

LEMMA FitsParts ==
    ASSUME IInv
    PROVE  KeptAtHome => Fits
<1> SUFFICES ASSUME KeptAtHome PROVE Fits
  OBVIOUS
<1>1. /\ \A n \in Notes : TabsOf(ui, n) = {t \in Tabs : IsOpen(ui, t) /\ ui.tabs[t].note = n}
      /\ \A t \in Tabs : IsOpen(ui, t) => ui.tabs[t].note \in Notes /\ ui.tabs[t] \in Tab
  BY TabsOfOpen
<1>2. /\ OnlyTrash /\ AtHome /\ OneLoad /\ Numbered /\ SavesOfTabs /\ UnsavedIsNewest
      /\ KnownRevisions /\ SavedIsKept
  BY DEF KeptAtHome
<1>3. NotesFit
  BY <1>2 DEF NotesFit, AtHome, Numbered
<1>4. TabsFit
  <2> SUFFICES ASSUME NEW t \in Tabs, IsOpen(ui, t)
               PROVE  /\ TabFits(ui.tabs[t]) /\ TabSettled(t, ui.tabs[t])
                      /\ \A s \in saves : SaveOfTab(s, t, ui.tabs[t])
                      /\ \A r \in reads : ReadOfTab(r, t, ui.tabs[t])
    BY DEF TabsFit
  <2>1. ui.tabs[t].dirty => t \in DirtyTabs(ui) /\ IsDirty(ui, t)
    BY DEF DirtyTabs, IsDirty
  <2>2. TabFits(ui.tabs[t])
    <3>1. ui.tabs[t].path = Home[ui.tabs[t].note] /\ ui.tabs[t].rev # None
      BY <1>2 DEF AtHome
    <3>2. ui.tabs[t].text <= texts /\ ui.tabs[t].rev.text <= texts
      BY <1>2 DEF Numbered
    <3>3. /\ ui.tabs[t].crev = 0 => ui.tabs[t].text = ui.tabs[t].rev.text
          /\ ui.tabs[t].dirty => ui.tabs[t].crev > 0
      BY <1>2, <2>1 DEF SavesOfTabs
    <3>4. ui.tabs[t].dirty =>
             /\ Older(ui.tabs[t].rev, ui.tabs[t].text)
             /\ disk[ui.tabs[t].path] # None => Older(disk[ui.tabs[t].path], ui.tabs[t].text)
      BY <1>2, <2>1 DEF UnsavedIsNewest
    <3>5. where[ui.tabs[t].note] # None => NotAhead(ui.tabs[t].rev, disk[Home[ui.tabs[t].note]])
      BY <1>1, <1>2 DEF KnownRevisions
    <3> QED BY <3>1, <3>2, <3>3, <3>4, <3>5 DEF TabFits
  <2>3. TabSettled(t, ui.tabs[t])
    BY <1>2 DEF SavedIsKept, TabSettled, JustSaved
  <2>4. ASSUME NEW s \in saves PROVE SaveOfTab(s, t, ui.tabs[t])
    BY <1>2, <2>1 DEF SaveOfTab, AtHome, SavesOfTabs, UnsavedIsNewest
  <2>5. ASSUME NEW r \in reads PROVE ReadOfTab(r, t, ui.tabs[t])
    BY <1>2, <2>1 DEF ReadOfTab, AtHome, SavesOfTabs, UnsavedIsNewest
  <2> QED BY <2>2, <2>3, <2>4, <2>5
<1>5. ConflictsFit
  BY <1>2 DEF ConflictsFit, SavesOfTabs
<1>6. ASSUME NEW s \in saves PROVE SaveFits(s)
  BY <1>2 DEF SaveFits, AtHome, Numbered, UnsavedIsNewest, KnownRevisions
<1>7. ASSUME NEW r \in reads PROVE ReadFits(r)
  BY <1>2 DEF ReadFits, Numbered, KnownRevisions
<1>8. ASSUME NEW i \in DOMAIN done PROVE AnswerFits(done[i])
  <2>1. done[i] \in Reply
    BY IInvParts DEF Others
  <2>2. done[i].note \in Notes
    BY <2>1 DEF Reply
  <2> QED BY <1>2, <2>2 DEF AnswerFits, OnlyTrash, AtHome, Numbered, KnownRevisions
<1>9. AnswersSettled /\ OrphansSettled /\ SnapshotsKept
  BY <1>2 DEF AnswersSettled, OrphansSettled, SnapshotsKept, SavedIsKept
<1> QED BY <1>2, <1>3, <1>4, <1>5, <1>6, <1>7, <1>8, <1>9 DEF Fits

LEMMA KeptParts == IInv /\ Fits => KeptAtHome
<1> SUFFICES ASSUME IInv, Fits PROVE KeptAtHome
  OBVIOUS
<1>1. /\ \A n \in Notes : TabsOf(ui, n) = {t \in Tabs : IsOpen(ui, t) /\ ui.tabs[t].note = n}
      /\ \A t \in Tabs : IsOpen(ui, t) => ui.tabs[t].note \in Notes /\ ui.tabs[t] \in Tab
  BY TabsOfOpen
<1>2. /\ OnlyTrash /\ OneLoad /\ NotesFit /\ TabsFit /\ ConflictsFit
      /\ \A s \in saves : SaveFits(s)
      /\ \A r \in reads : ReadFits(r)
      /\ \A i \in DOMAIN done : AnswerFits(done[i])
      /\ AnswersSettled /\ OrphansSettled /\ SnapshotsKept
  BY DEF Fits
<1>3. \A t \in Tabs : IsOpen(ui, t) =>
         /\ TabFits(ui.tabs[t]) /\ TabSettled(t, ui.tabs[t])
         /\ \A s \in saves : SaveOfTab(s, t, ui.tabs[t])
         /\ \A r \in reads : ReadOfTab(r, t, ui.tabs[t])
  BY <1>2 DEF TabsFit
<1>4. \A t \in Tabs : IsDirty(ui, t) <=> IsOpen(ui, t) /\ ui.tabs[t].dirty
  BY DEF IsDirty
<1>a. /\ \A s \in saves : s.tab \in Tabs
      /\ \A r \in reads : r.tab \in Tabs
      /\ ui.conflict \in SUBSET Tabs
  BY IInvParts, UiFields DEF Good, Others, Save, Read
<1>5. AtHome
  BY <1>2, <1>3, <1>a DEF AtHome, NotesFit, TabFits, SaveFits, AnswerFits, SaveOfTab, ReadOfTab
<1>6. Numbered
  BY <1>2, <1>3 DEF Numbered, NotesFit, TabFits, SaveFits, ReadFits, AnswerFits
<1>7. SavesOfTabs
  BY <1>2, <1>3, <1>4, <1>a DEF SavesOfTabs, TabFits, SaveOfTab, ReadOfTab, ConflictsFit
<1>8. UnsavedIsNewest
  <2>1. ASSUME NEW t \in DirtyTabs(ui)
        PROVE  /\ Older(ui.tabs[t].rev, ui.tabs[t].text)
               /\ disk[ui.tabs[t].path] # None => Older(disk[ui.tabs[t].path], ui.tabs[t].text)
               /\ \A s \in saves : s.path = ui.tabs[t].path => s.text <= ui.tabs[t].text
               /\ \A r \in reads : r.tab = t /\ r.st = "read" /\ r.crev = ui.tabs[t].crev
                                   => Older(r.rev, ui.tabs[t].text)
    BY <1>3, <1>4 DEF DirtyTabs, TabFits, SaveOfTab, ReadOfTab
  <2>2. \A s \in saves : s.st = "running" => Older(s.base, s.text)
    BY <1>2 DEF SaveFits
  <2> QED BY <2>1, <2>2 DEF UnsavedIsNewest
<1>9. KnownRevisions
  <2> SUFFICES ASSUME NEW n \in Notes, where[n] # None
               PROVE  LET file == disk[Home[n]] IN
                      /\ \A t \in TabsOf(ui, n) : NotAhead(ui.tabs[t].rev, file)
                      /\ \A s \in saves : s.path = Home[n] =>
                            /\ s.st = "running" => NotAhead(s.base, file)
                            /\ s.st = "saved" => NotAhead(s.rev, file)
                      /\ \A r \in reads : r.path = Home[n] /\ r.st = "read" => NotAhead(r.rev, file)
                      /\ \A i \in DOMAIN done : done[i].kind = "load" /\ done[i].note = n
                                                => NotAhead(done[i].rev, file)
    BY DEF KnownRevisions
  <2>1. \A t \in TabsOf(ui, n) : NotAhead(ui.tabs[t].rev, disk[Home[n]])
    BY <1>1, <1>3 DEF TabFits
  <2> QED BY <1>2, <2>1 DEF SaveFits, ReadFits, AnswerFits
<1>10. SavedIsKept
  BY <1>2, <1>3 DEF SavedIsKept, TabSettled, JustSaved, AnswersSettled, OrphansSettled, SnapshotsKept
<1> QED BY <1>2, <1>5, <1>6, <1>7, <1>8, <1>9, <1>10 DEF KeptAtHome

LEMMA KeptPartsPrime == IInv' /\ Fits' => KeptAtHome'
BY KeptParts, PTL

LEMMA TabsOfOpenPrime ==
    IInv' => /\ \A n \in Notes : TabsOf(ui', n) = {t \in Tabs : IsOpen(ui', t) /\ ui'.tabs[t].note = n}
             /\ \A t \in Tabs : IsOpen(ui', t) => ui'.tabs[t].note \in Notes /\ ui'.tabs[t] \in Tab
<1> DEFINE F == /\ \A n \in Notes : TabsOf(ui, n) = {t \in Tabs : IsOpen(ui, t) /\ ui.tabs[t].note = n}
                /\ \A t \in Tabs : IsOpen(ui, t) => ui.tabs[t].note \in Notes /\ ui.tabs[t] \in Tab
<1>1. (IInv => F)'
  <2>1. IInv => F
    BY TabsOfOpen
  <2> QED BY <2>1, PTL
<1> QED BY <1>1

-----------------------------------------------------------------------------
(* What the steps of the event loop keep *)

LEMMA RevisionFields ==
    ASSUME NEW rev \in Revisions
    PROVE  rev.text \in Nat /\ rev.stamp \in Nat /\ rev.by \in {"own", "other"}
BY Constants DEF Revisions, Texts

LEMMA TextsAreNumbers ==
    ASSUME IInv
    PROVE  /\ texts \in Nat
           /\ \A t \in Tabs : ui.tabs[t].text \in Nat /\ ui.tabs[t].crev \in Nat
           /\ \A s \in saves : s.text \in Nat /\ s.crev \in Nat /\ s.tab \in Tabs /\ s.path \in Paths
           /\ saves \in SUBSET Save /\ reads \in SUBSET Read
           /\ \A i \in DOMAIN done : done[i] \in Reply
           /\ disk \in [Paths -> Revisions \cup {None}]
<1>1. Good(ui) /\ ui \in Ui /\ Others
  BY IInvParts DEF Good
<1>2. \A t \in Tabs : ui.tabs[t] \in Tab
  BY <1>1, UiFields
<1>3. Texts \subseteq Nat
  BY Constants DEF Texts
<1>4. \A t \in Tabs : ui.tabs[t].text \in Nat /\ ui.tabs[t].crev \in Nat
  BY <1>2, <1>3, TabFields
<1>5. \A s \in saves : s.text \in Nat /\ s.crev \in Nat /\ s.tab \in Tabs /\ s.path \in Paths
  BY <1>1, <1>3 DEF Others, Save
<1>6. \A i \in DOMAIN done : done[i] \in Reply
  BY <1>1 DEF Others
<1> QED BY <1>1, <1>3, <1>4, <1>5, <1>6 DEF Others

\* New texts, and nothing else outside the loop, leave what fits as it is.
LEMMA LaterFits ==
    ASSUME UNCHANGED <<disk, where, bin>>, texts \in Nat, texts' \in Nat, texts <= texts',
           disk \in [Paths -> Revisions \cup {None}]
    PROVE  /\ \A tab \in Tab : TabFits(tab) => TabFits(tab)'
           /\ \A s \in Save : (s.st = "saved" => s.rev # None) /\ SaveFits(s) => SaveFits(s)'
           /\ \A r \in Read : (r.st = "read" => r.rev # None) /\ ReadFits(r) => ReadFits(r)'
           /\ \A a \in Reply : AnswerFits(a) => AnswerFits(a)'
           /\ NotesFit => NotesFit'
<1>1. \A rev \in Revisions : rev.text \in Nat
  BY RevisionFields
<1>2. \A a \in Nat : a <= texts => a <= texts'
  OBVIOUS
<1>3. Texts \subseteq Nat
  BY Constants DEF Texts
<1>4. ASSUME NEW tab \in Tab, TabFits(tab) PROVE TabFits(tab)'
  <2>1. tab.text \in Nat /\ tab.rev \in Revisions
    BY <1>3, <1>4, TabFields DEF TabFits
  <2>2. tab.text <= texts' /\ tab.rev.text <= texts'
    BY <1>1, <1>2, <1>4, <2>1 DEF TabFits
  <2> QED BY <1>4, <2>2 DEF TabFits
<1>5. ASSUME NEW s \in Save, s.st = "saved" => s.rev # None, SaveFits(s) PROVE SaveFits(s)'
  <2>1. s.text \in Nat /\ s.base \in Revisions
    BY <1>3, <1>5 DEF Save, SaveFits
  <2>2. s.text <= texts' /\ s.base.text <= texts'
    BY <1>1, <1>2, <1>5, <2>1 DEF SaveFits
  <2> QED BY <1>5, <2>2 DEF SaveFits
<1>6. ASSUME NEW r \in Read, r.st = "read" => r.rev # None, ReadFits(r) PROVE ReadFits(r)'
  <2>1. r.st = "read" => r.rev \in Revisions
    BY <1>6 DEF Read
  <2>2. r.st = "read" => r.rev.text <= texts'
    BY <1>1, <1>2, <1>6, <2>1 DEF ReadFits
  <2> QED BY <1>6, <2>2 DEF ReadFits
<1>7. ASSUME NEW a \in Reply, AnswerFits(a) PROVE AnswerFits(a)'
  <2>1. a.rev \in Revisions
    BY DEF Reply
  <2>2. a.rev.text <= texts'
    BY <1>1, <1>2, <1>7, <2>1 DEF AnswerFits
  <2> QED BY <1>7, <2>2 DEF AnswerFits
<1>8. ASSUME NotesFit PROVE NotesFit'
  <2>1. \A p \in Paths : disk[p] # None => disk[p].text <= texts'
    BY <1>1, <1>2, <1>8 DEF NotesFit
  <2> QED BY <1>8, <2>1 DEF NotesFit
<1> QED BY <1>4, <1>5, <1>6, <1>7, <1>8

\* A save that was prepared from what a handler made of the tabs
Prepared(x, s) ==
    /\ s.st = "running" /\ s.tab \in DirtyTabs(x)
    /\ s.path = x.tabs[s.tab].path /\ s.base = x.tabs[s.tab].rev
    /\ s.text = x.tabs[s.tab].text /\ s.crev = x.tabs[s.tab].crev

\* What a handler makes of the tabs: all but t0 are as before, or gone.
Handled(x, t0) ==
    /\ Good(x)
    /\ \A t \in Tabs \ {t0} : IsOpen(x, t) => IsOpen(ui, t) /\ x.tabs[t] = ui.tabs[t]
NewTabFits(tab, t0) ==
    /\ \A s \in saves : SaveOfTab(s, t0, tab)
    /\ \A r \in reads : ReadOfTab(r, t0, tab)
    /\ TabSettled(t0, tab)

\* The tabs of a handler fit the saves there are and those it prepares.
LEMMA HandledFits ==
    ASSUME IInv, Fits, UNCHANGED <<disk, where, bin>>, texts' \in Nat, texts <= texts',
           NEW x, NEW t0, Handled(x, t0),
           t0 \in Tabs /\ IsOpen(x, t0) => TabFits(x.tabs[t0])' /\ NewTabFits(x.tabs[t0], t0)
    PROVE  \A t \in Tabs : IsOpen(x, t) =>
              /\ x.tabs[t] \in Tab /\ x.tabs[t].note \in Notes
              /\ TabFits(x.tabs[t])' /\ NewTabFits(x.tabs[t], t)
<1>1. x \in Ui /\ OpenTabsAreBound(x)
  BY DEF Handled, Good
<1>2. SUFFICES ASSUME NEW t \in Tabs, IsOpen(x, t)
               PROVE  /\ x.tabs[t] \in Tab /\ x.tabs[t].note \in Notes
                      /\ TabFits(x.tabs[t])' /\ NewTabFits(x.tabs[t], t)
  OBVIOUS
<1>3. x.tabs[t] \in Tab
  BY <1>1, UiFields
<1>4. x.tabs[t].note \in Notes
  BY <1>1, <1>2, <1>3, TabFields DEF OpenTabsAreBound
<1>5. CASE t = t0
  BY <1>2, <1>3, <1>4, <1>5
<1>6. CASE t # t0
  <2>1. IsOpen(ui, t) /\ x.tabs[t] = ui.tabs[t]
    BY <1>2, <1>6 DEF Handled
  <2>2. /\ TabFits(ui.tabs[t]) /\ TabSettled(t, ui.tabs[t])
        /\ \A s \in saves : SaveOfTab(s, t, ui.tabs[t])
        /\ \A r \in reads : ReadOfTab(r, t, ui.tabs[t])
    BY <2>1 DEF Fits, TabsFit
  <2>3. TabFits(x.tabs[t])
    BY <2>1, <2>2
  <2>4. TabFits(x.tabs[t])'
    <3> DEFINE tab == x.tabs[t]
    <3>1. tab \in Tab /\ TabFits(tab)
      BY <1>3, <2>3
    <3> HIDE DEF tab
    <3>2. TabFits(tab)'
      BY <3>1, LaterFits, TextsAreNumbers
    <3> QED BY <3>2 DEF tab
  <2> QED BY <1>3, <1>4, <2>1, <2>2, <2>4 DEF NewTabFits
<1> QED BY <1>5, <1>6

LEMMA OneTabPerPath ==
    ASSUME NEW x, Good(x), NEW s \in Tabs, NEW t \in Tabs, IsOpen(x, s), IsOpen(x, t),
           x.tabs[s].note = x.tabs[t].note
    PROVE  s = t
BY DEF Good, Agree

LEMMA PreparedFits ==
    ASSUME NEW x, Good(x), NEW s, Prepared(x, s),
           \A t \in Tabs : IsOpen(x, t) => /\ x.tabs[t] \in Tab /\ x.tabs[t].note \in Notes
                                           /\ TabFits(x.tabs[t])'
    PROVE  /\ s.tab \in Tabs /\ IsOpen(x, s.tab) /\ x.tabs[s.tab].dirty
           /\ SaveFits(s)'
           /\ \A t \in Tabs : IsOpen(x, t) => SaveOfTab(s, t, x.tabs[t])
           /\ \A t \in Tabs : IsOpen(x, t) /\ s.path = Home[x.tabs[t].note] => t = s.tab
<1> DEFINE tab == x.tabs[s.tab]
<1>1. s.tab \in Tabs /\ IsOpen(x, s.tab) /\ tab.dirty
  BY DEF Prepared, DirtyTabs, IsDirty
<1>2. tab \in Tab /\ tab.note \in Notes /\ TabFits(tab)'
  BY <1>1
<1>3. /\ s.st = "running" /\ s.path = tab.path /\ s.base = tab.rev
      /\ s.text = tab.text /\ s.crev = tab.crev
  BY DEF Prepared
<1> HIDE DEF tab
<1>4. SaveFits(s)'
  <2>1. s.path = Home[tab.note]
    BY <1>2, <1>3 DEF TabFits
  <2>2. \A n \in Notes : s.path = Home[n] => n = tab.note
    BY <1>2, <2>1, Constants
  <2> QED BY <1>1, <1>2, <1>3, <2>1, <2>2 DEF SaveFits, TabFits
<1>5. ASSUME NEW t \in Tabs, IsOpen(x, t), s.path = Home[x.tabs[t].note] PROVE t = s.tab
  <2>1. s.path = Home[tab.note]
    BY <1>2, <1>3 DEF TabFits
  <2>2. x.tabs[t].note = tab.note
    BY <1>2, <1>5, <2>1, Constants
  <2> QED BY <1>1, <1>5, <2>2, OneTabPerPath DEF tab
<1>6. ASSUME NEW t \in Tabs, IsOpen(x, t) PROVE SaveOfTab(s, t, x.tabs[t])
  <2>1. tab.crev \in Nat /\ 0 < tab.crev /\ tab.text \in Nat
    BY <1>1, <1>2, TabFields, Constants DEF TabFits, Texts
  <2>2. CASE t = s.tab
    BY <1>3, <2>1, <2>2 DEF SaveOfTab, tab
  <2>3. CASE t # s.tab
    <3>1. s.path # x.tabs[t].path
      <4>1. x.tabs[t].path = Home[x.tabs[t].note]
        BY <1>6 DEF TabFits
      <4> QED BY <1>5, <1>6, <2>3, <4>1
    <3> QED BY <2>3, <3>1 DEF SaveOfTab
  <2> QED BY <2>2, <2>3
<1> QED BY <1>1, <1>4, <1>5, <1>6 DEF tab

\* A handler that touches one tab at most, prepares saves, takes answers and drops tabs keeps
\* what the invariant says of the texts.
LEMMA LoopKept ==
    ASSUME Kept0, GoodStep, OnlyTrash', OneLoad', UNCHANGED <<disk, where, bin>>, texts <= texts',
           NEW x, NEW t0, Handled(x, t0),
           t0 \in Tabs /\ IsOpen(x, t0) => TabFits(x.tabs[t0])' /\ NewTabFits(x.tabs[t0], t0),
           \A t \in Tabs : IsOpen(ui', t) => IsOpen(x, t) /\ ui'.tabs[t] = x.tabs[t],
           \A t \in DirtyTabs(x) : IsOpen(ui', t) \/ ui'.stage = "switched",
           \A s \in saves' : s \in saves \/ Prepared(x, s),
           \A r \in reads' : \/ r \in reads
                             \/ /\ r.st = "running"
                                /\ \A t \in Tabs : IsOpen(x, t) => ReadOfTab(r, t, x.tabs[t]),
           \A i \in DOMAIN done' : \E j \in DOMAIN done : done'[i] = done[j],
           ui.generation <= ui'.generation,
           ConflictsFit', SnapshotsKept', ui.stage = "switched" => ui'.stage = "switched"
    PROVE  Kept0'
<1>1. IInv /\ Fits /\ IInv'
  BY FitsParts DEF Kept0, GoodStep
<1>2. texts \in Nat /\ texts' \in Nat
  <2>1. Texts \subseteq Nat
    BY Constants DEF Texts
  <2>2. texts' \in Texts
    BY <1>1, IInvPartsPrime DEF Others
  <2> QED BY <1>1, <2>1, <2>2, TextsAreNumbers
<1>3. \A t \in Tabs : IsOpen(x, t) =>
         /\ x.tabs[t] \in Tab /\ x.tabs[t].note \in Notes
         /\ TabFits(x.tabs[t])' /\ NewTabFits(x.tabs[t], t)
  BY <1>1, <1>2, HandledFits
<1>4. Good(x)
  BY DEF Handled
<1>5. ASSUME NEW s, Prepared(x, s)
      PROVE  /\ s.tab \in Tabs /\ IsOpen(x, s.tab) /\ x.tabs[s.tab].dirty /\ SaveFits(s)'
             /\ \A t \in Tabs : IsOpen(x, t) => SaveOfTab(s, t, x.tabs[t])
             /\ \A t \in Tabs : IsOpen(x, t) /\ s.path = Home[x.tabs[t].note] => t = s.tab
  BY <1>3, <1>4, <1>5, PreparedFits
<1>6. NotesFit'
  BY <1>1, <1>2, LaterFits, TextsAreNumbers DEF Fits
<1>7. ASSUME NEW s \in saves' PROVE SaveFits(s)'
  <2>1. CASE Prepared(x, s)
    BY <1>5, <2>1
  <2>2. CASE s \in saves
    <3>1. s \in Save /\ (s.st = "saved" => s.rev # None) /\ SaveFits(s)
      BY <1>1, <2>2, IInvParts DEF Others, Fits
    <3> QED BY <1>1, <1>2, <3>1, LaterFits, TextsAreNumbers
  <2> QED BY <1>7, <2>1, <2>2
<1>8. ASSUME NEW r \in reads' PROVE ReadFits(r)'
  <2>1. CASE r \in reads
    <3>1. r \in Read /\ (r.st = "read" => r.rev # None) /\ ReadFits(r)
      BY <1>1, <2>1, IInvParts DEF Others, Fits
    <3> QED BY <1>1, <1>2, <3>1, LaterFits, TextsAreNumbers
  <2>2. CASE r.st = "running"
    BY <2>2 DEF ReadFits
  <2> QED BY <1>8, <2>1, <2>2
<1>9. ASSUME NEW i \in DOMAIN done' PROVE AnswerFits(done[i])'
  <2>1. PICK j \in DOMAIN done : done'[i] = done[j]
    BY <1>9
  <2>2. PICK a : a = done[j]
    OBVIOUS
  <2>3. a \in Reply /\ AnswerFits(a)
    BY <1>1, <2>2, TextsAreNumbers DEF Fits
  <2>4. AnswerFits(a)'
    BY <1>1, <1>2, <2>3, LaterFits, TextsAreNumbers
  <2>5. done'[i] = a
    BY <2>1, <2>2
  <2> QED BY <2>4, <2>5 DEF AnswerFits
<1>10. ASSUME NEW text, NEW n, Settles(text, n),
              \A s : Prepared(x, s) /\ CanReplace(s, n) => s.text = text
       PROVE  Settles(text, n)'
  <2>1. Holds(Kept(n), text)'
    BY <1>10 DEF Settles, Holds, Kept
  <2>2. ASSUME NEW s \in saves', CanReplace(s, n)' PROVE s.text = text
    <3>1. CanReplace(s, n)
      BY <2>2 DEF CanReplace
    <3> QED BY <1>10, <3>1 DEF Settles
  <2> QED BY <2>1, <2>2 DEF Settles
<1>11. TabsFit'
  <2> SUFFICES ASSUME NEW t \in Tabs, IsOpen(ui', t)
               PROVE  (/\ TabFits(ui.tabs[t]) /\ TabSettled(t, ui.tabs[t])
                       /\ \A s \in saves : SaveOfTab(s, t, ui.tabs[t])
                       /\ \A r \in reads : ReadOfTab(r, t, ui.tabs[t]))'
    BY DEF TabsFit
  <2>1. PICK tab : tab = x.tabs[t]
    OBVIOUS
  <2>2. /\ IsOpen(x, t) /\ ui'.tabs[t] = tab /\ tab \in Tab /\ tab.note \in Notes
        /\ TabFits(tab)' /\ NewTabFits(tab, t)
    BY <1>3, <2>1
  <2>3. ASSUME NEW s \in saves' PROVE SaveOfTab(s, t, tab)
    BY <1>5, <2>1, <2>2, <2>3 DEF NewTabFits
  <2>4. ASSUME NEW r \in reads' PROVE ReadOfTab(r, t, tab)
    BY <2>1, <2>2, <2>4 DEF NewTabFits
  <2>5. ASSUME NEW s, Prepared(x, s), CanReplace(s, tab.note)
        PROVE  t = s.tab /\ tab.dirty /\ s.crev = tab.crev /\ s.text = tab.text
    <3>1. s.path = Home[tab.note]
      BY <2>5 DEF CanReplace
    <3>2. t = s.tab /\ tab.dirty
      BY <1>5, <2>1, <2>2, <2>5, <3>1
    <3> QED BY <2>1, <2>5, <3>2 DEF Prepared
  <2>6. TabSettled(t, tab)'
    <3>1. ASSUME ~tab.dirty, ~Foreign(tab) PROVE Settles(tab.text, tab.note)'
      BY <1>10, <2>2, <2>5, <3>1 DEF NewTabFits, TabSettled
    <3>2. ASSUME NEW s \in saves', s.st = "saved", s.tab = t, s.crev = tab.crev
          PROVE  Settles(s.text, tab.note)'
      <4>1. s \in saves
        BY <3>2 DEF Prepared
      <4>2. Settles(s.text, tab.note)
        BY <2>2, <3>2, <4>1 DEF NewTabFits, TabSettled
      <4>3. s.text = tab.text
        BY <2>3, <3>2 DEF SaveOfTab
      <4> QED BY <1>10, <2>5, <4>2, <4>3
    <3> QED BY <3>1, <3>2 DEF TabSettled, Foreign
  <2> QED BY <2>2, <2>3, <2>4, <2>6
<1>12. AnswersSettled'
  <2> SUFFICES ASSUME ui'.stage # "switched", NEW i \in DOMAIN done', Loading(done[i])',
                      done'[i].rev.by = "own"
               PROVE  Settles(done[i].rev.text, done[i].note)'
    BY DEF AnswersSettled
  <2>1. PICK j \in DOMAIN done : done'[i] = done[j]
    OBVIOUS
  <2>2. PICK a : a = done[j]
    OBVIOUS
  <2>3. a.kind = "load" /\ a.generation = ui'.generation /\ TabsOf(ui', a.note) = {}
    BY <2>1, <2>2 DEF OneLoad, Loading
  <2>4. Loading(a)
    <3>1. a \in Reply /\ a.generation <= ui.generation
      BY <1>1, <2>2, <2>3, TextsAreNumbers DEF Fits, OneLoad
    <3>2. a.generation \in Nat /\ ui.generation \in Nat
      BY <1>1, <3>1, IInvParts, UiFields DEF Good, Reply
    <3> QED BY <2>3, <3>1, <3>2 DEF Loading
  <2>5. Settles(a.rev.text, a.note)
    BY <1>1, <2>1, <2>2, <2>4 DEF Fits, AnswersSettled
  <2>6. a.note \in Notes
    BY <1>1, <2>2, TextsAreNumbers DEF Reply
  <2>7. ASSUME NEW s, Prepared(x, s), CanReplace(s, a.note) PROVE FALSE
    <3>1. s.path = Home[a.note]
      BY <2>7 DEF CanReplace
    <3>2. /\ s.tab \in Tabs /\ IsOpen(x, s.tab) /\ x.tabs[s.tab].dirty
          /\ s.path = x.tabs[s.tab].path
      BY <1>5, <2>7 DEF Prepared
    <3>3. x.tabs[s.tab].note = a.note
      <4>1. PICK tab : tab = x.tabs[s.tab]
        OBVIOUS
      <4>2. tab.note \in Notes /\ TabFits(tab)'
        BY <1>3, <3>2, <4>1
      <4>3. Home[tab.note] = Home[a.note]
        BY <3>1, <3>2, <4>1, <4>2 DEF TabFits
      <4> QED BY <2>6, <4>1, <4>2, <4>3, Constants
    <3>4. IsOpen(ui', s.tab) /\ ui'.tabs[s.tab].note = a.note
      BY <3>2, <3>3 DEF DirtyTabs, IsDirty
    <3> QED BY <1>1, <2>3, <2>6, <3>2, <3>4, TabsOfOpenPrime
  <2>8. Settles(a.rev.text, a.note)'
    BY <1>10, <2>5, <2>7
  <2> QED BY <2>1, <2>2, <2>8 DEF Settles, CanReplace, Kept, Holds
<1>13. OrphansSettled'
  <2> SUFFICES ASSUME ui'.stage # "switched", NEW n \in Notes, NEW s \in saves',
                      CanReplace(s, n), ~IsOpen(ui', s.tab), disk[Home[n]].by = "own"
               PROVE  s.text = disk[Home[n]].text
    BY DEF OrphansSettled, CanReplace
  <2>1. s \in saves
    BY <1>5 DEF DirtyTabs, IsDirty
  <2>2. CASE ~IsOpen(ui, s.tab)
    BY <1>1, <2>1, <2>2 DEF Fits, OrphansSettled
  <2>3. CASE IsOpen(ui, s.tab)
    <3> DEFINE t == s.tab
               tab == ui.tabs[t]
    <3>1. t \in Tabs /\ TabFits(tab) /\ TabSettled(t, tab) /\ SaveOfTab(s, t, tab)
      BY <1>1, <2>1, <2>3, TextsAreNumbers DEF Fits, TabsFit
    <3>2. tab.note \in Notes /\ tab.note = n /\ where[n] # None
      <4>1. s.path = Home[n] /\ s.path = tab.path /\ tab.path = Home[tab.note] /\ where[n] # None
        BY <3>1 DEF CanReplace, SaveOfTab, TabFits
      <4>2. tab.note \in Notes
        BY <1>1, <2>3, <3>1, TabsOfOpen
      <4> QED BY <4>1, <4>2, Constants
    <3>3. ~tab.dirty
      BY <2>3, <3>1, <3>2 DEF GoodStep, UnsavedStep, DirtyTabs, IsDirty
    <3>4. tab.crev # 0
      <4>1. tab.crev \in Nat /\ s.crev \in Nat
        BY <1>1, <2>1, <3>1, TextsAreNumbers
      <4> QED BY <3>1, <4>1 DEF SaveOfTab
    <3>5. Settles(tab.text, n)
      BY <3>1, <3>2, <3>3, <3>4 DEF TabSettled, Foreign
    <3>6. s.text = tab.text
      BY <2>1, <3>5 DEF Settles
    <3>7. Kept(n) = disk[Home[n]]
      BY <1>1, <3>2 DEF Kept, Fits, NotesFit
    <3> QED BY <3>5, <3>6, <3>7 DEF Settles, Holds
  <2> QED BY <2>2, <2>3
<1>14. Fits'
  BY <1>6, <1>7, <1>8, <1>9, <1>11, <1>12, <1>13 DEF Fits
<1> QED BY <1>1, <1>14, KeptPartsPrime DEF Kept0

\* What a handler leaves of the commands, the answers and the outcomes, with nothing moved.
MoreTrash ==
    \A i \in DOMAIN jobs' : \/ i \in DOMAIN jobs /\ jobs'[i] = jobs[i]
                            \/ jobs'[i].kind = "trash"
FewerAnswers(k) == \A i \in DOMAIN done' : i + k \in DOMAIN done /\ done'[i] = done[i + k]
TrashOutcome(o) == o.again = <<>> /\ \A k \in DOMAIN o.send : o.send[k].kind = "trash"

LEMMA TrashKept ==
    ASSUME OnlyTrash, NEW k \in Nat, FewerAnswers(k),
           \A i \in DOMAIN jobs' : \/ i \in DOMAIN jobs /\ jobs'[i] = jobs[i]
                                   \/ jobs'[i].kind \in {"load", "trash"},
           \A d \in ui'.deferred : d \in ui.deferred \/ d.job.kind = "trash",
           \A i \in DOMAIN outcomes' : \/ \E j \in DOMAIN outcomes : outcomes'[i] = outcomes[j]
                                       \/ TrashOutcome(outcomes[i])'
    PROVE  OnlyTrash'
<1>1. \A i \in DOMAIN jobs' : jobs'[i].kind \in {"load", "trash"}
  BY DEF OnlyTrash
<1>2. \A i \in DOMAIN done' : done'[i].kind \in {"load", "trash"}
  BY DEF OnlyTrash, FewerAnswers
<1>3. \A d \in ui'.deferred : d.job.kind = "trash"
  BY DEF OnlyTrash
<1>4. ASSUME NEW i \in DOMAIN outcomes'
      PROVE  /\ outcomes'[i].again = <<>>
             /\ \A j \in DOMAIN outcomes'[i].send : outcomes'[i].send[j].kind = "trash"
  <2>1. CASE TrashOutcome(outcomes[i])'
    BY <2>1 DEF TrashOutcome
  <2>2. CASE \E j \in DOMAIN outcomes : outcomes'[i] = outcomes[j]
    <3>1. PICK j \in DOMAIN outcomes : outcomes'[i] = outcomes[j]
      BY <2>2
    <3> QED BY <3>1 DEF OnlyTrash
  <2> QED BY <1>4, <2>1, <2>2
<1> QED BY <1>1, <1>2, <1>3, <1>4 DEF OnlyTrash

\* Unless a note is selected, the loads on their way are some of those there were.
LEMMA LoadsKept ==
    ASSUME IInv, IInv', OneLoad, NEW k \in Nat, FewerAnswers(k), MoreTrash,
           ui.generation <= ui'.generation,
           \/ \A n \in Notes : TabsOf(ui, n) = {} => TabsOf(ui', n) = {}
           \/ ui'.generation # ui.generation
           \/ /\ \A i \in DOMAIN jobs : ~Loading(jobs[i])
              /\ \A i \in DOMAIN done' : ~Loading(done'[i])
    PROVE  OneLoad'
<1>1. ui.generation \in Nat /\ ui'.generation \in Nat
  BY IInvParts, IInvPartsPrime, UiFields DEF Good
<1>2. /\ \A i \in DOMAIN jobs : jobs[i].generation \in Nat /\ jobs[i].note \in Notes
      /\ \A i \in DOMAIN done : done[i].generation \in Nat /\ done[i].note \in Notes
  <2>1. jobs \in Seq(Job) /\ done \in Seq(Reply)
    BY IInvParts DEF Others
  <2>2. /\ \A i \in DOMAIN jobs : jobs[i] \in Job
        /\ \A i \in DOMAIN done : done[i] \in Reply
    BY <2>1
  <2> QED BY <2>2 DEF Job, Reply
<1>3. ASSUME NEW i \in DOMAIN jobs', jobs'[i].kind = "load"
      PROVE  /\ i \in DOMAIN jobs /\ jobs'[i] = jobs[i] /\ jobs'[i].generation <= ui'.generation
             /\ jobs'[i].generation = ui'.generation =>
                   /\ Loading(jobs[i]) /\ ui'.generation = ui.generation
  <2>1. i \in DOMAIN jobs /\ jobs'[i] = jobs[i]
    BY <1>3 DEF MoreTrash
  <2>2. jobs[i].generation <= ui.generation
    BY <1>3, <2>1 DEF OneLoad
  <2> QED BY <1>1, <1>2, <1>3, <2>1, <2>2 DEF Loading
<1>4. ASSUME NEW i \in DOMAIN done', done'[i].kind = "load"
      PROVE  /\ i + k \in DOMAIN done /\ done'[i] = done[i + k]
             /\ done'[i].generation <= ui'.generation
             /\ done'[i].generation = ui'.generation =>
                   /\ Loading(done[i + k]) /\ ui'.generation = ui.generation
  <2>1. i + k \in DOMAIN done /\ done'[i] = done[i + k]
    BY DEF FewerAnswers
  <2>2. done[i + k].generation <= ui.generation
    BY <1>4, <2>1 DEF OneLoad
  <2> QED BY <1>1, <1>2, <1>4, <2>1, <2>2 DEF Loading
<1>5. \A i \in DOMAIN jobs' : Loading(jobs[i])' =>
         /\ i \in DOMAIN jobs /\ jobs'[i] = jobs[i] /\ Loading(jobs[i])
         /\ ui'.generation = ui.generation
  BY <1>3 DEF Loading
<1>6. \A i \in DOMAIN done' : Loading(done[i])' =>
         /\ i + k \in DOMAIN done /\ done'[i] = done[i + k] /\ Loading(done[i + k])
         /\ ui'.generation = ui.generation
  BY <1>4 DEF Loading
<1>7. /\ \A i \in DOMAIN jobs' : jobs'[i].kind = "load" => jobs'[i].generation <= ui'.generation
      /\ \A i \in DOMAIN done' : done'[i].kind = "load" => done'[i].generation <= ui'.generation
  BY <1>3, <1>4
<1>8. \A i, j \in DOMAIN jobs' : Loading(jobs[i])' /\ Loading(jobs[j])' => i = j
  BY <1>5 DEF OneLoad
<1>9. \A i, j \in DOMAIN done' : Loading(done[i])' /\ Loading(done[j])' => i = j
  <2>1. DOMAIN done' \subseteq Nat
    BY IInvPartsPrime DEF Others
  <2>2. \A i, j \in DOMAIN done' : Loading(done[i])' /\ Loading(done[j])' => i + k = j + k
    BY <1>6 DEF OneLoad
  <2> QED BY <2>1, <2>2
<1>10. \A i \in DOMAIN jobs', j \in DOMAIN done' : ~(Loading(jobs[i])' /\ Loading(done[j])')
  BY <1>5, <1>6 DEF OneLoad
<1>11. \A i \in DOMAIN jobs' : Loading(jobs[i])' => TabsOf(ui', jobs'[i].note) = {}
  <2> SUFFICES ASSUME NEW i \in DOMAIN jobs', Loading(jobs[i])'
               PROVE  TabsOf(ui', jobs'[i].note) = {}
    OBVIOUS
  <2>1. /\ i \in DOMAIN jobs /\ jobs'[i] = jobs[i] /\ Loading(jobs[i])
        /\ ui'.generation = ui.generation
    BY <1>5
  <2>2. TabsOf(ui, jobs[i].note) = {}
    BY <2>1 DEF OneLoad
  <2> QED BY <1>2, <2>1, <2>2
<1>12. \A i \in DOMAIN done' : Loading(done[i])' => TabsOf(ui', done'[i].note) = {}
  <2> SUFFICES ASSUME NEW i \in DOMAIN done', Loading(done[i])'
               PROVE  TabsOf(ui', done'[i].note) = {}
    OBVIOUS
  <2>1. /\ i + k \in DOMAIN done /\ done'[i] = done[i + k] /\ Loading(done[i + k])
        /\ ui'.generation = ui.generation
    BY <1>6
  <2>2. TabsOf(ui, done[i + k].note) = {}
    BY <2>1 DEF OneLoad
  <2> QED BY <1>2, <2>1, <2>2
<1> QED BY <1>7, <1>8, <1>9, <1>10, <1>11, <1>12 DEF OneLoad

\* A handler, and the change of the workspace it may complete
Ends(x) == Carries(x, ui') \/ Switches(x, ui')

LEMMA EndsAsBecomes ==
    ASSUME NEW x, Good(x), Becomes(x)
    PROVE  Ends(x)
BY SettledGood DEF Becomes, Ends

LEMMA EndedTabs ==
    ASSUME NEW x, Good(x), Ends(x)
    PROVE  /\ \A t \in Tabs : IsOpen(ui', t) => IsOpen(x, t) /\ ui'.tabs[t] = x.tabs[t]
           /\ \A t \in DirtyTabs(x) : IsOpen(ui', t) \/ ui'.stage = "switched"
           /\ ui'.conflict = x.conflict /\ ui'.generation = x.generation
           /\ ui'.deferred \subseteq x.deferred
           /\ \/ ui'.stage = x.stage /\ ui'.kept = x.kept /\ ui'.tabs = x.tabs
              \/ ui'.stage = "switched"
<1>1. CASE Carries(x, ui')
  BY <1>1 DEF Carries, SameTabs, SameRest, IsOpen, DirtyTabs, IsDirty
<1>2. CASE Switches(x, ui')
  <2>1. Registered(x) = {t \in Tabs : IsOpen(x, t)}
    BY DEF Good, Agree
  <2>2. \A t \in Tabs : ui'.tabs[t] = IF IsOpen(x, t) THEN GoneTab ELSE x.tabs[t]
    BY <1>2, <2>1 DEF Switches, Closes
  <2>3. \A t \in Tabs : ~IsOpen(ui', t)
    BY <2>2, NewTabs DEF IsOpen
  <2> QED BY <1>2, <2>3 DEF Switches
<1> QED BY <1>1, <1>2 DEF Ends

LEMMA HandlerKept ==
    ASSUME Kept0, GoodStep, OneLoad', UNCHANGED <<disk, where, bin>>, texts <= texts',
           NEW k \in Nat, FewerAnswers(k),
           \A i \in DOMAIN jobs' : \/ i \in DOMAIN jobs /\ jobs'[i] = jobs[i]
                                   \/ jobs'[i].kind \in {"load", "trash"},
           \A i \in DOMAIN outcomes' : \/ \E j \in DOMAIN outcomes : outcomes'[i] = outcomes[j]
                                       \/ TrashOutcome(outcomes[i])',
           NEW x, NEW t0, Handled(x, t0), Ends(x),
           t0 \in Tabs /\ IsOpen(x, t0) => TabFits(x.tabs[t0])' /\ NewTabFits(x.tabs[t0], t0),
           \A s \in saves' : s \in saves \/ Prepared(x, s),
           \A r \in reads' : \/ r \in reads
                             \/ /\ r.st = "running"
                                /\ \A t \in Tabs : IsOpen(x, t) => ReadOfTab(r, t, x.tabs[t]),
           \A d \in x.deferred : d \in ui.deferred \/ d.job.kind = "trash",
           \A t \in x.conflict : IsOpen(x, t) => x.tabs[t].crev > 0,
           ui.generation <= x.generation,
           ui.stage = "switched" => x.stage = "switched",
           x.stage = "exited" => Snapshots(x) \subseteq x.kept
    PROVE  Kept0'
<1>1. Fits /\ IInv /\ OnlyTrash
  BY FitsParts DEF Kept0, Fits
<1>2. /\ \A t \in Tabs : IsOpen(ui', t) => IsOpen(x, t) /\ ui'.tabs[t] = x.tabs[t]
      /\ \A t \in DirtyTabs(x) : IsOpen(ui', t) \/ ui'.stage = "switched"
      /\ ui'.conflict = x.conflict /\ ui'.generation = x.generation
      /\ ui'.deferred \subseteq x.deferred
      /\ \/ ui'.stage = x.stage /\ ui'.kept = x.kept /\ ui'.tabs = x.tabs
         \/ ui'.stage = "switched"
  BY EndedTabs DEF Handled
<1>3. OnlyTrash'
  BY <1>1, <1>2, TrashKept
<1>4. ConflictsFit'
  <2>1. x.conflict \in SUBSET Tabs
    BY UiFields DEF Handled, Good
  <2> QED BY <1>2, <2>1 DEF ConflictsFit
<1>5. SnapshotsKept'
  <2>1. ui'.tabs = x.tabs => Snapshots(ui') = Snapshots(x)
    BY DEF Snapshots, DirtyTabs, IsDirty, IsOpen
  <2> QED BY <1>2, <2>1 DEF SnapshotsKept
<1>6. \A i \in DOMAIN done' : \E j \in DOMAIN done : done'[i] = done[j]
  BY DEF FewerAnswers
<1>7. ui.stage = "switched" => ui'.stage = "switched"
  BY <1>2
<1>8. ui.generation <= ui'.generation
  BY <1>2
<1> QED BY <1>2, <1>3, <1>4, <1>5, <1>6, <1>7, <1>8, LoopKept

LEMMA SameAnswers ==
    ASSUME IInv, UNCHANGED done PROVE FewerAnswers(0)
<1>1. DOMAIN done \subseteq Nat
  BY IInvParts DEF Others
<1> QED BY <1>1 DEF FewerAnswers

LEMMA AnswerTaken ==
    ASSUME IInv, done # <<>>, done' = Tail(done), UNCHANGED where
    PROVE  /\ FewerAnswers(1) /\ Head(done) \in Reply
           /\ Head(done) = done[1] /\ 1 \in DOMAIN done
BY TakenDone DEF FewerAnswers

LEMMA FewerTabs ==
    ASSUME IInv, IInv',
           \A t \in Tabs : IsOpen(ui', t) => IsOpen(ui, t) /\ ui'.tabs[t].note = ui.tabs[t].note
    PROVE  \A n \in Notes : TabsOf(ui, n) = {} => TabsOf(ui', n) = {}
BY TabsOfOpen, TabsOfOpenPrime

LEMMA SpawnedPrepared ==
    ASSUME IInv, NEW x, Good(x), NEW ts, NEW s \in Spawned(x, ts)
    PROVE  Prepared(x, s)
<1>1. IsFiniteSet(saves) /\ x \in Ui /\ OpenTabsAreBound(x)
  BY IInvParts DEF Others, Good
<1> QED BY <1>1, SpawnedType DEF Prepared

\* The tabs stay as they are, or all go.
LEMMA SameTabsKept ==
    ASSUME Kept0, GoodStep, UNCHANGED <<disk, where, bin, texts, reads, done>>, MoreTrash,
           \A i \in DOMAIN outcomes' : \/ \E j \in DOMAIN outcomes : outcomes'[i] = outcomes[j]
                                       \/ TrashOutcome(outcomes[i])',
           NEW x, Good(x), SameTabs(ui, x), Ends(x),
           x.conflict = ui.conflict, x.generation = ui.generation,
           \A d \in x.deferred : d \in ui.deferred \/ d.job.kind = "trash",
           NEW ts, saves' \subseteq saves \cup Spawned(ui, ts),
           ui.stage = "switched" => x.stage = "switched",
           x.stage = "exited" => Snapshots(x) \subseteq x.kept
    PROVE  Kept0'
<1>1. IInv /\ IInv' /\ Fits /\ OneLoad /\ Good(ui)
  BY FitsParts, IInvParts DEF Kept0, GoodStep, Fits
<1>2. FewerAnswers(0)
  BY <1>1, SameAnswers
<1>3. texts <= texts' /\ ui.generation <= x.generation
  BY <1>1, TextsAreNumbers, UiFields DEF Good
<1>4. \A t \in Tabs : IsOpen(x, t) <=> IsOpen(ui, t)
  BY DEF SameTabs, IsOpen
<1>5. Handled(x, 0) /\ 0 \notin Tabs
  BY <1>4, Constants DEF Handled, SameTabs
<1>6. OneLoad'
  <2>1. /\ \A t \in Tabs : IsOpen(ui', t) => IsOpen(x, t) /\ ui'.tabs[t] = x.tabs[t]
        /\ ui'.generation = x.generation
    BY EndedTabs
  <2>2. \A n \in Notes : TabsOf(ui, n) = {} => TabsOf(ui', n) = {}
    BY <1>1, <1>4, <2>1, FewerTabs DEF SameTabs
  <2> QED BY <1>1, <1>2, <1>3, <2>1, <2>2, LoadsKept
<1>7. ASSUME NEW s \in saves' PROVE s \in saves \/ Prepared(x, s)
  <2>1. ASSUME s \in Spawned(ui, ts) PROVE Prepared(x, s)
    <3>1. Prepared(ui, s)
      BY <1>1, <2>1, SpawnedPrepared
    <3> QED BY <3>1 DEF Prepared, SameTabs, DirtyTabs, IsDirty, IsOpen
  <2> QED BY <2>1
<1>8. \A t \in x.conflict : IsOpen(x, t) => x.tabs[t].crev > 0
  <2>1. ui.conflict \in SUBSET Tabs
    BY <1>1, UiFields DEF Good
  <2> QED BY <1>1, <1>4, <2>1 DEF Fits, ConflictsFit, SameTabs
<1>9. \A i \in DOMAIN jobs' : \/ i \in DOMAIN jobs /\ jobs'[i] = jobs[i]
                              \/ jobs'[i].kind \in {"load", "trash"}
  BY DEF MoreTrash
<1> QED BY <1>2, <1>3, <1>5, <1>6, <1>7, <1>8, <1>9, HandlerKept

LEMMA SameJobsAndOutcomes ==
    ASSUME IInv, UNCHANGED <<jobs, outcomes>>
    PROVE  /\ MoreTrash
           /\ \A i \in DOMAIN outcomes' : \E j \in DOMAIN outcomes : outcomes'[i] = outcomes[j]
BY DEF MoreTrash

LEMMA RunningStage ==
    ASSUME Idle
    PROVE  ui.stage = "running" /\ ui.stage # "switched" /\ ui.stage # "exited"
BY DEF Idle

LEMMA SubmitKept ==
    ASSUME Kept0, GoodStep, Idle, NEW ts \in SUBSET Tabs, Becomes(Submitted(ui, ts)),
           saves' = saves \cup Spawned(ui, ts),
           UNCHANGED <<outcomes, reads, disk, worker, texts>>
    PROVE  Kept0'
<1> DEFINE x == Submitted(ui, ts)
<1>1. IInv /\ Good(ui)
  BY IInvParts DEF Kept0
<1>2. /\ Good(x) /\ SameTabs(ui, x) /\ SameRest(ui, x) /\ x.generation = ui.generation
      /\ Becomes(x)
  BY <1>1, SubmittedGood
<1> HIDE DEF x
<1>3. Ends(x)
  BY <1>2, EndsAsBecomes
<1>4. x.stage = ui.stage /\ x.conflict = ui.conflict /\ x.deferred = ui.deferred
  BY <1>2 DEF SameRest
<1>5. /\ UNCHANGED <<disk, where, bin, texts, reads, done>> /\ MoreTrash
      /\ \A i \in DOMAIN outcomes' : \E j \in DOMAIN outcomes : outcomes'[i] = outcomes[j]
  BY <1>1, SameJobsAndOutcomes DEF worker
<1>6. ui.stage # "switched" /\ x.stage # "exited"
  BY <1>4, RunningStage
<1>7. saves' \subseteq saves \cup Spawned(ui, ts)
  OBVIOUS
<1>8. \A d \in x.deferred : d \in ui.deferred
  BY <1>4
<1> QED BY <1>2, <1>3, <1>4, <1>5, <1>6, <1>7, <1>8, SameTabsKept

LEMMA DueKept ==
    ASSUME Kept0, GoodStep, NEW t \in Tabs, Due(t) PROVE Kept0'
BY SubmitKept DEF Due, spent

LEMMA SaveNowKept ==
    ASSUME Kept0, GoodStep, NEW t \in Tabs, SaveNow(t) PROVE Kept0'
BY SubmitKept DEF SaveNow

LEMMA AppendedTrash ==
    ASSUME IInv, NEW b \in Seq(Job), jobs' = jobs \o b, \A i \in DOMAIN b : b[i].kind = "trash"
    PROVE  MoreTrash
<1>1. jobs \in Seq(Job)
  BY IInvParts DEF Others
<1>2. ASSUME NEW i \in DOMAIN jobs' PROVE \/ i \in DOMAIN jobs /\ jobs'[i] = jobs[i]
                                          \/ \E j \in DOMAIN b : jobs'[i] = b[j]
  <2>1. CASE i <= Len(jobs)
    BY <1>1, <1>2, <2>1
  <2>2. CASE i > Len(jobs)
    <3>1. i - Len(jobs) \in DOMAIN b /\ jobs'[i] = b[i - Len(jobs)]
      BY <1>1, <1>2, <2>2
    <3> QED BY <3>1
  <2> QED BY <1>1, <1>2, <2>1, <2>2
<1> QED BY <1>2 DEF MoreTrash

LEMMA TrashRequestKept ==
    ASSUME Kept0, GoodStep, NEW n \in Notes, RequestRelocation(n, "trash", None) PROVE Kept0'
<1> DEFINE job == [kind |-> "trash", note |-> n, to |-> None, generation |-> 0]
           x == Deferred(ui, job)
<1>1. /\ Idle /\ Becomes(x) /\ saves' = saves \cup Spawned(ui, DirtyTabsOf(ui, n))
      /\ jobs' = IF DirtyTabsOf(ui, n) = {} THEN Append(jobs, job) ELSE jobs
      /\ UNCHANGED <<outcomes, reads, disk, done, where, bin, texts>>
  BY DEF RequestRelocation
<1>2. IInv /\ Good(ui) /\ jobs \in Seq(Job)
  BY IInvParts DEF Kept0, Others
<1>3. /\ job \in Job /\ <<job>> \in Seq(Job) /\ job.kind = "trash"
      /\ DOMAIN <<job>> = {1} /\ <<job>>[1] = job
  BY DEF Job, Relocations
<1> HIDE DEF job
<1>4. /\ Good(x) /\ SameTabs(ui, x) /\ x.conflict = ui.conflict /\ x.stage = ui.stage
      /\ x.generation = ui.generation
      /\ \A d \in x.deferred : d \in ui.deferred \/ d.job.kind = "trash"
  BY <1>2, <1>3, DeferredGood
<1> HIDE DEF x
<1>5. Ends(x)
  BY <1>1, <1>4, EndsAsBecomes
<1>6. MoreTrash
  <2>1. CASE jobs' = jobs
    BY <2>1 DEF MoreTrash
  <2>2. CASE jobs' = Append(jobs, job)
    <3>1. jobs' = jobs \o <<job>>
      BY <1>2, <1>3, <2>2
    <3>2. \A i \in DOMAIN <<job>> : <<job>>[i].kind = "trash"
      BY <1>3
    <3> QED BY <1>2, <1>3, <3>1, <3>2, AppendedTrash
  <2> QED BY <1>1, <2>1, <2>2
<1>7. ui.stage # "switched" /\ x.stage # "exited"
  BY <1>1, <1>4, RunningStage
<1>8. saves' \subseteq saves \cup Spawned(ui, DirtyTabsOf(ui, n))
  BY <1>1
<1>9. UNCHANGED <<disk, where, bin, texts, reads, done>> /\ UNCHANGED outcomes
  BY <1>1
<1> QED BY <1>4, <1>5, <1>6, <1>7, <1>8, <1>9, SameTabsKept

LEMMA ApplyKept ==
    ASSUME Kept0, GoodStep, ApplyOutcome PROVE Kept0'
<1> DEFINE x == [ui EXCEPT !.phase = IF Tail(outcomes) = <<>> THEN "idle" ELSE "applying"]
           o == Head(outcomes)
<1>1. IInv /\ Good(ui) /\ OnlyTrash /\ SnapshotsKept /\ ui \in Ui
  BY IInvParts, FitsParts DEF Kept0, Fits, Good
<1>2. outcomes \in Seq([send : Seq(Job), again : Seq(Job)]) /\ outcomes # <<>>
  BY <1>1, IInvParts DEF Others, ApplyOutcome
<1>3. /\ o \in [send : Seq(Job), again : Seq(Job)] /\ o = outcomes[1] /\ 1 \in DOMAIN outcomes
      /\ \A i \in DOMAIN Tail(outcomes) : /\ i + 1 \in DOMAIN outcomes
                                          /\ Tail(outcomes)[i] = outcomes[i + 1]
  BY <1>2, HeadAndTail
<1>4. /\ o.again = <<>> /\ o.send \in Seq(Job) /\ \A i \in DOMAIN o.send : o.send[i].kind = "trash"
  BY <1>1, <1>3 DEF OnlyTrash
<1>5. /\ outcomes' = Tail(outcomes) /\ Becomes(x) /\ saves' = saves \cup Spawned(ui, {})
      /\ jobs' = jobs \o o.send \o <<>>
      /\ UNCHANGED <<reads, disk, done, where, bin, texts>>
  BY <1>4 DEF ApplyOutcome, spent
<1>6. MoreTrash
  <2>1. jobs \in Seq(Job)
    BY <1>1, IInvParts DEF Others
  <2>2. jobs' = jobs \o o.send
    BY <1>4, <1>5, <2>1
  <2> QED BY <1>1, <1>4, <2>2, AppendedTrash
<1>7. \A i \in DOMAIN outcomes' : \E j \in DOMAIN outcomes : outcomes'[i] = outcomes[j]
  BY <1>3, <1>5
<1> HIDE DEF o
<1>8. /\ x \in Ui /\ SameTabs(ui, x) /\ x.conflict = ui.conflict /\ x.stage = ui.stage
      /\ x.kept = ui.kept /\ x.generation = ui.generation /\ x.deferred = ui.deferred
  BY <1>1 DEF Ui, SameTabs
<1> HIDE DEF x
<1>9. Good(x)
  BY <1>1, <1>8, SameGood
<1>10. Ends(x)
  BY <1>5, <1>9, EndsAsBecomes
<1>11. x.stage = "exited" => Snapshots(x) \subseteq x.kept
  <2>1. Snapshots(x) = Snapshots(ui)
    BY <1>8 DEF Snapshots, DirtyTabs, IsDirty, IsOpen, SameTabs
  <2> QED BY <1>1, <1>8, <2>1 DEF SnapshotsKept
<1>12. /\ UNCHANGED <<disk, where, bin, texts, reads, done>>
       /\ saves' \subseteq saves \cup Spawned(ui, {})
       /\ ui.stage = "switched" => x.stage = "switched"
       /\ \A d \in x.deferred : d \in ui.deferred
  BY <1>5, <1>8
<1> QED BY <1>6, <1>7, <1>8, <1>9, <1>10, <1>11, <1>12, SameTabsKept

LEMMA SwitchKept ==
    ASSUME Kept0, GoodStep, Switch PROVE Kept0'
<1> DEFINE x == SwitchBegun(ui)
           ts == DirtyTabs(ui) \cap Registered(ui)
<1>1. /\ Idle /\ Becomes(x) /\ saves' = saves \cup Spawned(ui, ts)
      /\ UNCHANGED <<outcomes, reads, disk, jobs, done, where, bin, texts>>
  BY DEF Switch, worker
<1>2. IInv
  BY DEF Kept0
<1>3. /\ Good(x) /\ SameTabs(ui, x) /\ x.generation = ui.generation
      /\ x.stage = ui.stage /\ x.conflict = ui.conflict /\ x.deferred = ui.deferred
  BY <1>2, SwitchBegunGood DEF SameRest
<1> HIDE DEF x, ts
<1>4. Ends(x)
  BY <1>1, <1>3, EndsAsBecomes
<1>5. /\ MoreTrash
      /\ \A i \in DOMAIN outcomes' : \E j \in DOMAIN outcomes : outcomes'[i] = outcomes[j]
  BY <1>1, <1>2, SameJobsAndOutcomes
<1>6. ui.stage # "switched" /\ x.stage # "exited"
  BY <1>1, <1>3, RunningStage
<1>7. /\ saves' \subseteq saves \cup Spawned(ui, ts)
      /\ UNCHANGED <<disk, where, bin, texts, reads, done>>
      /\ \A d \in x.deferred : d \in ui.deferred
  BY <1>1, <1>3
<1> QED BY <1>3, <1>4, <1>5, <1>6, <1>7, SameTabsKept

\* The exit leaves the tabs as they are, and what is still unsaved is in a snapshot.
LEMMA NoChange ==
    ASSUME NEW x, x = ui' PROVE Ends(x)
BY DEF Ends, Carries, SameTabs, SameRest

LEMMA ExitKept ==
    ASSUME Kept0, GoodStep, Exit PROVE Kept0'
<1> DEFINE ts == DirtyTabs(ui) \cap Registered(ui)
           v == Submitted(ui, ts)
<1>1. /\ Idle /\ ui' = [v EXCEPT !.stage = "exiting"] /\ saves' = saves \cup Spawned(ui, ts)
      /\ UNCHANGED <<outcomes, reads, disk, jobs, done, where, bin, texts>>
  BY DEF Exit, worker, spent
<1>2. IInv /\ Good(ui) /\ Good(ui') /\ ts \in SUBSET Tabs
  BY IInvParts, IInvPartsPrime DEF Kept0, GoodStep, DirtyTabs
<1>3. v \in Ui /\ SameTabs(ui, v) /\ SameRest(ui, v) /\ v.generation = ui.generation
  BY <1>2, SubmittedGood DEF Good
<1> HIDE DEF v, ts
<1>4. PICK x : x = ui'
  OBVIOUS
<1>5. /\ SameTabs(ui, x) /\ x.conflict = ui.conflict /\ x.deferred = ui.deferred
      /\ x.generation = ui.generation /\ x.stage = "exiting"
  BY <1>1, <1>3, <1>4 DEF Ui, SameTabs, SameRest
<1>6. Good(x) /\ Ends(x)
  BY <1>2, <1>4, NoChange
<1>7. /\ MoreTrash
      /\ \A i \in DOMAIN outcomes' : \E j \in DOMAIN outcomes : outcomes'[i] = outcomes[j]
  BY <1>1, <1>2, SameJobsAndOutcomes
<1>8. ui.stage # "switched" /\ x.stage # "exited"
  BY <1>1, <1>5, RunningStage
<1>9. /\ saves' \subseteq saves \cup Spawned(ui, ts)
      /\ UNCHANGED <<disk, where, bin, texts, reads, done>>
      /\ \A d \in x.deferred : d \in ui.deferred
  BY <1>1, <1>5
<1> QED BY <1>5, <1>6, <1>7, <1>8, <1>9, SameTabsKept

LEMMA ExitEndsKept ==
    ASSUME Kept0, GoodStep, ExitEnds PROVE Kept0'
<1>1. /\ ui.stage = "exiting" /\ ui' = [ui EXCEPT !.stage = "exited", !.kept = Snapshots(ui)]
      /\ UNCHANGED <<outcomes, saves, reads, disk, jobs, done, where, bin, texts>>
  BY DEF ExitEnds, threads, worker, spent
<1>2. IInv /\ Good(ui) /\ ui \in Ui /\ Good(ui')
  BY IInvParts, IInvPartsPrime DEF Kept0, GoodStep, Good
<1>3. PICK x : x = ui'
  OBVIOUS
<1>4. /\ SameTabs(ui, x) /\ x.conflict = ui.conflict /\ x.deferred = ui.deferred
      /\ x.generation = ui.generation /\ x.kept = Snapshots(ui)
  BY <1>1, <1>2, <1>3 DEF Ui, SameTabs
<1>5. Good(x) /\ Ends(x)
  BY <1>2, <1>3, NoChange
<1>6. /\ MoreTrash
      /\ \A i \in DOMAIN outcomes' : \E j \in DOMAIN outcomes : outcomes'[i] = outcomes[j]
  BY <1>1, <1>2, SameJobsAndOutcomes
<1>7. Snapshots(x) \subseteq x.kept
  BY <1>4 DEF Snapshots, DirtyTabs, IsDirty, IsOpen, SameTabs
<1>8. /\ saves' \subseteq saves \cup Spawned(ui, {}) /\ ui.stage # "switched"
      /\ UNCHANGED <<disk, where, bin, texts, reads, done>>
      /\ \A d \in x.deferred : d \in ui.deferred
  BY <1>1, <1>4
<1> QED BY <1>4, <1>5, <1>6, <1>7, <1>8, SameTabsKept

LEMMA OpenFits ==
    ASSUME IInv, Fits, NEW t \in Tabs, IsOpen(ui, t)
    PROVE  /\ TabFits(ui.tabs[t]) /\ TabSettled(t, ui.tabs[t])
           /\ \A s \in saves : SaveOfTab(s, t, ui.tabs[t])
           /\ \A r \in reads : ReadOfTab(r, t, ui.tabs[t])
           /\ ui.tabs[t] \in Tab /\ ui.tabs[t].note \in Notes /\ ui.tabs[t].rev \in Revisions
           /\ ui.tabs[t].text \in Nat /\ ui.tabs[t].crev \in Nat /\ ui.tabs[t].dirty \in BOOLEAN
           /\ ui.tabs[t].path \in Paths
<1>1. /\ TabFits(ui.tabs[t]) /\ TabSettled(t, ui.tabs[t])
      /\ \A s \in saves : SaveOfTab(s, t, ui.tabs[t])
      /\ \A r \in reads : ReadOfTab(r, t, ui.tabs[t])
  BY DEF Fits, TabsFit
<1>2. ui.tabs[t] \in Tab /\ ui.tabs[t].note \in Notes
  BY TabsOfOpen
<1>3. ui.tabs[t].rev \in Revisions /\ ui.tabs[t].path \in Paths
  BY <1>1, <1>2, TabFields, Constants DEF TabFits
<1> QED BY <1>1, <1>2, <1>3, TabFields, TextsAreNumbers

\* No tab opens: what is loading is some of what there was.
LEMMA NoneOpensKept ==
    ASSUME Kept0, GoodStep, UNCHANGED <<disk, where, bin>>, texts <= texts',
           NEW k \in Nat, FewerAnswers(k), MoreTrash,
           \A i \in DOMAIN outcomes' : \/ \E j \in DOMAIN outcomes : outcomes'[i] = outcomes[j]
                                       \/ TrashOutcome(outcomes[i])',
           NEW x, NEW t0, Handled(x, t0), Ends(x),
           \A t \in Tabs : IsOpen(x, t) => IsOpen(ui, t) /\ x.tabs[t].note = ui.tabs[t].note,
           t0 \in Tabs /\ IsOpen(x, t0) => TabFits(x.tabs[t0])' /\ NewTabFits(x.tabs[t0], t0),
           \A s \in saves' : s \in saves \/ Prepared(x, s),
           \A r \in reads' : \/ r \in reads
                             \/ /\ r.st = "running"
                                /\ \A t \in Tabs : IsOpen(x, t) => ReadOfTab(r, t, x.tabs[t]),
           \A d \in x.deferred : d \in ui.deferred \/ d.job.kind = "trash",
           \A t \in x.conflict : IsOpen(x, t) => x.tabs[t].crev > 0,
           ui.generation <= x.generation,
           ui.stage = "switched" => x.stage = "switched",
           x.stage = "exited" => Snapshots(x) \subseteq x.kept
    PROVE  Kept0'
<1>1. IInv /\ IInv' /\ OneLoad
  BY FitsParts DEF Kept0, GoodStep, Fits
<1>2. OneLoad'
  <2>1. /\ \A t \in Tabs : IsOpen(ui', t) => IsOpen(x, t) /\ ui'.tabs[t] = x.tabs[t]
        /\ ui'.generation = x.generation
    BY EndedTabs DEF Handled
  <2>2. \A n \in Notes : TabsOf(ui, n) = {} => TabsOf(ui', n) = {}
    BY <1>1, <2>1, FewerTabs
  <2> QED BY <1>1, <2>1, <2>2, LoadsKept
<1>3. \A i \in DOMAIN jobs' : \/ i \in DOMAIN jobs /\ jobs'[i] = jobs[i]
                              \/ jobs'[i].kind \in {"load", "trash"}
  BY DEF MoreTrash
<1> QED BY <1>2, <1>3, HandlerKept

LEMMA SameHandled ==
    ASSUME IInv, NEW x, x = ui
    PROVE  /\ Handled(x, 0) /\ 0 \notin Tabs /\ x.generation \in Nat
           /\ \A t \in Tabs : IsOpen(x, t) => IsOpen(ui, t) /\ x.tabs[t].note = ui.tabs[t].note
BY IInvParts, UiFields, Constants DEF Handled, Good

LEMMA RetryKept ==
    ASSUME Kept0, GoodStep, NEW t \in Tabs, Retry(t) PROVE Kept0'
<1> DEFINE r0 == [tab |-> t, crev |-> ui.tabs[t].crev, path |-> ui.tabs[t].path,
                  st |-> "running", rev |-> None]
<1>1. /\ Idle /\ t \in ui.conflict /\ reads' = reads \cup {r0}
      /\ UNCHANGED <<ui, outcomes, saves, disk, jobs, done, where, bin, texts>>
  BY DEF Retry, worker
<1>2. IInv /\ Fits /\ ConflictsFit
  BY FitsParts DEF Kept0, Fits
<1>3. PICK x : x = ui
  OBVIOUS
<1>4. /\ Handled(x, 0) /\ 0 \notin Tabs /\ x.generation \in Nat
      /\ \A s \in Tabs : IsOpen(x, s) => IsOpen(ui, s) /\ x.tabs[s].note = ui.tabs[s].note
  BY <1>2, <1>3, SameHandled
<1>5. Ends(x)
  BY <1>1, <1>3, NoChange
<1>6. \A s \in Tabs : IsOpen(x, s) => ReadOfTab(r0, s, x.tabs[s])
  <2>1. IsOpen(ui, t) => ui.tabs[t].crev > 0 /\ ui.tabs[t].crev \in Nat
    BY <1>1, <1>2, OpenFits DEF ConflictsFit
  <2> QED BY <1>3, <2>1 DEF ReadOfTab
<1>7. \A r \in reads' : \/ r \in reads
                        \/ /\ r.st = "running"
                           /\ \A s \in Tabs : IsOpen(x, s) => ReadOfTab(r, s, x.tabs[s])
  BY <1>1, <1>6
<1>8. FewerAnswers(0) /\ MoreTrash
      /\ \A i \in DOMAIN outcomes' : \E j \in DOMAIN outcomes : outcomes'[i] = outcomes[j]
  BY <1>1, <1>2, SameAnswers, SameJobsAndOutcomes
<1>9. /\ texts <= texts' /\ ui.stage # "switched" /\ x.stage # "exited"
      /\ ui.generation <= x.generation
      /\ \A s \in saves' : s \in saves
      /\ \A d \in x.deferred : d \in ui.deferred
      /\ \A s \in x.conflict : IsOpen(x, s) => x.tabs[s].crev > 0
  BY <1>1, <1>2, <1>3, <1>4, TextsAreNumbers, RunningStage DEF ConflictsFit
<1>10. UNCHANGED <<disk, where, bin>>
  BY <1>1
<1> QED BY <1>4, <1>5, <1>7, <1>8, <1>9, <1>10, NoneOpensKept

LEMMA EditKept ==
    ASSUME Kept0, GoodStep, NEW t \in Tabs, Edit(t) PROVE Kept0'
<1>0. PICK x : x = Edited(ui, t)
  OBVIOUS
<1>1. /\ Idle /\ texts < MaxTexts /\ t \in TabsOf(ui, ui.selected) /\ texts' = texts + 1
      /\ Becomes(x) /\ UNCHANGED <<outcomes, saves, reads, disk, jobs, done, where, bin>>
  BY <1>0 DEF Edit, threads, worker
<1>2. IInv /\ Fits /\ ConflictsFit /\ NotesFit /\ Good(ui)
  BY FitsParts, IInvParts DEF Kept0, Fits
<1>3. IsOpen(ui, t)
  BY <1>1, <1>2 DEF TabsOf, Good, Agree
<1>4. /\ Good(x) /\ SameRest(ui, x) /\ x.generation = ui.generation
      /\ \A s \in Tabs : x.tabs[s] = IF s # t THEN ui.tabs[s]
                  ELSE [ui.tabs[t] EXCEPT !.text = texts + 1, !.dirty = TRUE,
                                          !.crev = ui.tabs[t].crev + 1]
  BY <1>0, <1>1, <1>2, <1>3, EditedGood
<1>5. PICK old : old = ui.tabs[t]
  OBVIOUS
<1>6. /\ TabFits(old) /\ old \in Tab /\ old.rev \in Revisions /\ old.note \in Notes
      /\ \A s \in saves : SaveOfTab(s, t, old)
      /\ \A r \in reads : ReadOfTab(r, t, old)
      /\ old.text \in Nat /\ old.crev \in Nat /\ old.path \in Paths
  BY <1>2, <1>3, <1>5, OpenFits
<1>7. PICK tab : tab = x.tabs[t]
  OBVIOUS
<1>8. /\ tab.st = old.st /\ tab.note = old.note /\ tab.path = old.path /\ tab.rev = old.rev
      /\ tab.text = texts + 1 /\ tab.dirty /\ tab.crev = old.crev + 1
  <2>1. tab = [old EXCEPT !.text = texts + 1, !.dirty = TRUE, !.crev = old.crev + 1]
    BY <1>4, <1>5, <1>7
  <2>2. old \in [st : {"fresh", "open", "closed"}, note : Notes \cup {None},
                path : Paths \cup {None}, rev : Revisions \cup {None},
                text : Texts, crev : Nat, dirty : BOOLEAN]
    BY <1>6 DEF Tab
  <2> QED BY <2>1, <2>2
<1>9. texts \in Nat
  BY <1>2, TextsAreNumbers
<1>10. TabFits(tab)'
  <2>1. old.rev.text \in Nat /\ old.rev.text <= texts
    BY <1>6, RevisionFields DEF TabFits
  <2>2. disk[old.path] # None => disk[old.path].text <= texts /\ disk[old.path].text \in Nat
    BY <1>2, <1>6, TextsAreNumbers, RevisionFields DEF NotesFit
  <2>3. Older(tab.rev, tab.text) /\ (disk[tab.path] # None => Older(disk[tab.path], tab.text))
    BY <1>8, <1>9, <2>1, <2>2 DEF Older
  <2>4. tab.path = Home[tab.note] /\ tab.rev # None
        /\ (where[tab.note] # None => NotAhead(tab.rev, disk[Home[tab.note]]))
    BY <1>6, <1>8 DEF TabFits
  <2>5. tab.text <= texts' /\ tab.rev.text <= texts' /\ tab.crev > 0
    BY <1>1, <1>6, <1>8, <1>9, <2>1
  <2> QED BY <1>1, <2>3, <2>4, <2>5 DEF TabFits
<1>11. NewTabFits(tab, t)
  <2>1. ASSUME NEW s \in saves PROVE SaveOfTab(s, t, tab) /\ (s.tab = t => s.crev # tab.crev)
    <3>1. s.text \in Nat /\ s.crev \in Nat /\ s.text <= texts
      BY <1>2, TextsAreNumbers DEF Fits, SaveFits
    <3> QED BY <1>6, <1>8, <1>9, <3>1 DEF SaveOfTab
  <2>2. ASSUME NEW r \in reads PROVE ReadOfTab(r, t, tab)
    <3>1. r.crev \in Nat
      BY <1>2, TextsAreNumbers DEF Read
    <3> QED BY <1>6, <1>8, <3>1 DEF ReadOfTab
  <2> QED BY <1>8, <2>1, <2>2 DEF NewTabFits, TabSettled
<1>12. /\ \A s \in Tabs : IsOpen(x, s) => IsOpen(ui, s) /\ x.tabs[s].note = ui.tabs[s].note
       /\ Handled(x, t)
  BY <1>3, <1>4, <1>5, <1>7, <1>8 DEF IsOpen, Handled
<1>13. Ends(x)
  BY <1>1, <1>4, EndsAsBecomes
<1>14. \A s \in x.conflict : IsOpen(x, s) => x.tabs[s].crev > 0
  <2>1. x.conflict = ui.conflict /\ ui.conflict \in SUBSET Tabs
    BY <1>2, <1>4, UiFields DEF SameRest, Good
  <2> QED BY <1>2, <1>4, <1>6, <1>7, <1>8, <1>12, <2>1 DEF ConflictsFit
<1>15. FewerAnswers(0) /\ MoreTrash
       /\ \A i \in DOMAIN outcomes' : \E j \in DOMAIN outcomes : outcomes'[i] = outcomes[j]
  BY <1>1, <1>2, SameAnswers, SameJobsAndOutcomes
<1>16. /\ texts <= texts' /\ ui.stage # "switched" /\ x.stage # "exited"
       /\ ui.generation <= x.generation
       /\ \A s \in saves' : s \in saves
       /\ \A r \in reads' : r \in reads
       /\ \A d \in x.deferred : d \in ui.deferred
  BY <1>1, <1>2, <1>4, <1>9, RunningStage, UiFields DEF SameRest, Good
<1>17. UNCHANGED <<disk, where, bin>>
  BY <1>1
<1>18. TabFits(x.tabs[t])' /\ NewTabFits(x.tabs[t], t)
  BY <1>7, <1>10, <1>11
<1> QED BY <1>12, <1>13, <1>14, <1>15, <1>16, <1>17, <1>18, NoneOpensKept

LEMMA TabIsRecord ==
    ASSUME NEW tab \in Tab
    PROVE  tab \in [st : {"fresh", "open", "closed"}, note : Notes \cup {None},
                    path : Paths \cup {None}, rev : Revisions \cup {None},
                    text : Texts, crev : Nat, dirty : BOOLEAN]
BY DEF Tab

LEMMA RetrySaveKept ==
    ASSUME Kept0, GoodStep, NEW r \in reads, RetrySave(r) PROVE Kept0'
<1> DEFINE t == r.tab
           current == IsOpen(ui, t) /\ t \in Registered(ui) /\ ui.tabs[t].crev = r.crev
<1>1. PICK based : based = Rebased(ui, r)
  OBVIOUS
<1>2. /\ Idle /\ r.st = "read" /\ reads' = reads \ {r}
      /\ IF current THEN Becomes(Submitted(based, {t})) /\ saves' = saves \cup Spawned(based, {t})
         ELSE UNCHANGED <<ui, saves>>
      /\ UNCHANGED <<outcomes, disk, jobs, done, where, bin, texts>>
  BY <1>1 DEF RetrySave, worker, spent
<1>3. IInv /\ Fits /\ ConflictsFit /\ Good(ui) /\ ui.conflict \in SUBSET Tabs
  BY FitsParts, IInvParts, UiFields DEF Kept0, Fits, Good
<1>4. /\ r \in Read /\ t \in Tabs /\ ReadFits(r) /\ r.crev \in Nat /\ r.rev \in Revisions
  <2>1. r \in Read /\ (r.st = "read" => r.rev # None)
    BY <1>3, IInvParts DEF Others
  <2> QED BY <1>2, <1>3, <2>1 DEF Read, Fits
<1>5. /\ FewerAnswers(0) /\ MoreTrash
      /\ \A i \in DOMAIN outcomes' : \E j \in DOMAIN outcomes : outcomes'[i] = outcomes[j]
  BY <1>2, <1>3, SameAnswers, SameJobsAndOutcomes
<1>6. /\ texts <= texts' /\ ui.stage # "switched" /\ ui.stage # "exited"
      /\ ui.generation \in Nat /\ UNCHANGED <<disk, where, bin>>
  BY <1>2, <1>3, TextsAreNumbers, RunningStage, UiFields DEF Good
<1>7. \A q \in reads' : q \in reads
  BY <1>2
<1>8. CASE ~current
  <2>1. UNCHANGED <<ui, saves>>
    BY <1>2, <1>8
  <2>2. PICK x : x = ui
    OBVIOUS
  <2>3. /\ Handled(x, 0) /\ 0 \notin Tabs
        /\ \A s \in Tabs : IsOpen(x, s) => IsOpen(ui, s) /\ x.tabs[s].note = ui.tabs[s].note
    BY <1>3, <2>2, SameHandled
  <2>4. Ends(x)
    BY <2>1, <2>2, NoChange
  <2>5. /\ x.stage # "exited" /\ ui.generation <= x.generation
        /\ \A s \in saves' : s \in saves
        /\ \A d \in x.deferred : d \in ui.deferred
        /\ \A s \in x.conflict : IsOpen(x, s) => x.tabs[s].crev > 0
    BY <1>3, <1>6, <2>1, <2>2 DEF ConflictsFit
  <2> QED BY <1>5, <1>6, <1>7, <2>3, <2>4, <2>5, NoneOpensKept
<1>9. CASE current
  <2>1. /\ IsOpen(ui, t) /\ ui.tabs[t].crev = r.crev /\ Becomes(Submitted(based, {t}))
        /\ saves' = saves \cup Spawned(based, {t})
    BY <1>2, <1>9
  <2> HIDE DEF current
  <2>2. /\ Good(based) /\ SameRest(ui, based) /\ based.generation = ui.generation
        /\ \A s \in Tabs : based.tabs[s] = IF s # t THEN ui.tabs[s]
              ELSE [ui.tabs[s] EXCEPT !.path = r.path, !.rev = r.rev]
    BY <1>1, <1>3, <1>4, <2>1, RebasedGood
  <2>3. PICK x : x = Submitted(based, {t})
    OBVIOUS
  <2>4. /\ Good(x) /\ SameTabs(based, x) /\ SameRest(based, x) /\ x.generation = ui.generation
    BY <1>4, <2>2, <2>3, SubmittedGood, ZenonT(60)
  <2>5. PICK old : old = ui.tabs[t]
    OBVIOUS
  <2>6. /\ TabFits(old) /\ TabSettled(t, old) /\ old \in Tab /\ old.note \in Notes
        /\ \A s \in saves : SaveOfTab(s, t, old)
        /\ \A q \in reads : ReadOfTab(q, t, old)
        /\ old.crev \in Nat /\ old.crev = r.crev
    BY <1>3, <1>4, <2>1, <2>5, OpenFits
  <2>7. r.path = old.path /\ 0 < old.crev /\ (old.dirty => Older(r.rev, old.text))
    BY <1>2, <2>6 DEF ReadOfTab
  <2>8. PICK tab : tab = x.tabs[t]
    OBVIOUS
  <2>9. /\ tab.st = old.st /\ tab.note = old.note /\ tab.path = old.path /\ tab.rev = r.rev
        /\ tab.text = old.text /\ tab.dirty = old.dirty /\ tab.crev = old.crev
    <3>1. tab = [old EXCEPT !.path = r.path, !.rev = r.rev]
      BY <1>4, <2>2, <2>4, <2>5, <2>8 DEF SameTabs
    <3> QED BY <2>6, <2>7, <3>1, TabIsRecord
  <2>10. TabFits(tab)
    <3>1. r.rev # None /\ r.rev.text <= texts
      BY <1>2, <1>4, Constants DEF ReadFits
    <3>2. where[tab.note] # None => NotAhead(tab.rev, disk[Home[tab.note]])
      BY <1>2, <1>4, <2>6, <2>7, <2>9 DEF ReadFits, TabFits
    <3> QED BY <2>6, <2>7, <2>9, <3>1, <3>2 DEF TabFits
  <2>11. TabFits(tab)'
    <3>1. tab \in Tab
      BY <1>4, <2>4, <2>8, UiFields DEF Good
    <3> QED BY <1>2, <1>3, <1>6, <2>10, <3>1, LaterFits, TextsAreNumbers
  <2>12. NewTabFits(tab, t)
    <3>1. ~Foreign(old)
      BY <2>6, <2>7 DEF Foreign
    <3> QED BY <2>6, <2>9, <3>1 DEF NewTabFits, SaveOfTab, ReadOfTab, TabSettled
  <2>13. /\ \A s \in Tabs : IsOpen(x, s) => IsOpen(ui, s) /\ x.tabs[s].note = ui.tabs[s].note
         /\ Handled(x, t)
    BY <2>1, <2>2, <2>4, <2>5, <2>8, <2>9 DEF IsOpen, Handled, SameTabs
  <2>14. Ends(x)
    BY <2>1, <2>3, <2>4, EndsAsBecomes
  <2>15. ASSUME NEW s \in saves' PROVE s \in saves \/ Prepared(x, s)
    <3>1. ASSUME s \in Spawned(based, {t}) PROVE Prepared(x, s)
      <4>1. Prepared(based, s)
        BY <1>3, <2>2, <3>1, SpawnedPrepared
      <4> QED BY <2>4, <4>1 DEF Prepared, SameTabs, DirtyTabs, IsDirty, IsOpen
    <3> QED BY <2>1, <3>1
  <2>16. \A s \in x.conflict : IsOpen(x, s) => x.tabs[s].crev > 0
    <3>1. x.conflict = ui.conflict
      BY <2>2, <2>4 DEF SameRest
    <3>2. \A s \in Tabs : s # t => x.tabs[s] = ui.tabs[s]
      BY <2>2, <2>4 DEF SameTabs
    <3> QED BY <1>3, <2>6, <2>7, <2>8, <2>9, <2>13, <3>1, <3>2 DEF ConflictsFit
  <2>17. /\ x.stage # "exited" /\ ui.generation <= x.generation
         /\ \A d \in x.deferred : d \in ui.deferred
    <3>1. x.stage = ui.stage /\ x.deferred = ui.deferred
      BY <2>2, <2>4 DEF SameRest
    <3>2. x.generation = ui.generation
      BY <2>4
    <3> QED BY <1>6, <3>1, <3>2
  <2>18. TabFits(x.tabs[t])' /\ NewTabFits(x.tabs[t], t)
    BY <2>8, <2>11, <2>12
  <2> QED BY <1>5, <1>6, <1>7, <2>13, <2>14, <2>15, <2>16, <2>17, <2>18, NoneOpensKept
<1> QED BY <1>8, <1>9

LEMMA NoElements ==
    ASSUME NEW S, NEW a \in Seq(S), DOMAIN a = {}
    PROVE  a = <<>>
<1>1. Len(a) \in Nat /\ DOMAIN a = 1..Len(a)
  OBVIOUS
<1>2. Len(a) = 0
  <2>1. Len(a) > 0 => 1 \in DOMAIN a
    BY <1>1
  <2> QED BY <1>1, <2>1
<1> QED BY <1>2, EmptySeq

LEMMA DrainKept ==
    ASSUME Kept0, GoodStep, NEW s \in saves, DrainSave(s) PROVE Kept0'
<1> DEFINE t == s.tab
           o == OutcomeOf(ui, s)
           v == Finished(ui, s)
<1>1. /\ ui.stage \in {"running", "exiting"} /\ s.st # "running" /\ saves' = saves \ {s}
      /\ ui' = [v EXCEPT !.phase = "draining"] /\ outcomes' = Append(outcomes, o)
      /\ UNCHANGED <<reads, disk, jobs, done, where, bin, texts>>
  BY DEF DrainSave, worker, spent
<1>2. IInv /\ Fits /\ ConflictsFit /\ OnlyTrash /\ Good(ui) /\ ui \in Ui /\ Good(ui')
      /\ ui.conflict \in SUBSET Tabs
  BY FitsParts, IInvParts, IInvPartsPrime, UiFields DEF Kept0, GoodStep, Fits, Good
<1>3. s \in Save /\ (s.st = "saved" => s.rev # None) /\ SaveFits(s) /\ t \in Tabs
  BY <1>2, IInvParts DEF Others, Fits, Save
<1>4. /\ Good(v) /\ v.tabs = Acknowledged(ui, s).tabs /\ v.deferred \subseteq ui.deferred
      /\ v.conflict \subseteq ui.conflict \cup {t} /\ v.stage = ui.stage
      /\ v.generation = ui.generation
  BY <1>2, <1>3, FinishedGood
<1>5. \A q \in Tabs : IF q = t /\ s.st = "saved" /\ IsOpen(ui, q)
         THEN v.tabs[q] = [ui.tabs[q] EXCEPT !.path = s.path, !.rev = s.rev,
                              !.dirty = ui.tabs[q].dirty /\ ui.tabs[q].crev # s.crev]
         ELSE v.tabs[q] = ui.tabs[q]
  <2> DEFINE a == Acknowledged(ui, s)
  <2>1. \A q \in Tabs : IF q = t /\ s.st = "saved" /\ IsOpen(ui, q)
           THEN a.tabs[q] = [ui.tabs[q] EXCEPT !.path = s.path, !.rev = s.rev,
                                !.dirty = ui.tabs[q].dirty /\ ui.tabs[q].crev # s.crev]
           ELSE a.tabs[q] = ui.tabs[q]
    BY <1>2, <1>3, AcknowledgedGood
  <2>2. v.tabs = a.tabs
    BY <1>4
  <2> HIDE DEF a, v
  <2> QED BY <2>1, <2>2, Zenon
<1> HIDE DEF v
<1>6. PICK x : x = ui'
  OBVIOUS
<1>7. /\ x.tabs = v.tabs /\ x.deferred \subseteq ui.deferred /\ x.stage = ui.stage
      /\ x.conflict \subseteq ui.conflict \cup {t} /\ x.generation = ui.generation
  BY <1>1, <1>4, <1>6 DEF Good, Ui
<1>8. Good(x) /\ Ends(x)
  BY <1>2, <1>6, NoChange
<1>9. ASSUME IsOpen(ui, t)
      PROVE  /\ x.tabs[t].st = "open" /\ x.tabs[t].note = ui.tabs[t].note
             /\ x.tabs[t].crev = ui.tabs[t].crev /\ x.tabs[t].crev > 0
             /\ TabFits(x.tabs[t])' /\ NewTabFits(x.tabs[t], t)
  <2>1. PICK old : old = ui.tabs[t]
    OBVIOUS
  <2>2. /\ TabFits(old) /\ TabSettled(t, old) /\ old \in Tab /\ old.note \in Notes
        /\ \A q \in saves : SaveOfTab(q, t, old)
        /\ \A q \in reads : ReadOfTab(q, t, old)
        /\ old.crev \in Nat /\ old.text \in Nat
    BY <1>2, <1>3, <1>9, <2>1, OpenFits
  <2>3. /\ s.path = old.path /\ 0 < old.crev /\ (s.crev = old.crev => s.text = old.text)
        /\ old.dirty => s.text <= old.text
    <3>1. s.crev \in Nat
      BY <1>3 DEF Save
    <3> QED BY <2>2, <3>1 DEF SaveOfTab
  <2>4. PICK tab : tab = x.tabs[t]
    OBVIOUS
  <2>5. ASSUME tab = old
        PROVE  tab.st = "open" /\ TabFits(tab) /\ NewTabFits(tab, t)
    BY <1>9, <2>1, <2>2, <2>5 DEF NewTabFits, IsOpen
  <2>6. ASSUME s.st = "saved"
        PROVE  /\ tab.st = "open" /\ TabFits(tab) /\ NewTabFits(tab, t)
               /\ tab.note = old.note /\ tab.crev = old.crev
    <3>1. tab = [old EXCEPT !.path = s.path, !.rev = s.rev,
                            !.dirty = old.dirty /\ old.crev # s.crev]
      BY <1>3, <1>5, <1>7, <1>9, <2>1, <2>4, <2>6
    <3>2. /\ tab.st = old.st /\ tab.note = old.note /\ tab.path = old.path /\ tab.rev = s.rev
          /\ tab.text = old.text /\ tab.crev = old.crev
          /\ tab.dirty = (old.dirty /\ old.crev # s.crev)
      BY <2>2, <2>3, <3>1, TabIsRecord
    <3>3. /\ s.rev \in Revisions /\ s.rev.text = s.text /\ s.text <= texts
      BY <1>3, <2>6 DEF Save, SaveFits
    <3>4. TabFits(tab)
      <4>1. where[tab.note] # None => NotAhead(tab.rev, disk[Home[tab.note]])
        BY <1>3, <2>2, <2>3, <2>6, <3>2 DEF SaveFits, TabFits
      <4>2. tab.dirty => Older(tab.rev, tab.text)
        BY <2>3, <3>2, <3>3 DEF Older
      <4>3. tab.path = Home[tab.note] /\ tab.rev # None
        BY <1>3, <2>2, <2>3, <2>6, <3>2 DEF TabFits
      <4>4. tab.text <= texts /\ tab.rev.text <= texts /\ tab.crev # 0
        BY <2>2, <2>3, <3>2, <3>3 DEF TabFits
      <4>5. tab.dirty => /\ tab.crev > 0
                         /\ disk[tab.path] # None => Older(disk[tab.path], tab.text)
        BY <2>2, <2>3, <3>2 DEF TabFits
      <4> QED BY <4>1, <4>2, <4>3, <4>4, <4>5 DEF TabFits
    <3>5. TabSettled(t, tab)
      <4>1. ASSUME ~tab.dirty PROVE Settles(tab.text, tab.note)
        <5>1. CASE ~old.dirty
          BY <2>2, <2>3, <3>2, <5>1 DEF TabSettled, Foreign
        <5>2. CASE old.crev = s.crev
          BY <2>2, <2>3, <2>6, <3>2, <5>2 DEF TabSettled
        <5> QED BY <2>2, <3>2, <4>1, <5>1, <5>2, TabFields
      <4> QED BY <2>2, <3>2, <4>1 DEF TabSettled
    <3>6. /\ \A q \in saves : SaveOfTab(q, t, tab)
          /\ \A q \in reads : ReadOfTab(q, t, tab)
      BY <2>2, <3>2 DEF SaveOfTab, ReadOfTab
    <3> QED BY <1>9, <2>1, <3>2, <3>4, <3>5, <3>6 DEF NewTabFits, IsOpen
  <2>7. s.st # "saved" => tab = old
    BY <1>3, <1>5, <1>7, <2>1, <2>4
  <2>8. tab.st = "open" /\ TabFits(tab) /\ NewTabFits(tab, t)
        /\ tab.note = old.note /\ tab.crev = old.crev
    BY <2>5, <2>6, <2>7
  <2>9. TabFits(tab)'
    <3>1. tab \in Tab /\ texts <= texts' /\ texts' \in Nat
      BY <1>1, <1>2, <1>3, <1>8, <2>4, UiFields, TextsAreNumbers DEF Good
    <3> QED BY <1>1, <1>2, <2>8, <3>1, LaterFits, TextsAreNumbers
  <2> QED BY <2>1, <2>3, <2>4, <2>8, <2>9
<1>10. /\ \A q \in Tabs : IsOpen(x, q) => IsOpen(ui, q) /\ x.tabs[q].note = ui.tabs[q].note
       /\ Handled(x, t)
       /\ t \in Tabs /\ IsOpen(x, t) => TabFits(x.tabs[t])' /\ NewTabFits(x.tabs[t], t)
  <2>1. \A q \in Tabs : q # t \/ ~IsOpen(ui, q) => x.tabs[q] = ui.tabs[q]
    BY <1>5, <1>7
  <2>2. \A q \in Tabs : IsOpen(x, q) => IsOpen(ui, q)
    BY <2>1 DEF IsOpen
  <2>3. \A q \in Tabs : IsOpen(x, q) => x.tabs[q].note = ui.tabs[q].note
    BY <1>9, <2>1, <2>2
  <2> QED BY <1>8, <1>9, <2>1, <2>2, <2>3 DEF Handled
<1>11. \A q \in x.conflict : IsOpen(x, q) => x.tabs[q].crev > 0
  <2> SUFFICES ASSUME NEW q \in x.conflict, IsOpen(x, q) PROVE x.tabs[q].crev > 0
    OBVIOUS
  <2>1. CASE q = t
    BY <1>3, <1>9, <1>10, <2>1
  <2>2. CASE q # t
    <3>1. q \in ui.conflict /\ q \in Tabs
      BY <1>2, <1>7, <2>2
    <3> QED BY <1>2, <1>5, <1>7, <1>10, <2>2, <3>1 DEF ConflictsFit
  <2> QED BY <2>1, <2>2
<1>12. TrashOutcome(o)
  <2>1. /\ o \in [send : Seq(Job), again : Seq(Job)]
        /\ \A k \in DOMAIN o.send : \E d \in Waiting(ui, s) : d.job = o.send[k]
        /\ \A k \in DOMAIN o.again :
              k = 1 /\ \E d \in Waiting(ui, s) : d.job = o.again[k] /\ d.job.kind = "title"
    BY <1>2, OutcomeType
  <2> HIDE DEF o
  <2>2. \A d \in Waiting(ui, s) : d.job.kind = "trash"
    BY <1>2 DEF Waiting, OnlyTrash
  <2>3. DOMAIN o.again = {} /\ o.again \in Seq(Job)
    BY <2>1, <2>2
  <2>4. o.again = <<>>
    BY <2>3, NoElements
  <2> QED BY <2>1, <2>2, <2>4 DEF TrashOutcome
<1> HIDE DEF o
<1>13. ASSUME NEW i \in DOMAIN outcomes'
       PROVE  \/ \E j \in DOMAIN outcomes : outcomes'[i] = outcomes[j]
              \/ TrashOutcome(outcomes[i])'
  <2>1. outcomes \in Seq([send : Seq(Job), again : Seq(Job)])
    BY <1>2, IInvParts DEF Others
  <2>2. CASE i \in DOMAIN outcomes
    BY <1>1, <2>1, <2>2
  <2>3. CASE i \notin DOMAIN outcomes
    <3>1. outcomes'[i] = o
      BY <1>1, <1>13, <2>1, <2>3
    <3> QED BY <1>12, <3>1 DEF TrashOutcome
  <2> QED BY <2>2, <2>3
<1>14. FewerAnswers(0) /\ MoreTrash
  BY <1>1, <1>2, SameAnswers DEF MoreTrash
<1>15. /\ texts <= texts' /\ ui.stage # "switched" /\ x.stage # "exited"
       /\ ui.generation <= x.generation
       /\ \A q \in saves' : q \in saves
       /\ \A r \in reads' : r \in reads
       /\ \A d \in x.deferred : d \in ui.deferred
  BY <1>1, <1>2, <1>7, TextsAreNumbers, UiFields
<1>16. UNCHANGED <<disk, where, bin>>
  BY <1>1
<1> HIDE DEF t
<1> QED BY <1>8, <1>10, <1>11, <1>13, <1>14, <1>15, <1>16, NoneOpensKept

-----------------------------------------------------------------------------
(* Notes are selected, and the answers of the worker are taken *)

LEMMA ClosesHandled ==
    ASSUME IInv, NEW x, Good(x), NEW ts \in SUBSET Tabs, Closes(ui, x, ts)
    PROVE  /\ Handled(x, 0) /\ 0 \notin Tabs
           /\ \A t \in Tabs : IsOpen(x, t) => IsOpen(ui, t) /\ x.tabs[t] = ui.tabs[t]
<1>1. \A t \in Tabs : x.tabs[t] = IF t \in ts THEN GoneTab ELSE ui.tabs[t]
  BY DEF Closes
<1>2. \A t \in Tabs : IsOpen(x, t) => IsOpen(ui, t) /\ x.tabs[t] = ui.tabs[t]
  BY <1>1, NewTabs DEF IsOpen
<1> QED BY <1>2, Constants DEF Handled

LEMMA FewerConflicts ==
    ASSUME IInv, ConflictsFit, NEW x, x.conflict = ui.conflict,
           \A t \in Tabs : IsOpen(x, t) => IsOpen(ui, t) /\ x.tabs[t] = ui.tabs[t]
    PROVE  \A t \in x.conflict : IsOpen(x, t) => x.tabs[t].crev > 0
<1>1. ui.conflict \in SUBSET Tabs
  BY IInvParts, UiFields DEF Good
<1> QED BY <1>1 DEF ConflictsFit

LEMMA SelectKept ==
    ASSUME Kept0, GoodStep, NEW n \in Notes, Select(n) PROVE Kept0'
<1>1. PICK x : x = Chosen(ui, n)
  OBVIOUS
<1>2. PICK L : L = Loads(ui, n)
  OBVIOUS
<1>3. /\ Idle /\ Becomes(x) /\ jobs' = jobs \o L
      /\ UNCHANGED <<outcomes, saves, reads, disk, done, where, bin, texts>>
  BY <1>1, <1>2 DEF Select, threads
<1>4. IInv /\ IInv' /\ OneLoad /\ ConflictsFit /\ Good(ui)
  BY FitsParts, IInvParts DEF Kept0, GoodStep, Fits
<1>5. Good(x) /\ (\E ts \in SUBSET Tabs : Leaves(ui, x, ts)) /\ x.generation = ui.generation + 1
  BY <1>1, <1>4, ChosenGood
<1>6. PICK ts \in SUBSET Tabs : Leaves(ui, x, ts)
  BY <1>5
<1>7. /\ Closes(ui, x, ts) /\ x.conflict = ui.conflict /\ x.deferred = ui.deferred
      /\ x.stage = ui.stage
  BY <1>6 DEF Leaves, SameRest
<1>8. /\ Handled(x, 0) /\ 0 \notin Tabs
      /\ \A t \in Tabs : IsOpen(x, t) => IsOpen(ui, t) /\ x.tabs[t] = ui.tabs[t]
  BY <1>4, <1>5, <1>7, ClosesHandled
<1>9. Ends(x)
  BY <1>3, <1>5, EndsAsBecomes
<1>10. /\ \A t \in Tabs : IsOpen(ui', t) => IsOpen(x, t) /\ ui'.tabs[t] = x.tabs[t]
       /\ ui'.generation = x.generation
  BY <1>5, <1>9, EndedTabs
<1>11. ui.generation \in Nat /\ ui'.generation = ui.generation + 1
  BY <1>4, <1>5, <1>10, UiFields DEF Good
<1>12. ASSUME NEW i \in DOMAIN jobs'
       PROVE  \/ i \in DOMAIN jobs /\ jobs'[i] = jobs[i]
              \/ /\ i = Len(jobs) + 1 /\ jobs'[i].kind = "load" /\ jobs'[i].note = n
                 /\ jobs'[i].generation = ui'.generation /\ TabsOf(ui, n) = {}
  <2>1. jobs \in Seq(Job)
    BY <1>4, IInvParts DEF Others
  <2>2. CASE TabsOf(ui, n) # {}
    <3>1. L = <<>>
      BY <1>2, <2>2 DEF Loads
    <3> QED BY <1>3, <1>12, <2>1, <3>1
  <2>3. CASE TabsOf(ui, n) = {}
    <3>1. PICK j : j = [kind |-> "load", note |-> n, to |-> None, generation |-> ui.generation + 1]
      OBVIOUS
    <3>2. L = <<j>>
      BY <1>2, <2>3, <3>1 DEF Loads
    <3>3. \/ i \in DOMAIN jobs /\ jobs'[i] = jobs[i]
          \/ i = Len(jobs) + 1 /\ jobs'[i] = j
      <4>1. Len(L) = 1 /\ L[1] = j /\ L \in Seq({j})
        BY <3>2
      <4> QED BY <1>3, <1>12, <2>1, <3>2, <4>1
    <3>4. j.kind = "load" /\ j.note = n /\ j.generation = ui'.generation
      BY <1>11, <3>1
    <3> QED BY <2>3, <3>3, <3>4
  <2> QED BY <2>2, <2>3
<1>13. OneLoad'
  <2>1. /\ \A i \in DOMAIN jobs : jobs[i].kind = "load" =>
              jobs[i].generation \in Nat /\ jobs[i].generation <= ui.generation
        /\ \A i \in DOMAIN done : done[i].kind = "load" =>
              done[i].generation \in Nat /\ done[i].generation <= ui.generation
    <3>1. jobs \in Seq(Job) /\ done \in Seq(Reply)
      BY <1>4, IInvParts DEF Others
    <3>2. /\ \A i \in DOMAIN jobs : jobs[i] \in Job
          /\ \A i \in DOMAIN done : done[i] \in Reply
      BY <3>1
    <3> QED BY <1>4, <3>2 DEF OneLoad, Job, Reply
  <2>2. TabsOf(ui, n) = {} => TabsOf(ui', n) = {}
    BY <1>4, <1>8, <1>10, FewerTabs
  <2>3. ASSUME NEW i \in DOMAIN jobs', jobs'[i].kind = "load"
        PROVE  /\ jobs'[i].generation <= ui'.generation
               /\ jobs'[i].generation = ui'.generation =>
                     i = Len(jobs) + 1 /\ TabsOf(ui', jobs'[i].note) = {}
    <3>1. CASE i \in DOMAIN jobs /\ jobs'[i] = jobs[i]
      <4>1. jobs'[i].generation \in Nat /\ jobs'[i].generation <= ui.generation
        BY <2>1, <2>3, <3>1
      <4> QED BY <1>11, <4>1
    <3>2. CASE /\ i = Len(jobs) + 1 /\ jobs'[i].note = n
               /\ jobs'[i].generation = ui'.generation /\ TabsOf(ui, n) = {}
      BY <1>11, <2>2, <3>2
    <3> QED BY <1>12, <3>1, <3>2
  <2>4. ASSUME NEW i \in DOMAIN done', done'[i].kind = "load"
        PROVE  done'[i].generation <= ui'.generation /\ done'[i].generation # ui'.generation
    <3>1. done'[i].generation \in Nat /\ done'[i].generation <= ui.generation
      BY <1>3, <2>1, <2>4
    <3> QED BY <1>11, <3>1
  <2> QED BY <2>3, <2>4 DEF OneLoad, Loading
<1>14. /\ FewerAnswers(0)
       /\ \A i \in DOMAIN outcomes' : \E j \in DOMAIN outcomes : outcomes'[i] = outcomes[j]
  BY <1>3, <1>4, SameAnswers
<1>15. \A i \in DOMAIN jobs' : \/ i \in DOMAIN jobs /\ jobs'[i] = jobs[i]
                               \/ jobs'[i].kind \in {"load", "trash"}
  BY <1>12
<1>16. \A t \in x.conflict : IsOpen(x, t) => x.tabs[t].crev > 0
  BY <1>4, <1>7, <1>8, FewerConflicts
<1>17. /\ texts <= texts' /\ ui.stage # "switched" /\ x.stage # "exited"
       /\ ui.generation <= x.generation
       /\ \A s \in saves' : s \in saves
       /\ \A r \in reads' : r \in reads
       /\ \A d \in x.deferred : d \in ui.deferred
  BY <1>3, <1>4, <1>5, <1>7, <1>11, RunningStage, TextsAreNumbers
<1>18. UNCHANGED <<disk, where, bin>>
  BY <1>3
<1> QED BY <1>8, <1>9, <1>13, <1>14, <1>15, <1>16, <1>17, <1>18, HandlerKept

\* An answer is taken, and tabs may close.
LEMMA AnswerKept ==
    ASSUME Kept0, GoodStep, Idle, done # <<>>, done' = Tail(done),
           UNCHANGED <<outcomes, saves, reads, disk, jobs, where, bin, texts>>,
           NEW x, Good(x), NEW ts \in SUBSET Tabs, Closes(ui, x, ts), SameRest(ui, x),
           ui.generation <= x.generation, Ends(x)
    PROVE  Kept0'
<1>1. IInv /\ ConflictsFit
  BY FitsParts DEF Kept0, Fits
<1>2. /\ Handled(x, 0) /\ 0 \notin Tabs
      /\ \A t \in Tabs : IsOpen(x, t) => IsOpen(ui, t) /\ x.tabs[t] = ui.tabs[t]
  BY <1>1, ClosesHandled
<1>3. x.conflict = ui.conflict /\ x.deferred = ui.deferred /\ x.stage = ui.stage
  BY DEF SameRest
<1>4. \A t \in x.conflict : IsOpen(x, t) => x.tabs[t].crev > 0
  BY <1>1, <1>2, <1>3, FewerConflicts
<1>5. /\ FewerAnswers(1) /\ MoreTrash
      /\ \A i \in DOMAIN outcomes' : \E j \in DOMAIN outcomes : outcomes'[i] = outcomes[j]
  BY <1>1, AnswerTaken, SameJobsAndOutcomes
<1>6. /\ texts <= texts' /\ ui.stage # "switched" /\ x.stage # "exited"
      /\ \A s \in saves' : s \in saves
      /\ \A r \in reads' : r \in reads
      /\ \A d \in x.deferred : d \in ui.deferred
  BY <1>1, <1>3, RunningStage, TextsAreNumbers
<1> QED BY <1>2, <1>4, <1>5, <1>6, NoneOpensKept

LEMMA TakeTrashedKept ==
    ASSUME Kept0, GoodStep, TakeTrashed PROVE Kept0'
<1>1. PICK x : x = Trashed(ui, Head(done).note)
  OBVIOUS
<1>2. /\ Idle /\ done # <<>> /\ done' = Tail(done) /\ Becomes(x)
      /\ UNCHANGED <<outcomes, saves, reads, disk, jobs, where, bin, texts>>
  BY <1>1 DEF TakeTrashed, threads, spent
<1>3. IInv
  BY DEF Kept0
<1>4. Head(done).note \in Notes
  BY <1>2, <1>3, AnswerTaken DEF Reply
<1>5. PICK ts : ts = TabsOf(ui, Head(done).note)
  OBVIOUS
<1>6. /\ Good(x) /\ Closes(ui, x, ts) /\ SameRest(ui, x) /\ ts \in SUBSET Tabs
      /\ ui.generation <= x.generation
  BY <1>1, <1>3, <1>4, <1>5, TrashedGood
<1>7. Ends(x)
  BY <1>2, <1>6, EndsAsBecomes
<1> QED BY <1>2, <1>6, <1>7, AnswerKept

LEMMA TakeLoadedKept ==
    ASSUME Kept0, GoodStep, TakeLoaded PROVE Kept0'
<1>1. PICK answer : answer = Head(done)
  OBVIOUS
<1>2. /\ Idle /\ done # <<>> /\ done' = Tail(done) /\ answer.kind = "load"
      /\ UNCHANGED <<outcomes, saves, reads, disk, jobs, where, bin, texts>>
      /\ IF answer.note # ui.selected \/ answer.generation # ui.generation THEN UNCHANGED ui
         ELSE IF TabsOf(ui, answer.note) # {} THEN Becomes(Opened(ui, answer.note))
         ELSE \E t \in FreshTabs(ui) : /\ \A s \in FreshTabs(ui) : t <= s
                                       /\ Becomes(Installed(ui, t, answer))
  BY <1>1 DEF TakeLoaded, threads, spent
<1>3. /\ IInv /\ IInv' /\ Fits /\ ConflictsFit /\ OneLoad /\ AnswersSettled
      /\ Good(ui) /\ ui \in Ui /\ FreshTabsAreUnused /\ ui.generation \in Nat
  BY FitsParts, IInvParts, UiFields DEF Kept0, GoodStep, Fits, Good
<1>4. /\ FewerAnswers(1) /\ answer \in Reply /\ answer = done[1] /\ 1 \in DOMAIN done
      /\ answer.note \in Notes /\ answer.rev \in Revisions /\ answer.rev # None
  BY <1>1, <1>2, <1>3, AnswerTaken, Constants DEF Reply
<1>5. CASE UNCHANGED ui
  <2>1. PICK x : x = ui
    OBVIOUS
  <2>2. Good(x) /\ SameRest(ui, x) /\ ui.generation <= x.generation
    BY <1>3, <2>1 DEF SameRest
  <2>3. Closes(ui, x, {})
    <3>1. ui.tabs = [t \in Tabs |-> ui.tabs[t]]
      BY <1>3, UiFields
    <3> QED BY <2>1, <3>1 DEF Closes
  <2>4. Ends(x)
    BY <1>5, <2>1, NoChange
  <2> QED BY <1>2, <2>2, <2>3, <2>4, AnswerKept
<1>6. CASE Becomes(Opened(ui, answer.note))
  <2>1. PICK x : x = Opened(ui, answer.note)
    OBVIOUS
  <2>2. Good(x) /\ (\E ts \in SUBSET Tabs : Leaves(ui, x, ts)) /\ x.generation = ui.generation
    BY <1>3, <1>4, <2>1, OpenedGood
  <2>3. PICK ts \in SUBSET Tabs : Leaves(ui, x, ts)
    BY <2>2
  <2>4. Closes(ui, x, ts) /\ SameRest(ui, x) /\ ui.generation <= x.generation
    BY <1>3, <2>2, <2>3 DEF Leaves
  <2>5. Ends(x)
    BY <1>6, <2>1, <2>2, EndsAsBecomes
  <2> QED BY <1>2, <2>2, <2>4, <2>5, AnswerKept
<1>7. ASSUME answer.note = ui.selected, answer.generation = ui.generation,
             TabsOf(ui, answer.note) = {},
             NEW t \in FreshTabs(ui), Becomes(Installed(ui, t, answer))
      PROVE  Kept0'
  <2>1. PICK x : x = Installed(ui, t, answer)
    OBVIOUS
  <2>2. t \in Tabs /\ answer.to # None
    BY <1>1, <1>2, <1>3, TakenDone DEF FreshTabs
  <2>3. /\ Good(x) /\ SameRest(ui, x) /\ x.generation = ui.generation
        /\ \A s \in Tabs :
              IF s = t
              THEN x.tabs[s] = [st |-> "open", note |-> answer.note, path |-> answer.to,
                                rev |-> answer.rev, text |-> answer.rev.text, crev |-> 0,
                                dirty |-> FALSE]
              ELSE x.tabs[s] \in {ui.tabs[s], GoneTab}
    BY <1>3, <1>4, <1>7, <2>1, <2>2, InstalledGood
  <2>4. PICK tab : tab = x.tabs[t]
    OBVIOUS
  <2>5. /\ tab.note = answer.note /\ tab.path = answer.to /\ tab.rev = answer.rev
        /\ tab.text = answer.rev.text /\ tab.crev = 0 /\ tab.dirty = FALSE
    BY <2>2, <2>3, <2>4
  <2>6. Loading(answer)
    BY <1>2, <1>7 DEF Loading
  <2>7. TabFits(tab)'
    <3>1. AnswerFits(answer)
      BY <1>3, <1>4 DEF Fits
    <3>2. TabFits(tab)
      BY <1>2, <1>4, <2>5, <3>1 DEF TabFits, AnswerFits
    <3>3. tab \in Tab
      BY <2>2, <2>3, <2>4, UiFields DEF Good
    <3> QED BY <1>2, <1>3, <3>2, <3>3, LaterFits, TextsAreNumbers
  <2>8. NewTabFits(tab, t)
    <3>1. (\A s \in saves : s.tab # t) /\ (\A r \in reads : r.tab # t)
      BY <1>3 DEF FreshTabsAreUnused
    <3>2. ~Foreign(tab) => Settles(tab.text, tab.note)
      <4>1. ~Foreign(tab) => answer.rev.by = "own"
        BY <1>4, <2>5, RevisionFields DEF Foreign
      <4>2. answer.rev.by = "own" => Settles(answer.rev.text, answer.note)
        BY <1>2, <1>3, <1>4, <2>6, RunningStage DEF AnswersSettled
      <4> QED BY <2>5, <4>1, <4>2
    <3> QED BY <2>5, <3>1, <3>2 DEF NewTabFits, SaveOfTab, ReadOfTab, TabSettled
  <2>9. \A s \in Tabs : s # t /\ IsOpen(x, s) => IsOpen(ui, s) /\ x.tabs[s] = ui.tabs[s]
    BY <2>3, NewTabs DEF IsOpen
  <2>10. Handled(x, t)
    BY <2>3, <2>9 DEF Handled
  <2>11. Ends(x)
    BY <1>7, <2>1, <2>3, EndsAsBecomes
  <2>12. /\ \A i \in DOMAIN jobs : ~Loading(jobs[i])
         /\ \A i \in DOMAIN done' : ~Loading(done'[i])
    <3>1. \A i \in DOMAIN done' : i \in Nat \ {0}
      BY <1>3, IInvPartsPrime DEF Others
    <3>2. \A i \in DOMAIN done' : i + 1 # 1 /\ i + 1 \in DOMAIN done /\ done'[i] = done[i + 1]
      BY <1>4, <3>1 DEF FewerAnswers
    <3> QED BY <1>3, <1>4, <2>6, <3>2 DEF OneLoad
  <2>13. ui'.generation = ui.generation
    BY <2>3, <2>11, EndedTabs
  <2>14. /\ MoreTrash
         /\ \A i \in DOMAIN outcomes' : \E j \in DOMAIN outcomes : outcomes'[i] = outcomes[j]
    BY <1>2, <1>3, SameJobsAndOutcomes
  <2>15. OneLoad'
    BY <1>3, <1>4, <2>12, <2>13, <2>14, LoadsKept
  <2>16. \A s \in x.conflict : IsOpen(x, s) => x.tabs[s].crev > 0
    <3>1. x.conflict = ui.conflict /\ ui.conflict \in SUBSET Tabs /\ t \notin ui.conflict
      BY <1>3, <2>3, UiFields DEF SameRest, FreshTabsAreUnused
    <3> QED BY <1>3, <2>9, <3>1 DEF ConflictsFit
  <2>17. /\ texts <= texts' /\ ui.stage # "switched" /\ x.stage # "exited"
         /\ ui.generation <= x.generation
         /\ \A s \in saves' : s \in saves
         /\ \A r \in reads' : r \in reads
         /\ \A d \in x.deferred : d \in ui.deferred
    BY <1>2, <1>3, <2>3, RunningStage, TextsAreNumbers DEF SameRest
  <2>18. UNCHANGED <<disk, where, bin>>
    BY <1>2
  <2>19. TabFits(x.tabs[t])' /\ NewTabFits(x.tabs[t], t)
    BY <2>4, <2>7, <2>8
  <2>20. \A i \in DOMAIN jobs' : \/ i \in DOMAIN jobs /\ jobs'[i] = jobs[i]
                                 \/ jobs'[i].kind \in {"load", "trash"}
    BY <2>14 DEF MoreTrash
  <2> QED BY <1>4, <2>10, <2>11, <2>14, <2>15, <2>16, <2>17, <2>18, <2>19, <2>20, HandlerKept
<1> QED BY <1>2, <1>5, <1>6, <1>7

-----------------------------------------------------------------------------
(* The threads, the worker and other programs *)

LEMMA LoopStill ==
    ASSUME UNCHANGED <<ui, outcomes, jobs, done>>,
           OnlyTrash, OneLoad, ConflictsFit, SnapshotsKept
    PROVE  OnlyTrash' /\ OneLoad' /\ ConflictsFit' /\ SnapshotsKept'
<1>1. OnlyTrash'
  BY DEF OnlyTrash
<1>2. OneLoad'
  BY DEF OneLoad, Loading, TabsOf, Registered
<1>3. ConflictsFit' /\ SnapshotsKept'
  BY DEF ConflictsFit, SnapshotsKept, Snapshots, DirtyTabs, IsDirty, IsOpen
<1> QED BY <1>1, <1>2, <1>3

LEMMA StillFits ==
    ASSUME UNCHANGED <<disk, where, bin, texts>>
    PROVE  /\ \A tab : TabFits(tab) => TabFits(tab)'
           /\ \A s : SaveFits(s) => SaveFits(s)'
           /\ \A r : ReadFits(r) => ReadFits(r)'
           /\ \A a : AnswerFits(a) => AnswerFits(a)'
           /\ NotesFit => NotesFit'
BY DEF TabFits, SaveFits, ReadFits, AnswerFits, NotesFit

\* Saves that run no longer leave what is settled settled.
LEMMA SettlesStill ==
    ASSUME UNCHANGED <<disk, where, bin>>, \A s \in saves' : s.st = "running" => s \in saves
    PROVE  \A text, n : Settles(text, n) => Settles(text, n)'
BY DEF Settles, Holds, Kept, CanReplace

LEMMA CaptureKept ==
    ASSUME Kept0, GoodStep, NEW r \in reads, CaptureRevision(r) PROVE Kept0'
<1>1. /\ r.st = "running"
      /\ UNCHANGED <<ui, outcomes, saves, disk, jobs, done, where, bin, texts>>
      /\ reads' = (reads \ {r}) \cup (IF disk[r.path] = None THEN {}
                                      ELSE {[r EXCEPT !.st = "read", !.rev = disk[r.path]]})
  BY DEF CaptureRevision, worker, spent
<1>2. IInv /\ IInv' /\ Fits
  BY FitsParts DEF Kept0, GoodStep
<1>3. OnlyTrash' /\ OneLoad' /\ ConflictsFit' /\ SnapshotsKept'
  BY <1>1, <1>2, LoopStill DEF Fits
<1>4. /\ NotesFit' /\ \A s \in saves' : SaveFits(s)'
      /\ \A i \in DOMAIN done' : AnswerFits(done[i])'
  BY <1>1, <1>2, StillFits DEF Fits
<1>5. \A text, n : Settles(text, n) => Settles(text, n)'
  BY <1>1, SettlesStill
<1>6. AnswersSettled'
  BY <1>1, <1>2, <1>5 DEF Fits, AnswersSettled, Loading
<1>7. OrphansSettled'
  BY <1>1, <1>2 DEF Fits, OrphansSettled, CanReplace
<1>8. ASSUME NEW q \in reads', q \notin reads
      PROVE  /\ disk[r.path] # None /\ q.st = "read" /\ q.rev = disk[r.path] /\ q.path = r.path
             /\ q.tab = r.tab /\ q.crev = r.crev
  <2>1. r \in Read
    BY <1>2, IInvParts DEF Others
  <2> QED BY <1>1, <1>8, <2>1 DEF Read
<1>9. r.path \in Paths /\ disk \in [Paths -> Revisions \cup {None}]
  BY <1>2, IInvParts DEF Others, Read
<1>10. ASSUME NEW q \in reads' PROVE ReadFits(q)'
  <2>1. CASE q \in reads
    BY <1>1, <1>2, <2>1, StillFits DEF Fits
  <2>2. CASE q \notin reads
    <3>1. q.rev \in Revisions /\ q.rev.text <= texts
      BY <1>2, <1>8, <1>9, <2>2 DEF Fits, NotesFit
    <3>2. NotAhead(q.rev, q.rev)
      BY <3>1, RevisionFields DEF NotAhead
    <3>3. ReadFits(q)
      BY <1>8, <2>2, <3>1, <3>2 DEF ReadFits
    <3> QED BY <1>1, <3>3, StillFits
  <2> QED BY <2>1, <2>2
<1>11. TabsFit'
  <2> SUFFICES ASSUME NEW t \in Tabs, IsOpen(ui', t)
               PROVE  (/\ TabFits(ui.tabs[t]) /\ TabSettled(t, ui.tabs[t])
                       /\ \A s \in saves : SaveOfTab(s, t, ui.tabs[t])
                       /\ \A q \in reads : ReadOfTab(q, t, ui.tabs[t]))'
    BY DEF TabsFit
  <2>1. PICK tab : tab = ui.tabs[t]
    OBVIOUS
  <2>2. /\ IsOpen(ui, t) /\ ui'.tabs[t] = tab /\ TabFits(tab) /\ TabSettled(t, tab)
        /\ \A s \in saves : SaveOfTab(s, t, tab)
        /\ \A q \in reads : ReadOfTab(q, t, tab)
    BY <1>1, <1>2, <2>1 DEF Fits, TabsFit, IsOpen
  <2>3. TabFits(tab)' /\ TabSettled(t, tab)'
    BY <1>1, <1>5, <2>2, StillFits DEF TabSettled, Foreign
  <2>4. ASSUME NEW q \in reads' PROVE ReadOfTab(q, t, tab)
    <3>1. CASE q \in reads
      BY <2>2, <3>1
    <3>2. CASE q \notin reads
      <4>1. ReadOfTab(r, t, tab)
        BY <2>2
      <4>2. tab.dirty /\ q.tab = t => Older(q.rev, tab.text)
        BY <1>8, <2>2, <3>2, <4>1 DEF TabFits, ReadOfTab
      <4> QED BY <1>8, <3>2, <4>1, <4>2 DEF ReadOfTab
    <3> QED BY <3>1, <3>2
  <2> QED BY <1>1, <2>2, <2>3, <2>4
<1>12. Fits'
  BY <1>3, <1>4, <1>6, <1>7, <1>10, <1>11 DEF Fits
<1> QED BY <1>2, <1>12, KeptPartsPrime DEF Kept0

\* A newer revision takes the place of a file of a note.
LEMMA FileNewer ==
    ASSUME IInv, Fits, NEW p \in Paths, disk[p] # None, NEW rev \in Revisions,
           disk[p].stamp < rev.stamp, disk' = [disk EXCEPT ![p] = rev],
           UNCHANGED <<where, bin>>, rev.text <= texts', texts <= texts', texts' \in Nat
    PROVE  /\ NotesFit'
           /\ \A s \in Save : (s.st = "saved" => s.rev # None) /\ SaveFits(s) => SaveFits(s)'
           /\ \A r \in Read : (r.st = "read" => r.rev # None) /\ ReadFits(r) => ReadFits(r)'
           /\ \A a \in Reply : AnswerFits(a) => AnswerFits(a)'
           /\ \A tab \in Tab : /\ TabFits(tab) /\ tab.note \in Notes
                               /\ tab.dirty /\ tab.path = p => Older(rev, tab.text)
                               => TabFits(tab)'
           /\ \A s \in saves, n \in Notes : CanReplace(s, n)' => Home[n] # p /\ CanReplace(s, n)
           /\ \A n \in Notes : IF Home[n] = p THEN where[n] # None /\ Kept(n)' = rev
                               ELSE Kept(n)' = Kept(n) /\ disk'[Home[n]] = disk[Home[n]]
<1>1. /\ disk \in [Paths -> Revisions \cup {None}] /\ texts \in Nat /\ saves \in SUBSET Save
      /\ NotesFit /\ \A s \in saves : SaveFits(s)
  BY TextsAreNumbers DEF Fits
<1>2. /\ Home \in [Notes -> Paths] /\ rev # None /\ Texts \subseteq Nat /\ None \notin Revisions
  BY Constants DEF Texts
<1>3. \A q \in Paths : disk'[q] = IF q = p THEN rev ELSE disk[q]
  BY <1>1
<1>4. \A n \in Notes : /\ disk'[Home[n]] = None <=> disk[Home[n]] = None
                       /\ disk[Home[n]] = None <=> where[n] = None
                       /\ where[n] # None => where[n] = Home[n]
  BY <1>1, <1>2, <1>3 DEF NotesFit
<1>5. ASSUME NEW n \in Notes, where[n] # None, NEW r \in Revisions, NotAhead(r, disk[Home[n]])
      PROVE  NotAhead(r, disk'[Home[n]])
  <2>1. CASE Home[n] # p
    BY <1>2, <1>3, <1>5, <2>1
  <2>2. CASE Home[n] = p
    <3>1. r.stamp \in Nat /\ rev.stamp \in Nat /\ disk[p].stamp \in Nat
      BY <1>1, RevisionFields
    <3>2. r.stamp <= disk[p].stamp /\ disk'[Home[n]] = rev
      BY <1>2, <1>3, <1>5, <2>2 DEF NotAhead
    <3> QED BY <3>1, <3>2 DEF NotAhead
  <2> QED BY <2>1, <2>2
<1>6. \A m \in Nat : m <= texts => m <= texts'
  BY <1>1
<1>7. NotesFit'
  <2>1. \A q \in Paths : disk'[q] # None => disk'[q].text <= texts'
    <3>1. \A q \in Paths : disk[q] # None => disk[q].text \in Nat /\ disk[q].text <= texts
      BY <1>1, RevisionFields DEF NotesFit
    <3> QED BY <1>3, <1>6, <3>1
  <2> QED BY <1>1, <1>4, <2>1 DEF NotesFit
<1>8. ASSUME NEW s \in Save, s.st = "saved" => s.rev # None, SaveFits(s)
      PROVE  SaveFits(s)'
  <2>1. s.text \in Nat /\ s.base \in Revisions /\ (s.st = "saved" => s.rev \in Revisions)
    BY <1>2, <1>8 DEF Save, SaveFits
  <2>2. s.text <= texts' /\ s.base.text <= texts'
    BY <1>6, <1>8, <2>1, RevisionFields DEF SaveFits
  <2>3. \A n \in Notes : where[n] # None /\ s.path = Home[n] =>
           /\ s.st = "running" => NotAhead(s.base, disk'[Home[n]])
           /\ s.st = "saved" => NotAhead(s.rev, disk'[Home[n]])
    BY <1>5, <1>8, <2>1 DEF SaveFits
  <2> QED BY <1>8, <2>2, <2>3 DEF SaveFits
<1>9. ASSUME NEW r \in Read, r.st = "read" => r.rev # None, ReadFits(r)
      PROVE  ReadFits(r)'
  <2>1. r.st = "read" => r.rev \in Revisions
    BY <1>9 DEF Read
  <2>2. r.st = "read" => r.rev.text <= texts'
    BY <1>6, <1>9, <2>1, RevisionFields DEF ReadFits
  <2> QED BY <1>5, <1>9, <2>1, <2>2 DEF ReadFits
<1>10. ASSUME NEW a \in Reply, AnswerFits(a)
       PROVE  AnswerFits(a)'
  <2>1. a.rev \in Revisions /\ a.note \in Notes
    BY DEF Reply
  <2>2. a.rev.text <= texts'
    BY <1>6, <1>10, <2>1, RevisionFields DEF AnswerFits
  <2> QED BY <1>5, <1>10, <2>1, <2>2 DEF AnswerFits
<1>11. ASSUME NEW tab \in Tab, TabFits(tab), tab.note \in Notes,
              tab.dirty /\ tab.path = p => Older(rev, tab.text)
       PROVE  TabFits(tab)'
  <2>1. tab.rev \in Revisions /\ tab.text \in Nat /\ tab.path \in Paths
    BY <1>2, <1>11, TabFields DEF TabFits
  <2>2. tab.text <= texts' /\ tab.rev.text <= texts'
    BY <1>6, <1>11, <2>1, RevisionFields DEF TabFits
  <2>3. where[tab.note] # None => NotAhead(tab.rev, disk'[Home[tab.note]])
    BY <1>5, <1>11, <2>1 DEF TabFits
  <2>4. tab.dirty /\ disk'[tab.path] # None => Older(disk'[tab.path], tab.text)
    BY <1>3, <1>11, <2>1 DEF TabFits
  <2> QED BY <1>11, <2>2, <2>3, <2>4 DEF TabFits
<1>12. ASSUME NEW s \in saves, NEW n \in Notes, CanReplace(s, n)'
       PROVE  Home[n] # p /\ CanReplace(s, n)
  <2>1. s.st = "running" /\ s.path = Home[n] /\ where[n] # None /\ s.base = disk'[Home[n]]
    BY <1>12 DEF CanReplace
  <2>2. Home[n] # p
    <3> SUFFICES ASSUME Home[n] = p PROVE FALSE
      OBVIOUS
    <3>1. s.base = rev /\ NotAhead(s.base, disk[p])
      BY <1>1, <1>2, <1>3, <2>1 DEF SaveFits
    <3>2. rev.stamp \in Nat /\ disk[p].stamp \in Nat
      BY <1>1, RevisionFields
    <3> QED BY <3>1, <3>2 DEF NotAhead
  <2> QED BY <1>2, <1>3, <2>1, <2>2 DEF CanReplace
<1>13. ASSUME NEW n \in Notes
       PROVE  IF Home[n] = p THEN where[n] # None /\ Kept(n)' = rev
              ELSE Kept(n)' = Kept(n) /\ disk'[Home[n]] = disk[Home[n]]
  BY <1>2, <1>3, <1>4 DEF Kept
<1> QED BY <1>7, <1>8, <1>9, <1>10, <1>11, <1>12, <1>13

LEMMA OutsideWriteKept ==
    ASSUME Kept0, GoodStep, NEW p \in Paths, OutsideWrite(p) PROVE Kept0'
<1>1. PICK rev : rev = Revision(disk[p].file, texts + 1, "other", disk[p].stamp + 1)
  OBVIOUS
<1>2. /\ disk[p] # None /\ texts' = texts + 1 /\ disk' = [disk EXCEPT ![p] = rev]
      /\ texts < MaxTexts
      /\ UNCHANGED <<ui, outcomes, saves, reads, jobs, done, where, bin>>
  BY <1>1, IInvParts DEF OutsideWrite, worker, Kept0, Others
<1>3. IInv /\ IInv' /\ Fits
  BY FitsParts DEF Kept0, GoodStep
<1>4. /\ texts \in Nat /\ disk \in [Paths -> Revisions \cup {None}]
      /\ saves \in SUBSET Save /\ reads \in SUBSET Read
      /\ \A i \in DOMAIN done : done[i] \in Reply
      /\ \A s \in saves : s.st = "saved" => s.rev # None
      /\ \A r \in reads : r.st = "read" => r.rev # None
  BY <1>3, TextsAreNumbers, IInvParts DEF Others
<1>5. /\ rev \in Revisions /\ rev.by = "other" /\ rev.text = texts + 1
      /\ disk[p].stamp < rev.stamp
  <2>1. disk[p] \in Revisions /\ disk[p].stamp \in Nat
    BY <1>2, <1>4, RevisionFields
  <2>2. texts + 1 \in Texts
    BY <1>2, <1>4, Constants DEF Texts
  <2>3. rev \in Revisions
    BY <1>1, <2>1, <2>2 DEF Revision, Revisions
  <2> QED BY <1>1, <2>1, <2>3 DEF Revision
<1>6. /\ NotesFit'
      /\ \A s \in Save : (s.st = "saved" => s.rev # None) /\ SaveFits(s) => SaveFits(s)'
      /\ \A r \in Read : (r.st = "read" => r.rev # None) /\ ReadFits(r) => ReadFits(r)'
      /\ \A a \in Reply : AnswerFits(a) => AnswerFits(a)'
      /\ \A tab \in Tab : /\ TabFits(tab) /\ tab.note \in Notes
                          /\ tab.dirty /\ tab.path = p => Older(rev, tab.text)
                          => TabFits(tab)'
      /\ \A s \in saves, n \in Notes : CanReplace(s, n)' => Home[n] # p /\ CanReplace(s, n)
      /\ \A n \in Notes : IF Home[n] = p THEN where[n] # None /\ Kept(n)' = rev
                          ELSE Kept(n)' = Kept(n) /\ disk'[Home[n]] = disk[Home[n]]
  <2>1. rev.text <= texts' /\ texts <= texts' /\ texts' \in Nat
    BY <1>2, <1>4, <1>5
  <2>2. UNCHANGED <<where, bin>>
    BY <1>2
  <2> QED BY <1>2, <1>3, <1>5, <2>1, <2>2, FileNewer, ZenonT(60)
<1>7. OnlyTrash' /\ OneLoad' /\ ConflictsFit' /\ SnapshotsKept'
  BY <1>2, <1>3, LoopStill DEF Fits
<1>8. /\ \A s \in saves' : SaveFits(s)'
      /\ \A r \in reads' : ReadFits(r)'
  BY <1>2, <1>3, <1>4, <1>6 DEF Fits
<1>9. ASSUME NEW i \in DOMAIN done' PROVE AnswerFits(done[i])'
  <2>1. PICK a : a = done[i]
    OBVIOUS
  <2>2. a \in Reply /\ AnswerFits(a)
    BY <1>2, <1>3, <1>4, <2>1 DEF Fits
  <2>3. AnswerFits(a)'
    BY <1>6, <2>2
  <2> QED BY <1>2, <2>1, <2>3 DEF AnswerFits
<1>10. ASSUME NEW text, NEW n \in Notes, Settles(text, n) PROVE Settles(text, n)'
  <2>1. Holds(Kept(n), text)'
    <3>1. CASE Home[n] = p
      BY <1>5, <1>6, <3>1, Constants DEF Holds
    <3>2. CASE Home[n] # p
      BY <1>6, <1>10, <3>2 DEF Holds, Settles
    <3> QED BY <3>1, <3>2
  <2>2. \A s \in saves' : CanReplace(s, n)' => s.text = text
    BY <1>2, <1>6, <1>10 DEF Settles
  <2> QED BY <2>1, <2>2 DEF Settles
<1>11. AnswersSettled'
  <2> SUFFICES ASSUME ui'.stage # "switched", NEW i \in DOMAIN done', Loading(done[i])',
                      done'[i].rev.by = "own"
               PROVE  Settles(done[i].rev.text, done[i].note)'
    BY DEF AnswersSettled
  <2>1. PICK a : a = done[i]
    OBVIOUS
  <2>2. Settles(a.rev.text, a.note) /\ a.note \in Notes
    BY <1>2, <1>3, <1>4, <2>1 DEF Fits, AnswersSettled, Loading, Reply
  <2>3. Settles(a.rev.text, a.note)'
    BY <1>10, <2>2
  <2> QED BY <1>2, <2>1, <2>3 DEF Settles, CanReplace, Kept, Holds
<1>12. OrphansSettled'
  <2> SUFFICES ASSUME ui'.stage # "switched", NEW n \in Notes, NEW s \in saves',
                      CanReplace(s, n)', ~IsOpen(ui', s.tab), disk'[Home[n]].by = "own"
               PROVE  s.text = disk'[Home[n]].text
    BY DEF OrphansSettled
  <2>1. s \in saves /\ Home[n] # p /\ CanReplace(s, n)
    BY <1>2, <1>6
  <2>2. disk'[Home[n]] = disk[Home[n]]
    BY <1>6, <2>1
  <2> QED BY <1>2, <1>3, <2>1, <2>2 DEF Fits, OrphansSettled
<1>13. TabsFit'
  <2> SUFFICES ASSUME NEW t \in Tabs, IsOpen(ui', t)
               PROVE  (/\ TabFits(ui.tabs[t]) /\ TabSettled(t, ui.tabs[t])
                       /\ \A s \in saves : SaveOfTab(s, t, ui.tabs[t])
                       /\ \A q \in reads : ReadOfTab(q, t, ui.tabs[t]))'
    BY DEF TabsFit
  <2>1. PICK tab : tab = ui.tabs[t]
    OBVIOUS
  <2>2. IsOpen(ui, t) /\ ui'.tabs[t] = tab
    BY <1>2, <2>1
  <2>3. /\ TabFits(tab) /\ TabSettled(t, tab) /\ tab \in Tab /\ tab.note \in Notes
        /\ \A s \in saves : SaveOfTab(s, t, tab)
        /\ \A q \in reads : ReadOfTab(q, t, tab)
    BY <1>3, <2>1, <2>2, OpenFits
  <2>4. TabFits(tab)'
    BY <1>5, <1>6, <2>3 DEF Older
  <2>5. TabSettled(t, tab)'
    BY <1>2, <1>10, <2>3 DEF TabSettled, Foreign
  <2> QED BY <1>2, <2>2, <2>3, <2>4, <2>5
<1>14. Fits'
  BY <1>6, <1>7, <1>8, <1>9, <1>11, <1>12, <1>13 DEF Fits
<1> QED BY <1>3, <1>14, KeptPartsPrime DEF Kept0

\* A save that does not replace the file
LEMMA SaveFails ==
    ASSUME Kept0, GoodStep, NEW s \in saves, s.st = "running", NEW q,
           saves' = (saves \ {s}) \cup {q},
           q.st \notin {"running", "saved"}, q.tab = s.tab, q.path = s.path, q.base = s.base,
           q.text = s.text, q.crev = s.crev,
           UNCHANGED <<ui, outcomes, reads, disk, jobs, done, where, bin, texts>>
    PROVE  Kept0'
<1>1. IInv /\ IInv' /\ Fits
  BY FitsParts DEF Kept0, GoodStep
<1>2. OnlyTrash' /\ OneLoad' /\ ConflictsFit' /\ SnapshotsKept'
  BY <1>1, LoopStill DEF Fits
<1>3. /\ NotesFit' /\ (\A r \in reads' : ReadFits(r)')
      /\ \A i \in DOMAIN done' : AnswerFits(done[i])'
  BY <1>1, StillFits DEF Fits
<1>4. \A text, n : Settles(text, n) => Settles(text, n)'
  BY SettlesStill
<1>5. AnswersSettled'
  BY <1>1, <1>4 DEF Fits, AnswersSettled, Loading
<1>6. OrphansSettled'
  BY <1>1 DEF Fits, OrphansSettled, CanReplace
<1>7. ASSUME NEW z \in saves' PROVE SaveFits(z)'
  <2>1. CASE z \in saves
    BY <1>1, <2>1, StillFits DEF Fits
  <2>2. CASE z = q
    <3>1. SaveFits(s)
      BY <1>1 DEF Fits
    <3>2. SaveFits(q)
      BY <3>1 DEF SaveFits
    <3> QED BY <2>2, <3>2, StillFits
  <2> QED BY <1>7, <2>1, <2>2
<1>8. TabsFit'
  <2> SUFFICES ASSUME NEW t \in Tabs, IsOpen(ui', t)
               PROVE  (/\ TabFits(ui.tabs[t]) /\ TabSettled(t, ui.tabs[t])
                       /\ \A z \in saves : SaveOfTab(z, t, ui.tabs[t])
                       /\ \A r \in reads : ReadOfTab(r, t, ui.tabs[t]))'
    BY DEF TabsFit
  <2>1. PICK tab : tab = ui.tabs[t]
    OBVIOUS
  <2>2. /\ ui'.tabs[t] = tab /\ TabFits(tab) /\ TabSettled(t, tab)
        /\ \A z \in saves : SaveOfTab(z, t, tab)
        /\ \A r \in reads : ReadOfTab(r, t, tab)
    BY <1>1, <2>1 DEF Fits, TabsFit, IsOpen
  <2>3. TabFits(tab)' /\ TabSettled(t, tab)'
    BY <1>4, <2>2, StillFits DEF TabSettled, Foreign
  <2>4. \A z \in saves' : SaveOfTab(z, t, tab)
    BY <2>2 DEF SaveOfTab
  <2> QED BY <2>2, <2>3, <2>4
<1>9. Fits'
  BY <1>2, <1>3, <1>5, <1>6, <1>7, <1>8 DEF Fits
<1> QED BY <1>1, <1>9, KeptPartsPrime DEF Kept0

\* A save that replaces the file: no save that knew the file before it can do so any more.
LEMMA SaveSucceeds ==
    ASSUME Kept0, GoodStep, NEW s \in saves, s.st = "running", disk[s.path] = s.base,
           NEW q \in Save, saves' = (saves \ {s}) \cup {q}, disk' = [disk EXCEPT ![s.path] = q.rev],
           q.st = "saved", q.tab = s.tab, q.path = s.path, q.base = s.base,
           q.text = s.text, q.crev = s.crev, q.rev # None, q.rev.text = s.text,
           q.rev.by = "own", s.base # None => q.rev.stamp = s.base.stamp + 1,
           UNCHANGED <<ui, outcomes, reads, jobs, done, where, bin, texts>>
    PROVE  Kept0'
<1>1. IInv /\ IInv' /\ Fits
  BY FitsParts DEF Kept0, GoodStep
<1>2. /\ texts \in Nat /\ disk \in [Paths -> Revisions \cup {None}]
      /\ saves \in SUBSET Save /\ reads \in SUBSET Read
      /\ \A i \in DOMAIN done : done[i] \in Reply
      /\ \A z \in saves : z.st = "saved" => z.rev # None
      /\ \A r \in reads : r.st = "read" => r.rev # None
      /\ NotesFit /\ \A z \in saves : SaveFits(z)
  BY <1>1, TextsAreNumbers, IInvParts DEF Others, Fits
<1> DEFINE p == s.path
<1>3. PICK rev : rev = q.rev
  OBVIOUS
<1>4. /\ p \in Paths /\ disk[p] # None /\ rev \in Revisions /\ disk[p].stamp < rev.stamp
      /\ rev.text = s.text /\ s.text <= texts /\ rev.by = "own"
  <2>1. p \in Paths /\ rev \in Revisions
    BY <1>2, <1>3 DEF Save
  <2>2. s.base # None /\ s.text <= texts
    BY <1>2 DEF SaveFits
  <2>3. disk[p] \in Revisions /\ disk[p].stamp \in Nat
    BY <1>2, <2>1, <2>2, RevisionFields
  <2>4. rev.stamp = disk[p].stamp + 1
    BY <1>3, <2>2
  <2> QED BY <1>3, <2>1, <2>2, <2>3, <2>4
<1>5. disk' = [disk EXCEPT ![p] = rev]
  BY <1>3
<1>6. /\ NotesFit'
      /\ \A z \in Save : (z.st = "saved" => z.rev # None) /\ SaveFits(z) => SaveFits(z)'
      /\ \A r \in Read : (r.st = "read" => r.rev # None) /\ ReadFits(r) => ReadFits(r)'
      /\ \A a \in Reply : AnswerFits(a) => AnswerFits(a)'
      /\ \A tab \in Tab : /\ TabFits(tab) /\ tab.note \in Notes
                          /\ tab.dirty /\ tab.path = p => Older(rev, tab.text)
                          => TabFits(tab)'
      /\ \A z \in saves, n \in Notes : CanReplace(z, n)' => Home[n] # p /\ CanReplace(z, n)
      /\ \A n \in Notes : IF Home[n] = p THEN where[n] # None /\ Kept(n)' = rev
                          ELSE Kept(n)' = Kept(n) /\ disk'[Home[n]] = disk[Home[n]]
  <2>1. rev.text <= texts' /\ texts <= texts' /\ texts' \in Nat
    BY <1>2, <1>4
  <2>2. UNCHANGED <<where, bin>>
    OBVIOUS
  <2> HIDE DEF p
  <2> QED BY <1>1, <1>4, <1>5, <2>1, <2>2, FileNewer
<1>7. \A z \in saves', n \in Notes : CanReplace(z, n)' =>
         z \in saves /\ Home[n] # p /\ CanReplace(z, n)
  <2>1. \A n \in Notes : ~CanReplace(q, n)'
    BY DEF CanReplace
  <2> QED BY <1>6, <2>1
<1> HIDE DEF p
<1>8. OnlyTrash' /\ OneLoad' /\ ConflictsFit' /\ SnapshotsKept'
  BY <1>1, LoopStill DEF Fits
<1>9. ASSUME NEW z \in saves' PROVE SaveFits(z)'
  <2>1. CASE z \in saves
    BY <1>2, <1>6, <2>1
  <2>2. CASE z = q
    <3>1. SaveFits(s)
      BY <1>2
    <3>2. ASSUME NEW n \in Notes, where[n] # None, q.path = Home[n]
          PROVE  NotAhead(q.rev, disk'[Home[n]])
      <4>1. disk'[Home[n]] = rev
        BY <1>2, <1>4, <1>5, <3>2 DEF p
      <4> QED BY <1>3, <1>4, <4>1, RevisionFields DEF NotAhead
    <3> QED BY <2>2, <3>1, <3>2 DEF SaveFits
  <2> QED BY <1>9, <2>1, <2>2
<1>10. \A r \in reads' : ReadFits(r)'
  BY <1>1, <1>2, <1>6 DEF Fits
<1>11. ASSUME NEW i \in DOMAIN done' PROVE AnswerFits(done[i])'
  <2>1. PICK a : a = done[i]
    OBVIOUS
  <2>2. a \in Reply /\ AnswerFits(a)
    BY <1>1, <1>2, <2>1 DEF Fits
  <2>3. AnswerFits(a)'
    BY <1>6, <2>2
  <2> QED BY <2>1, <2>3 DEF AnswerFits
<1>12. ASSUME NEW n \in Notes, Home[n] = p
       PROVE  Settles(s.text, n)'
  <2>1. Holds(Kept(n), s.text)'
    BY <1>4, <1>6, <1>12, Constants DEF Holds
  <2>2. \A z \in saves' : ~CanReplace(z, n)'
    BY <1>7, <1>12
  <2> QED BY <2>1, <2>2 DEF Settles
<1>13. ASSUME NEW text, NEW n \in Notes, Settles(text, n) PROVE Settles(text, n)'
  <2>1. CASE Home[n] = p
    <3>1. CanReplace(s, n)
      BY <1>6, <2>1 DEF CanReplace, p
    <3>2. s.text = text
      BY <1>13, <3>1 DEF Settles
    <3> QED BY <1>12, <2>1, <3>2
  <2>2. CASE Home[n] # p
    <3>1. Holds(Kept(n), text)'
      BY <1>6, <1>13, <2>2 DEF Holds, Settles
    <3>2. \A z \in saves' : CanReplace(z, n)' => z.text = text
      BY <1>7, <1>13 DEF Settles
    <3> QED BY <3>1, <3>2 DEF Settles
  <2> QED BY <2>1, <2>2
<1>14. AnswersSettled'
  <2> SUFFICES ASSUME ui'.stage # "switched", NEW i \in DOMAIN done', Loading(done[i])',
                      done'[i].rev.by = "own"
               PROVE  Settles(done[i].rev.text, done[i].note)'
    BY DEF AnswersSettled
  <2>1. PICK a : a = done[i]
    OBVIOUS
  <2>2. Settles(a.rev.text, a.note) /\ a.note \in Notes
    BY <1>1, <1>2, <2>1 DEF Fits, AnswersSettled, Loading, Reply
  <2>3. Settles(a.rev.text, a.note)'
    BY <1>13, <2>2
  <2> QED BY <2>1, <2>3 DEF Settles, CanReplace, Kept, Holds
<1>15. OrphansSettled'
  <2> SUFFICES ASSUME ui'.stage # "switched", NEW n \in Notes, NEW z \in saves',
                      CanReplace(z, n)', ~IsOpen(ui', z.tab), disk'[Home[n]].by = "own"
               PROVE  z.text = disk'[Home[n]].text
    BY DEF OrphansSettled
  <2>1. z \in saves /\ Home[n] # p /\ CanReplace(z, n)
    BY <1>7
  <2>2. disk'[Home[n]] = disk[Home[n]]
    BY <1>6, <2>1
  <2> QED BY <1>1, <2>1, <2>2 DEF Fits, OrphansSettled
<1>16. TabsFit'
  <2> SUFFICES ASSUME NEW t \in Tabs, IsOpen(ui', t)
               PROVE  (/\ TabFits(ui.tabs[t]) /\ TabSettled(t, ui.tabs[t])
                       /\ \A z \in saves : SaveOfTab(z, t, ui.tabs[t])
                       /\ \A r \in reads : ReadOfTab(r, t, ui.tabs[t]))'
    BY DEF TabsFit
  <2>1. PICK tab : tab = ui.tabs[t]
    OBVIOUS
  <2>2. IsOpen(ui, t) /\ ui'.tabs[t] = tab
    BY <2>1
  <2>3. /\ TabFits(tab) /\ TabSettled(t, tab) /\ tab \in Tab /\ tab.note \in Notes
        /\ \A z \in saves : SaveOfTab(z, t, tab)
        /\ \A r \in reads : ReadOfTab(r, t, tab)
    BY <1>1, <2>1, <2>2, OpenFits
  <2>4. TabFits(tab)'
    <3>1. tab.dirty /\ tab.path = p => Older(rev, tab.text)
      BY <1>4, <2>3 DEF SaveOfTab, Older, p
    <3> QED BY <1>6, <2>3, <3>1
  <2>5. \A z \in saves' : SaveOfTab(z, t, tab)
    BY <2>3 DEF SaveOfTab
  <2>6. TabSettled(t, tab)'
    <3>1. ASSUME NEW z \in saves', z.st = "saved", z.tab = t, z.crev = tab.crev
          PROVE  Settles(z.text, tab.note)'
      <4>1. CASE z \in saves
        BY <1>13, <2>3, <3>1, <4>1 DEF TabSettled
      <4>2. CASE z = q
        <5>1. Home[tab.note] = p
          BY <2>3, <3>1, <4>2 DEF SaveOfTab, TabFits, p
        <5> QED BY <1>12, <2>3, <4>2, <5>1
      <4> QED BY <3>1, <4>1, <4>2
    <3>2. ~tab.dirty /\ ~Foreign(tab) => Settles(tab.text, tab.note)'
      BY <1>13, <2>3 DEF TabSettled
    <3> QED BY <3>1, <3>2 DEF TabSettled, Foreign
  <2> QED BY <2>2, <2>3, <2>4, <2>5, <2>6
<1>17. Fits'
  BY <1>6, <1>8, <1>9, <1>10, <1>11, <1>14, <1>15, <1>16 DEF Fits
<1> QED BY <1>1, <1>17, KeptPartsPrime DEF Kept0

LEMMA SaveEndsKept ==
    ASSUME Kept0, GoodStep, NEW s \in saves, SaveEnds(s) PROVE Kept0'
<1>1. s.st = "running" /\ UNCHANGED <<ui, outcomes, reads, jobs, done, where, bin, texts>>
  BY DEF SaveEnds, worker
<1>2. s \in Save
  BY IInvParts DEF Kept0, Others
<1>3. PICK e : e = [s EXCEPT !.st = "error"]
  OBVIOUS
<1>4. PICK w : w = Written(s)
  OBVIOUS
<1>5. /\ w \in Save /\ w.tab = s.tab /\ w.path = s.path
      /\ w.base = s.base /\ w.text = s.text /\ w.crev = s.crev
      /\ IF disk[s.path] = s.base
         THEN /\ w.st = "saved" /\ w.rev # None
              /\ w.rev.text = s.text /\ w.rev.by = "own"
              /\ s.base # None => w.rev.stamp = s.base.stamp + 1
         ELSE w.st = "conflict"
  BY <1>2, <1>4, WrittenType
<1>6. CASE saves' = (saves \ {s}) \cup {e} /\ UNCHANGED disk
  <2>1. /\ e.st \notin {"running", "saved"} /\ e.tab = s.tab /\ e.path = s.path
        /\ e.base = s.base /\ e.text = s.text /\ e.crev = s.crev
    BY <1>2, <1>3 DEF Save
  <2> QED BY <1>1, <1>6, <2>1, SaveFails
<1>7. CASE /\ saves' = (saves \ {s}) \cup {w}
           /\ disk' = IF w.st = "saved" THEN [disk EXCEPT ![s.path] = w.rev] ELSE disk
  <2>1. CASE disk[s.path] = s.base
    BY <1>1, <1>5, <1>7, <2>1, SaveSucceeds
  <2>2. CASE disk[s.path] # s.base
    BY <1>1, <1>5, <1>7, <2>2, SaveFails
  <2> QED BY <2>1, <2>2
<1> QED BY <1>3, <1>4, <1>6, <1>7 DEF SaveEnds

\* Notes that go to the trash, and nothing else on the disk, leave what is settled settled.
LEMMA TrashingFits ==
    ASSUME IInv, Fits, UNCHANGED <<ui, outcomes, saves, reads, texts>>,
           \A n \in Notes : \/ where'[n] = where[n] /\ disk'[Home[n]] = disk[Home[n]]
                            \/ where'[n] = None,
           \A p \in Paths : disk'[p] = disk[p] \/ disk'[p] = None,
           \A n \in Notes : Kept(n)' = Kept(n)
    PROVE  /\ TabsFit' /\ ConflictsFit' /\ SnapshotsKept' /\ OrphansSettled'
           /\ \A s \in saves' : SaveFits(s)'
           /\ \A r \in reads' : ReadFits(r)'
           /\ \A a \in Reply : AnswerFits(a) => AnswerFits(a)'
           /\ \A text : \A n \in Notes : Settles(text, n) => Settles(text, n)'
           /\ \A p \in Paths : disk'[p] # None => disk'[p].text <= texts'
<1>1. /\ \A n \in Notes : Home[n] \in Paths
      /\ \A s \in saves : s.path \in Paths
  BY TextsAreNumbers, Constants
<1>2. NotesFit /\ TabsFit /\ ConflictsFit /\ SnapshotsKept /\ OrphansSettled
  BY DEF Fits
<1>3. ASSUME NEW s, NEW n \in Notes, CanReplace(s, n)'
      PROVE  CanReplace(s, n) /\ disk'[Home[n]] = disk[Home[n]]
  BY <1>3 DEF CanReplace
<1>4. ASSUME NEW text, NEW n \in Notes, Settles(text, n) PROVE Settles(text, n)'
  <2>1. Holds(Kept(n), text)'
    BY <1>4 DEF Settles, Holds
  <2>2. \A s \in saves' : CanReplace(s, n)' => s.text = text
    BY <1>3, <1>4 DEF Settles
  <2> QED BY <2>1, <2>2 DEF Settles
<1>5. ConflictsFit' /\ SnapshotsKept'
  BY <1>2 DEF ConflictsFit, SnapshotsKept, Snapshots, DirtyTabs, IsDirty, IsOpen
<1>6. OrphansSettled'
  <2> SUFFICES ASSUME ui'.stage # "switched", NEW n \in Notes, NEW s \in saves',
                      CanReplace(s, n)', ~IsOpen(ui', s.tab), disk'[Home[n]].by = "own"
               PROVE  s.text = disk'[Home[n]].text
    BY DEF OrphansSettled
  <2>1. CanReplace(s, n) /\ disk'[Home[n]] = disk[Home[n]]
    BY <1>3
  <2> QED BY <1>2, <2>1 DEF OrphansSettled
<1>7. ASSUME NEW s \in saves' PROVE SaveFits(s)'
  <2>1. SaveFits(s)
    BY <1>7 DEF Fits
  <2> QED BY <2>1 DEF SaveFits
<1>8. ASSUME NEW r \in reads' PROVE ReadFits(r)'
  <2>1. ReadFits(r)
    BY <1>8 DEF Fits
  <2> QED BY <2>1 DEF ReadFits
<1>9. ASSUME NEW a \in Reply, AnswerFits(a) PROVE AnswerFits(a)'
  <2>1. a.note \in Notes
    BY DEF Reply
  <2> QED BY <1>9, <2>1 DEF AnswerFits
<1>10. TabsFit'
  <2> SUFFICES ASSUME NEW t \in Tabs, IsOpen(ui', t)
               PROVE  (/\ TabFits(ui.tabs[t]) /\ TabSettled(t, ui.tabs[t])
                       /\ \A s \in saves : SaveOfTab(s, t, ui.tabs[t])
                       /\ \A r \in reads : ReadOfTab(r, t, ui.tabs[t]))'
    BY DEF TabsFit
  <2>1. PICK tab : tab = ui.tabs[t]
    OBVIOUS
  <2>2. ui'.tabs[t] = tab /\ IsOpen(ui, t)
    BY <2>1
  <2>3. /\ TabFits(tab) /\ TabSettled(t, tab) /\ tab.note \in Notes /\ tab.path \in Paths
        /\ \A s \in saves : SaveOfTab(s, t, tab)
        /\ \A r \in reads : ReadOfTab(r, t, tab)
    BY <2>1, <2>2, OpenFits
  <2>4. TabFits(tab)'
    BY <2>3 DEF TabFits
  <2>5. TabSettled(t, tab)'
    BY <1>4, <2>3 DEF TabSettled, Foreign
  <2> QED BY <2>2, <2>3, <2>4, <2>5
<1>11. \A p \in Paths : disk'[p] # None => disk'[p].text <= texts'
  BY <1>2 DEF NotesFit
<1> QED BY <1>4, <1>5, <1>6, <1>7, <1>8, <1>9, <1>10, <1>11

\* What a command of the worker does, notes staying where they are.
LEMMA WorkEffect ==
    ASSUME Kept0, Work
    PROVE  \E job \in Job, a \in Reply :
              /\ jobs # <<>> /\ job = jobs[1] /\ jobs' = Tail(jobs) /\ job.kind \in {"load", "trash"}
              /\ UNCHANGED <<ui, outcomes, saves, reads, texts>>
              /\ done' = done \/ done' = Append(done, a)
              /\ a.kind = job.kind /\ a.note = job.note /\ a.generation = job.generation
              /\ \/ UNCHANGED <<where, disk, bin, done>>
                 \/ /\ where[job.note] # None /\ disk[Home[job.note]] # None
                    /\ a.rev = disk[Home[job.note]]
                    /\ job.kind = "load" => a.to = Home[job.note]
                    /\ \/ UNCHANGED <<where, disk, bin>> /\ job.kind = "load"
                       \/ /\ job.kind = "trash"
                          /\ where' = [where EXCEPT ![job.note] = None]
                          /\ disk' = [disk EXCEPT ![Home[job.note]] = None]
                          /\ bin' = [bin EXCEPT ![job.note] = disk[Home[job.note]]]
<1>1. IInv /\ Fits /\ Others
  BY FitsParts, IInvParts DEF Kept0
<1>2. PICK job : job = Head(jobs)
  OBVIOUS
<1>3. PICK from : from = where[job.note]
  OBVIOUS
<1>4. PICK here \in BOOLEAN : here <=> from # None /\ disk[from] # None
  OBVIOUS
<1>5. jobs # <<>> /\ jobs' = Tail(jobs) /\ UNCHANGED <<ui, outcomes, saves, reads, texts>>
  BY DEF Work, spent
<1>6. jobs \in Seq(Job) /\ \A i \in DOMAIN jobs : jobs[i].to \in Targets(jobs[i].kind)
  BY <1>1 DEF Others
<1>7. /\ job \in Job /\ job = jobs[1] /\ 1 \in DOMAIN jobs
  BY <1>2, <1>5, <1>6, HeadAndTail
<1>8. /\ job.kind \in {"load", "trash"} /\ job.to \in Targets(job.kind)
      /\ job.note \in Notes /\ job.generation \in Nat /\ job.to \in Paths \cup {None}
  BY <1>1, <1>6, <1>7 DEF Fits, OnlyTrash, Job
<1>9. /\ done' = IF here THEN Append(done, Answer(job, from, disk[from])) ELSE done
      /\ IF here /\ job.kind # "load"
         THEN /\ where' = [where EXCEPT ![job.note] = job.to]
              /\ disk' = [p \in Paths |-> IF p = job.to THEN disk[from]
                                          ELSE IF p = from THEN None ELSE disk[p]]
              /\ bin' = IF job.to = None THEN [bin EXCEPT ![job.note] = disk[from]] ELSE bin
         ELSE UNCHANGED <<where, disk, bin>>
  BY <1>2, <1>3, <1>4, <1>8 DEF Work
<1>10. CASE ~here
  <2>1. \A n \in Notes : Home[n] \in Paths
    BY Constants
  <2> DEFINE b == [kind |-> job.kind, note |-> job.note, from |-> Home[job.note],
                   to |-> job.to, generation |-> job.generation,
                   rev |-> Revision(None, 0, "own", 0)]
  <2>2. Revision(None, 0, "own", 0) \in Revisions
    BY Constants DEF Revision, Revisions, Texts
  <2>3. b \in Reply /\ b.kind = job.kind /\ b.note = job.note /\ b.generation = job.generation
    <3>1. job.kind \in Relocations \cup {"load"}
      BY <1>8 DEF Relocations
    <3> QED BY <1>8, <2>1, <2>2, <3>1 DEF Reply
  <2> HIDE DEF b
  <2>4. UNCHANGED <<where, disk, bin, done>>
    BY <1>9, <1>10
  <2> QED BY <1>5, <1>7, <1>8, <2>3, <2>4
<1>11. CASE here
  <2>1. /\ from \in Paths /\ from = Home[job.note] /\ disk[from] \in Revisions
        /\ disk[from] # None /\ where[job.note] # None /\ from # None
    BY <1>1, <1>3, <1>4, <1>8, <1>11, Constants DEF Others, Fits, NotesFit
  <2>2. PICK rev : rev = disk[from]
    OBVIOUS
  <2>3. PICK to : to = IF job.kind = "load" THEN from ELSE job.to
    OBVIOUS
  <2>4. PICK b : b = [kind |-> job.kind, note |-> job.note, from |-> from, to |-> to,
                      generation |-> job.generation, rev |-> rev]
    OBVIOUS
  <2>5. b = Answer(job, from, disk[from])
    BY <2>2, <2>3, <2>4 DEF Answer
  <2>6. /\ b.kind = job.kind /\ b.note = job.note /\ b.generation = job.generation
        /\ b.rev = rev /\ b.to = to
    BY <2>4
  <2>7. b \in Reply
    <3>1. job.kind \in Relocations \cup {"load"}
      BY <1>8 DEF Relocations
    <3>2. to \in Paths \cup {None} /\ rev \in Revisions
      BY <1>8, <2>1, <2>2, <2>3
    <3> QED BY <1>8, <2>1, <2>4, <3>1, <3>2 DEF Reply
  <2>8. done' = Append(done, b) /\ (job.kind = "load" => b.to = Home[job.note])
    BY <1>9, <1>11, <2>1, <2>3, <2>5, <2>6
  <2>9. CASE job.kind = "load"
    <3>1. UNCHANGED <<where, disk, bin>>
      BY <1>9, <2>9
    <3> QED BY <1>5, <1>7, <1>8, <2>1, <2>2, <2>6, <2>7, <2>8, <2>9, <3>1
  <2>10. CASE job.kind = "trash"
    <3>1. job.to = None
      BY <1>8, <2>10 DEF Targets
    <3>2. /\ where' = [where EXCEPT ![job.note] = None]
          /\ bin' = [bin EXCEPT ![job.note] = disk[from]]
          /\ disk' = [p \in Paths |-> IF p = None THEN disk[from]
                                      ELSE IF p = from THEN None ELSE disk[p]]
      BY <1>9, <1>11, <2>10, <3>1
    <3>3. disk \in [Paths -> Revisions \cup {None}]
      BY <1>1 DEF Others
    <3>4. disk' = [disk EXCEPT ![from] = None]
      BY <2>1, <3>2, <3>3, Constants
    <3>5. /\ where' = [where EXCEPT ![job.note] = None]
          /\ disk' = [disk EXCEPT ![Home[job.note]] = None]
          /\ bin' = [bin EXCEPT ![job.note] = disk[Home[job.note]]]
      BY <2>1, <3>2, <3>4
    <3>6. /\ where[job.note] # None /\ disk[Home[job.note]] # None
          /\ b.rev = disk[Home[job.note]] /\ (job.kind = "load" => b.to = Home[job.note])
      BY <2>1, <2>2, <2>6, <2>8
    <3> QED BY <1>5, <1>7, <1>8, <2>6, <2>7, <2>8, <2>10, <3>5, <3>6
  <2> QED BY <1>8, <2>9, <2>10
<1> QED BY <1>10, <1>11

\* What a load reads while no tab of its note is open is settled.
LEMMA ReadIsSettled ==
    ASSUME IInv, Fits, NEW n \in Notes, where[n] # None, TabsOf(ui, n) = {},
           disk[Home[n]].by = "own", ui.stage # "switched"
    PROVE  Settles(disk[Home[n]].text, n)
<1>1. /\ where[n] = Home[n] /\ disk[Home[n]] # None
      /\ TabsOf(ui, n) = {t \in Tabs : IsOpen(ui, t) /\ ui.tabs[t].note = n}
  BY TabsOfOpen DEF Fits, NotesFit
<1>2. ASSUME NEW s \in saves, CanReplace(s, n)
      PROVE  s.text = disk[Home[n]].text
  <2>1. ~IsOpen(ui, s.tab)
    <3> SUFFICES ASSUME IsOpen(ui, s.tab) PROVE FALSE
      OBVIOUS
    <3>1. s.tab \in Tabs
      BY TextsAreNumbers
    <3>2. /\ SaveOfTab(s, s.tab, ui.tabs[s.tab]) /\ TabFits(ui.tabs[s.tab])
          /\ ui.tabs[s.tab].note \in Notes
      BY <3>1, OpenFits
    <3>3. Home[n] = Home[ui.tabs[s.tab].note]
      BY <1>2, <3>2 DEF SaveOfTab, TabFits, CanReplace
    <3> QED BY <1>1, <3>1, <3>2, <3>3, Constants
  <2> QED BY <1>2, <2>1 DEF Fits, OrphansSettled
<1>3. Holds(Kept(n), disk[Home[n]].text)
  BY <1>1, Constants DEF Holds, Kept
<1> QED BY <1>2, <1>3 DEF Settles

LEMMA WorkKept ==
    ASSUME Kept0, GoodStep, Work PROVE Kept0'
<1>1. IInv /\ IInv' /\ Fits /\ Others
  BY FitsParts, IInvParts DEF Kept0, GoodStep
<1>2. PICK job \in Job, a \in Reply :
              /\ jobs # <<>> /\ job = jobs[1] /\ jobs' = Tail(jobs) /\ job.kind \in {"load", "trash"}
              /\ UNCHANGED <<ui, outcomes, saves, reads, texts>>
              /\ done' = done \/ done' = Append(done, a)
              /\ a.kind = job.kind /\ a.note = job.note /\ a.generation = job.generation
              /\ \/ UNCHANGED <<where, disk, bin, done>>
                 \/ /\ where[job.note] # None /\ disk[Home[job.note]] # None
                    /\ a.rev = disk[Home[job.note]]
                    /\ job.kind = "load" => a.to = Home[job.note]
                    /\ \/ UNCHANGED <<where, disk, bin>> /\ job.kind = "load"
                       \/ /\ job.kind = "trash"
                          /\ where' = [where EXCEPT ![job.note] = None]
                          /\ disk' = [disk EXCEPT ![Home[job.note]] = None]
                          /\ bin' = [bin EXCEPT ![job.note] = disk[Home[job.note]]]
  BY WorkEffect
<1> DEFINE n0 == job.note
           p0 == Home[n0]
<1>3. /\ n0 \in Notes /\ p0 \in Paths /\ \A n \in Notes : Home[n] = p0 => n = n0
      /\ \A n \in Notes : Home[n] \in Paths
  BY Constants DEF Job
<1>4. /\ \A i \in DOMAIN jobs' : i + 1 \in DOMAIN jobs /\ jobs'[i] = jobs[i + 1] /\ i + 1 # 1
      /\ 1 \in DOMAIN jobs
  <2>1. jobs \in Seq(Job) /\ jobs # <<>>
    BY <1>1, <1>2 DEF Others
  <2>2. 1 \in DOMAIN jobs /\ \A i \in DOMAIN Tail(jobs) : i + 1 \in DOMAIN jobs /\ Tail(jobs)[i] = jobs[i + 1]
    BY <2>1, HeadAndTail
  <2>3. \A i \in DOMAIN Tail(jobs) : i + 1 # 1
    BY <2>1
  <2> QED BY <1>2, <2>2, <2>3
<1>5. \A i \in DOMAIN done' :
         \/ i \in DOMAIN done /\ done'[i] = done[i]
         \/ /\ i = Len(done) + 1 /\ done'[i] = a
            /\ ~UNCHANGED <<where, disk, bin, done>>
  <2>1. done \in Seq(Reply)
    BY <1>1 DEF Others
  <2>2. CASE done' = done
    BY <2>2
  <2>3. CASE done' = Append(done, a)
    BY <1>2, <2>1, <2>3, AppendedElements
  <2> QED BY <1>2, <2>2, <2>3
<1>6. /\ where \in [Notes -> Paths \cup {None}] /\ disk \in [Paths -> Revisions \cup {None}]
      /\ bin \in [Notes -> Revisions \cup {None}] /\ NotesFit
  BY <1>1 DEF Others, Fits
<1>7. /\ \A n \in Notes : \/ where'[n] = where[n] /\ disk'[Home[n]] = disk[Home[n]]
                          \/ where'[n] = None
      /\ \A p \in Paths : disk'[p] = disk[p] \/ disk'[p] = None
      /\ \A n \in Notes : Kept(n)' = Kept(n)
      /\ \A n \in Notes : IF where'[n] = None THEN disk'[Home[n]] = None /\ bin'[n] # None
                          ELSE where'[n] = Home[n] /\ disk'[Home[n]] # None
  <2>1. CASE UNCHANGED <<where, disk, bin>>
    BY <1>6, <2>1 DEF Kept, NotesFit
  <2>2. CASE /\ where[n0] # None /\ disk[p0] # None
             /\ where' = [where EXCEPT ![n0] = None]
             /\ disk' = [disk EXCEPT ![p0] = None] /\ bin' = [bin EXCEPT ![n0] = disk[p0]]
    <3>1. /\ where'[n0] = None /\ disk'[p0] = None /\ bin'[n0] = disk[p0]
          /\ where[n0] = p0
      BY <1>3, <1>6, <2>2 DEF NotesFit
    <3>2. \A n \in Notes \ {n0} : /\ where'[n] = where[n] /\ disk'[Home[n]] = disk[Home[n]]
                                  /\ bin'[n] = bin[n]
      BY <1>3, <1>6, <2>2
    <3>3. \A p \in Paths : disk'[p] = disk[p] \/ disk'[p] = None
      BY <1>6, <2>2
    <3>4. ASSUME NEW n \in Notes
          PROVE  /\ Kept(n)' = Kept(n)
                 /\ IF where'[n] = None THEN disk'[Home[n]] = None /\ bin'[n] # None
                    ELSE where'[n] = Home[n] /\ disk'[Home[n]] # None
      <4>1. CASE n = n0
        BY <2>2, <3>1, <4>1, Constants DEF Kept
      <4>2. CASE n # n0
        BY <1>3, <1>6, <3>2, <4>2, Constants DEF Kept, NotesFit
      <4> QED BY <4>1, <4>2
    <3> QED BY <3>1, <3>2, <3>3, <3>4
  <2> QED BY <1>2, <2>1, <2>2
<1> HIDE DEF n0, p0
<1>8. /\ TabsFit' /\ ConflictsFit' /\ SnapshotsKept' /\ OrphansSettled'
      /\ \A s \in saves' : SaveFits(s)'
      /\ \A r \in reads' : ReadFits(r)'
      /\ \A b \in Reply : AnswerFits(b) => AnswerFits(b)'
      /\ \A text : \A n \in Notes : Settles(text, n) => Settles(text, n)'
      /\ \A p \in Paths : disk'[p] # None => disk'[p].text <= texts'
  BY <1>1, <1>2, <1>7, TrashingFits
<1>9. NotesFit'
  BY <1>7, <1>8 DEF NotesFit
<1>10. OnlyTrash'
  <2>1. OnlyTrash
    BY <1>1 DEF Fits
  <2> QED BY <1>2, <1>4, <1>5, <2>1 DEF OnlyTrash
<1>11. OneLoad'
  <2>1. OneLoad
    BY <1>1 DEF Fits
  <2>2. \A b : Loading(b)' <=> Loading(b)
    BY <1>2 DEF Loading
  <2>3. Loading(a) <=> Loading(jobs[1])
    BY <1>2 DEF Loading
  <2>4. TabsOf(ui', a.note) = TabsOf(ui, jobs[1].note) /\ \A n : TabsOf(ui', n) = TabsOf(ui, n)
    BY <1>2
  <2>5. \A i \in DOMAIN jobs' : i \in Nat /\ i + 1 \in Nat
    <3>1. jobs' \in Seq(Job)
      BY <1>1, IInvPartsPrime DEF Others
    <3> QED BY <3>1
  <2>6. \A i \in DOMAIN jobs' : jobs'[i].kind = "load" => jobs'[i].generation <= ui'.generation
    BY <1>2, <1>4, <2>1 DEF OneLoad
  <2>7. \A i \in DOMAIN done' : done'[i].kind = "load" => done'[i].generation <= ui'.generation
    BY <1>2, <1>4, <1>5, <2>1 DEF OneLoad
  <2>8. ASSUME NEW i \in DOMAIN jobs', NEW j \in DOMAIN jobs', Loading(jobs'[i]), Loading(jobs'[j])
        PROVE  i = j
    <3>1. i + 1 = j + 1
      BY <1>4, <2>1, <2>8 DEF OneLoad
    <3> QED BY <2>5, <3>1
  <2>9. ASSUME NEW i \in DOMAIN done', NEW j \in DOMAIN done', Loading(done'[i]), Loading(done'[j])
        PROVE  i = j
    BY <1>4, <1>5, <2>1, <2>3, <2>9 DEF OneLoad
  <2>10. ASSUME NEW i \in DOMAIN jobs', NEW j \in DOMAIN done'
         PROVE  ~(Loading(jobs'[i]) /\ Loading(done'[j]))
    BY <1>4, <1>5, <2>1, <2>3 DEF OneLoad
  <2>11. ASSUME NEW i \in DOMAIN jobs', Loading(jobs'[i]) PROVE TabsOf(ui', jobs'[i].note) = {}
    BY <1>4, <2>1, <2>4, <2>11 DEF OneLoad
  <2>12. ASSUME NEW i \in DOMAIN done', Loading(done'[i]) PROVE TabsOf(ui', done'[i].note) = {}
    BY <1>4, <1>5, <2>1, <2>3, <2>4, <2>12 DEF OneLoad
  <2> QED BY <2>2, <2>6, <2>7, <2>8, <2>9, <2>10, <2>11, <2>12 DEF OneLoad
<1>12. ASSUME NEW i \in DOMAIN done' PROVE AnswerFits(done[i])'
  <2>1. PICK b : b = done'[i]
    OBVIOUS
  <2>2. CASE i \in DOMAIN done /\ b = done[i]
    <3>1. b \in Reply /\ AnswerFits(b)
      BY <1>1, <2>2, TextsAreNumbers DEF Fits
    <3> QED BY <1>8, <2>1, <3>1 DEF AnswerFits
  <2>3. CASE b = a /\ ~UNCHANGED <<where, disk, bin, done>>
    <3>1. /\ disk[p0] # None /\ a.rev = disk[p0] /\ (job.kind = "load" => a.to = p0)
          /\ job.kind = "load" => disk'[p0] = disk[p0]
      BY <1>2, <2>3 DEF p0, n0
    <3>2. a.rev \in Revisions /\ a.rev.text <= texts'
      BY <1>2, <1>3, <1>6, <3>1 DEF NotesFit
    <3>3. AnswerFits(a)'
      BY <1>2, <3>1, <3>2, RevisionFields DEF AnswerFits, NotAhead, p0, n0
    <3> QED BY <2>1, <2>3, <3>3 DEF AnswerFits
  <2> QED BY <1>5, <2>1, <2>2, <2>3
<1>13. AnswersSettled'
  <2> SUFFICES ASSUME ui'.stage # "switched", NEW i \in DOMAIN done', Loading(done[i])',
                      done'[i].rev.by = "own"
               PROVE  Settles(done[i].rev.text, done[i].note)'
    BY DEF AnswersSettled
  <2>1. PICK b : b = done'[i]
    OBVIOUS
  <2>2. Loading(b) /\ b.rev.by = "own" /\ ui.stage # "switched"
    BY <1>2, <2>1 DEF Loading
  <2>3. Settles(b.rev.text, b.note) /\ b.note \in Notes
    <3>1. CASE i \in DOMAIN done /\ b = done[i]
      BY <1>1, <2>2, <3>1, TextsAreNumbers DEF Fits, AnswersSettled, Reply
    <3>2. CASE b = a /\ ~UNCHANGED <<where, disk, bin, done>>
      <4>1. where[n0] # None /\ a.rev = disk[p0] /\ a.note = n0
        BY <1>2, <3>2 DEF p0, n0
      <4>2. Loading(jobs[1])
        BY <1>2, <2>2, <3>2 DEF Loading
      <4>3. TabsOf(ui, n0) = {}
        BY <1>1, <1>2, <1>4, <4>2 DEF Fits, OneLoad, n0
      <4> QED BY <1>1, <1>3, <2>2, <3>2, <4>1, <4>3, ReadIsSettled DEF p0
    <3> QED BY <1>5, <2>1, <3>1, <3>2
  <2>4. Settles(b.rev.text, b.note)'
    BY <1>8, <2>3
  <2> QED BY <2>1, <2>4 DEF Settles, CanReplace, Kept, Holds
<1>14. Fits'
  BY <1>8, <1>9, <1>10, <1>11, <1>12, <1>13 DEF Fits
<1> QED BY <1>1, <1>14, KeptPartsPrime DEF Kept0

-----------------------------------------------------------------------------
(* The theorems *)

LEMMA InitKept == Init => Kept0
<1> SUFFICES ASSUME Init PROVE Kept0
  OBVIOUS
<1>1. IInv
  BY InitInv
<1>2. /\ where = Home /\ saves = {} /\ reads = {} /\ done = <<>> /\ jobs = <<>>
      /\ outcomes = <<>> /\ texts = 0
      /\ ui.deferred = {} /\ ui.conflict = {} /\ ui.stage = "running"
      /\ \A t \in Tabs : ~IsOpen(ui, t)
  BY NewTabs DEF Init, IsOpen
<1>3. ASSUME NEW p \in Paths, \E n \in Notes : p = Home[n]
      PROVE  disk[p] # None /\ disk[p].text = 0
  <2>1. PICK n : n = CHOOSE m \in Notes : p = Home[m]
    OBVIOUS
  <2>2. n \in Notes /\ disk[p] = Revision(n, 0, "own", 0)
    BY <1>3, <2>1 DEF Init
  <2>3. disk[p] \in Revisions /\ disk[p].text = 0
    BY <2>2, Constants DEF Revision, Revisions, Texts
  <2> QED BY <2>3, Constants
<1>4. NotesFit
  <2>1. ASSUME NEW n \in Notes
        PROVE  where[n] # None /\ where[n] = Home[n] /\ disk[Home[n]] # None
    BY <1>2, <1>3, Constants
  <2>2. \A p \in Paths : disk[p] # None => disk[p].text <= texts
    BY <1>2, <1>3 DEF Init
  <2> QED BY <2>1, <2>2 DEF NotesFit
<1>5. OnlyTrash /\ OneLoad
  BY <1>2 DEF OnlyTrash, OneLoad
<1>6. Fits
  BY <1>2, <1>4, <1>5 DEF Fits, TabsFit, ConflictsFit, AnswersSettled, OrphansSettled, SnapshotsKept
<1> QED BY <1>1, <1>6, KeptParts DEF Kept0

LEMMA NextKept ==
    ASSUME NotesStay, Kept0, Next PROVE Kept0'
<1>1. GoodStep
  BY NextStep DEF Kept0
<1>2. ASSUME NEW t \in Tabs, Edit(t) \/ SaveNow(t) \/ Retry(t) PROVE Kept0'
  BY <1>1, <1>2, EditKept, SaveNowKept, RetryKept
<1>3. ASSUME NEW n \in Notes, Select(n) \/ RequestRelocation(n, "trash", None) PROVE Kept0'
  BY <1>1, <1>3, SelectKept, TrashRequestKept
<1>4. ASSUME NEW n \in Notes, NEW p \in Paths, NEW kind \in {"move", "title"},
             RequestRelocation(n, kind, p)
      PROVE  Kept0'
  BY <1>4 DEF RequestRelocation, NotesStay
<1>5. User => Kept0'
  BY <1>1, <1>2, <1>3, <1>4, SwitchKept, ExitKept DEF User
<1>6. ASSUME TakeMoved PROVE Kept0'
  <2>1. done # <<>> /\ Head(done).kind \in {"move", "title"}
    BY <1>6 DEF TakeMoved
  <2>2. done \in Seq(Reply) /\ OnlyTrash
    BY IInvParts DEF Kept0, Others, KeptAtHome
  <2>3. 1 \in DOMAIN done /\ Head(done) = done[1]
    BY <2>1, <2>2, HeadAndTail
  <2> QED BY <2>1, <2>2, <2>3 DEF OnlyTrash
<1>7. ASSUME NEW t \in Tabs, Due(t) PROVE Kept0'
  BY <1>1, <1>7, DueKept
<1>8. ASSUME NEW s \in saves, SaveEnds(s) \/ DrainSave(s) PROVE Kept0'
  BY <1>1, <1>8, SaveEndsKept, DrainKept
<1>9. ASSUME NEW r \in reads, CaptureRevision(r) \/ RetrySave(r) PROVE Kept0'
  BY <1>1, <1>9, CaptureKept, RetrySaveKept
<1>10. System => Kept0'
  BY <1>1, <1>6, <1>7, <1>8, <1>9, ApplyKept, WorkKept, TakeLoadedKept, TakeTrashedKept,
     ExitEndsKept DEF System
<1>11. ASSUME NEW p \in Paths, OutsideWrite(p) PROVE Kept0'
  BY <1>1, <1>11, OutsideWriteKept
<1> QED BY <1>5, <1>10, <1>11 DEF Next

LEMMA StutterKept == Kept0 /\ UNCHANGED vars => Kept0'
<1> SUFFICES ASSUME Kept0, UNCHANGED vars PROVE Kept0'
  OBVIOUS
<1>1. UNCHANGED <<ui, outcomes, saves, reads, disk, jobs, done, where, bin, texts>>
  BY DEF vars, threads, worker, spent
<1>2. IInv /\ IInv' /\ Fits
  BY Stutter, FitsParts DEF Kept0, GoodStep
<1>3. OnlyTrash' /\ OneLoad' /\ ConflictsFit' /\ SnapshotsKept'
  BY <1>1, <1>2, LoopStill DEF Fits
<1>4. /\ \A n \in Notes : where'[n] = where[n] /\ disk'[Home[n]] = disk[Home[n]]
      /\ \A p \in Paths : disk'[p] = disk[p]
      /\ \A n \in Notes : Kept(n)' = Kept(n)
  BY <1>1 DEF Kept
<1>5. /\ TabsFit' /\ OrphansSettled'
      /\ \A s \in saves' : SaveFits(s)'
      /\ \A r \in reads' : ReadFits(r)'
      /\ \A text : \A n \in Notes : Settles(text, n) => Settles(text, n)'
  BY <1>1, <1>2, <1>4, TrashingFits
<1>6. NotesFit' /\ \A i \in DOMAIN done' : AnswerFits(done[i])'
  BY <1>1, <1>2, StillFits DEF Fits
<1>7. AnswersSettled'
  BY <1>1, <1>2 DEF Fits, AnswersSettled, Loading, Settles, CanReplace, Kept, Holds
<1>8. Fits'
  BY <1>3, <1>5, <1>6, <1>7 DEF Fits
<1> QED BY <1>2, <1>8, KeptPartsPrime DEF Kept0

\* While notes stay where they are or go to the trash: tabs, saves, loads and reads are about the
\* file of their note and never ahead of it, unsaved text is newer than all of them, and of the
\* saves that can still replace a file none writes another text than its tab shows.
THEOREM KeptInvariant ==
    ASSUME NotesStay PROVE Spec => []KeptAtHome
<1>1. Init => Kept0
  BY InitKept
<1>2. Kept0 /\ [Next]_vars => Kept0'
  BY NextKept, StutterKept
<1>3. Kept0 => KeptAtHome
  BY DEF Kept0
<1> QED BY <1>1, <1>2, <1>3, PTL DEF Spec

LEMMA KeptTexts == Kept0 => TextIsKept
<1> SUFFICES ASSUME Kept0, NEW t \in Tabs, IsOpen(ui, t)
             PROVE  LET tab == ui.tabs[t] IN
                    \/ tab.dirty /\ ui.stage # "exited"
                    \/ [note |-> tab.note, text |-> tab.text] \in ui.kept
                    \/ Holds(Kept(tab.note), tab.text)
                    \/ \E p \in Paths : disk[p] # None /\ disk[p].text = tab.text
                    \/ Foreign(tab)
  BY DEF TextIsKept
<1>1. SavedIsKept
  BY DEF Kept0, KeptAtHome
<1>2. CASE ui.tabs[t].dirty /\ ui.stage = "exited"
  <2>1. t \in DirtyTabs(ui)
    BY <1>2 DEF DirtyTabs, IsDirty
  <2>2. [note |-> ui.tabs[t].note, text |-> ui.tabs[t].text] \in Snapshots(ui)
    BY <2>1 DEF Snapshots
  <2> QED BY <1>1, <1>2, <2>2 DEF SavedIsKept
<1>3. CASE ~ui.tabs[t].dirty
  BY <1>1, <1>3 DEF SavedIsKept, Settles
<1> QED BY <1>2, <1>3

\* The text of an open note is in its file, marked as unsaved or in a snapshot, or another
\* program wrote the file: whatever is saved, loaded, retried, trashed, switched or shut down.
THEOREM NoTextIsLost ==
    ASSUME NotesStay PROVE Spec => []TextIsKept
<1>1. Init => Kept0
  BY InitKept
<1>2. Kept0 /\ [Next]_vars => Kept0'
  BY NextKept, StutterKept
<1> QED BY <1>1, <1>2, KeptTexts, PTL DEF Spec

LEMMA NewerStep ==
    ASSUME Kept0, [Next]_vars, NotesStay
    PROVE  \A p \in Paths : disk[p] # None /\ disk'[p] # None /\ disk'[p] # disk[p]
              => disk'[p].text >= disk[p].text \/ disk[p].by = "other"
<1> DEFINE Newer == \A p \in Paths : disk[p] # None /\ disk'[p] # None /\ disk'[p] # disk[p]
                       => disk'[p].text >= disk[p].text \/ disk[p].by = "other"
<1>1. IInv /\ Fits /\ NotesFit /\ \A s \in saves : SaveFits(s)
  BY FitsParts DEF Kept0, Fits
<1>2. texts \in Nat /\ saves \in SUBSET Save /\ disk \in [Paths -> Revisions \cup {None}]
      /\ \A s \in saves : s.text \in Nat /\ s.path \in Paths
  BY <1>1, TextsAreNumbers
<1>3. UNCHANGED disk => Newer
  OBVIOUS
<1>4. ASSUME NEW s \in saves, SaveEnds(s) PROVE Newer
  <2>1. PICK w : w = Written(s)
    OBVIOUS
  <2>2. s.st = "running" /\ (UNCHANGED disk \/ disk' = IF w.st = "saved" THEN [disk EXCEPT ![s.path] = w.rev] ELSE disk)
    BY <1>4, <2>1 DEF SaveEnds
  <2>3. /\ IF disk[s.path] = s.base
           THEN w.rev.text = s.text
           ELSE w.st = "conflict"
    BY <1>2, <2>1, WrittenType
  <2>4. Older(s.base, s.text)
    BY <1>1, <2>2 DEF SaveFits
  <2>5. CASE UNCHANGED disk
    BY <1>3, <2>5
  <2>6. CASE w.st = "saved" /\ disk' = [disk EXCEPT ![s.path] = w.rev]
    <3>1. w.rev.text = s.text /\ disk[s.path] = s.base
      BY <2>3, <2>6
    <3> SUFFICES ASSUME NEW p \in Paths, disk[p] # None, disk'[p] # None, disk'[p] # disk[p]
                 PROVE  disk'[p].text >= disk[p].text \/ disk[p].by = "other"
      OBVIOUS
    <3>2. p = s.path /\ disk'[p].text = s.text /\ disk[p] = s.base /\ disk[p] \in Revisions
      BY <1>2, <2>6, <3>1
    <3>3. disk[p].by \in {"own", "other"} /\ disk[p].text \in Nat
      BY <3>2, RevisionFields
    <3> QED BY <1>2, <2>4, <3>2, <3>3 DEF Older
  <2> QED BY <2>2, <2>5, <2>6
<1>5. ASSUME NEW p0 \in Paths, OutsideWrite(p0) PROVE Newer
  <2>1. PICK rev : rev = Revision(disk[p0].file, texts + 1, "other", disk[p0].stamp + 1)
    OBVIOUS
  <2>2. disk' = [disk EXCEPT ![p0] = rev] /\ rev.text = texts + 1
    BY <1>2, <1>5, <2>1 DEF OutsideWrite, Revision
  <2> SUFFICES ASSUME NEW p \in Paths, disk[p] # None, disk'[p] # None, disk'[p] # disk[p]
               PROVE  disk'[p].text >= disk[p].text \/ disk[p].by = "other"
    OBVIOUS
  <2>3. disk'[p].text = texts + 1 /\ disk[p].text <= texts /\ disk[p] \in Revisions
    BY <1>1, <1>2, <2>2 DEF NotesFit
  <2>4. disk[p].text \in Nat
    BY <2>3, RevisionFields
  <2> QED BY <1>2, <2>3, <2>4
<1>6. ASSUME Work PROVE Newer
  <2>1. PICK job \in Job : UNCHANGED disk \/ disk' = [disk EXCEPT ![Home[job.note]] = None]
    BY <1>6, WorkEffect
  <2>2. \A p \in Paths : disk'[p] = disk[p] \/ disk'[p] = None
    BY <1>2, <2>1
  <2> QED BY <2>2
<1>7. User => UNCHANGED disk
  BY DEF User, Edit, SaveNow, Retry, Select, RequestRelocation, Switch, Exit, threads
<1>8. System => UNCHANGED disk \/ Work \/ \E s \in saves : SaveEnds(s)
  BY DEF System, Due, DrainSave, CaptureRevision, RetrySave, ApplyOutcome, TakeLoaded,
         TakeTrashed, TakeMoved, ExitEnds, threads
<1>9. UNCHANGED vars => UNCHANGED disk
  BY DEF vars, threads
<1> QED BY <1>3, <1>4, <1>5, <1>6, <1>7, <1>8, <1>9 DEF Next

\* No save puts an older text of the user in the place of a newer one, however many saves of a
\* note run at once and in whichever order they end.
THEOREM NewerTextStays ==
    ASSUME NotesStay PROVE Spec => NewerTextWins
<1>1. Init => Kept0
  BY InitKept
<1>2. Kept0 /\ [Next]_vars => Kept0'
  BY NextKept, StutterKept
<1>3. Kept0 /\ [Next]_vars =>
         [\A p \in Paths : disk[p] # None /\ disk'[p] # None /\ disk'[p] # disk[p]
             => disk'[p].text >= disk[p].text \/ disk[p].by = "other"]_vars
  BY NewerStep
<1> QED BY <1>1, <1>2, <1>3, PTL DEF Spec, NewerTextWins
=============================================================================
