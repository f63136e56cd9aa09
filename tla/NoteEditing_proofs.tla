------------------------- MODULE NoteEditing_proofs -------------------------
(***************************************************************************)
(* Proofs about NoteEditing: one tab per note, unsaved text stays open and *)
(* moves leave with the text of their note, for any notes, tabs and bounds *)
(* and whatever the user does.                                             *)
(***************************************************************************)
EXTENDS NoteEditingProps, FiniteSetTheorems, SequenceTheorems, TLAPS

(* Constants and records *)

LEMMA Constants ==
    /\ None \notin Notes /\ None \notin Paths /\ None \notin Revisions
    /\ Home \in [Notes -> Paths] /\ \A m, n \in Notes : Home[m] = Home[n] => m = n
    /\ Tabs \subseteq Nat /\ 0 \notin Tabs /\ IsFiniteSet(Tabs)
    /\ MaxTexts \in Nat /\ MaxRequests \in Nat /\ MaxSelects \in Nat /\ MaxFaults \in Nat
    /\ MaxResident \in Nat
BY EditingAssumption

LEMMA TabFields ==
    ASSUME NEW tab \in Tab
    PROVE  /\ tab.st \in {"fresh", "open", "closed"} /\ tab.note \in Notes \cup {None}
           /\ tab.path \in Paths \cup {None} /\ tab.rev \in Revisions \cup {None}
           /\ tab.text \in Texts /\ tab.crev \in Nat /\ tab.dirty \in BOOLEAN
BY DEF Tab

LEMMA NewTabs ==
    /\ NoTab \in Tab /\ NoTab.st = "fresh" /\ NoTab.dirty = FALSE
    /\ GoneTab \in Tab /\ GoneTab.st = "closed" /\ GoneTab.dirty = FALSE
    /\ NoAuto \in AutoState
<1>1. 0 \in Texts /\ 0 \in Nat
  BY Constants DEF Texts
<1> QED BY <1>1 DEF NoTab, GoneTab, NoAuto, Tab, AutoState

LEMMA UiFields ==
    ASSUME NEW u \in Ui
    PROVE  /\ u.tabs \in [Tabs -> Tab] /\ u.registered \in SUBSET Tabs
           /\ u.before \in SUBSET (Tabs \X Tabs)
           /\ u.preview \in Tabs \cup {0} /\ u.shown \in Tabs \cup {0}
           /\ u.selected \in Notes \cup {None} /\ u.generation \in Nat
           /\ u.auto \in [Tabs -> AutoState] /\ u.failed \in SUBSET Tabs /\ u.conflict \in SUBSET Tabs
           /\ u.retrying \in SUBSET At /\ u.deferred \in SUBSET Wait
           /\ u.switching \in BOOLEAN /\ u.switch \in SUBSET At
           /\ u.stage \in {"running", "exiting", "exited", "switched"}
           /\ u.phase \in {"idle", "draining", "applying"}
           /\ u.kept \in SUBSET [note : Notes, text : Texts]
BY DEF Ui

-----------------------------------------------------------------------------
(* The operators on what the event loop owns *)

\* What the tabs and the registry are made of, and what the rest of the loop reads.
SameTabs(u, v) ==
    /\ v.tabs = u.tabs /\ v.registered = u.registered /\ v.before = u.before
    /\ v.preview = u.preview /\ v.shown = u.shown
SameRest(u, v) ==
    /\ v.conflict = u.conflict /\ v.deferred = u.deferred
    /\ v.stage = u.stage /\ v.phase = u.phase /\ v.kept = u.kept

\* The tabs ts are gone, the others are as they were.
Closes(u, v, ts) == v.tabs = [t \in Tabs |-> IF t \in ts THEN GoneTab ELSE u.tabs[t]]

Good(u) == u \in Ui /\ OpenTabsAreBound(u) /\ Agree(u) /\ PreviewIsClean(u)

LEMMA ClosedUi ==
    ASSUME NEW u \in Ui, NEW ts \in SUBSET Tabs
    PROVE  LET v == Closed(u, ts) IN
           /\ v \in Ui /\ Closes(u, v, ts) /\ SameRest(u, v)
           /\ v.registered = u.registered /\ v.before = u.before /\ v.preview = u.preview
           /\ v.shown = IF u.shown \in ts THEN 0 ELSE u.shown
           /\ v.generation = u.generation /\ v.selected = u.selected
<1>1. [t \in Tabs |-> IF t \in ts THEN GoneTab ELSE u.tabs[t]] \in [Tabs -> Tab]
  BY NewTabs, UiFields
<1> QED BY <1>1, ZenonT(60) DEF Closed, Closes, SameRest, Ui

LEMMA UnregisteredUi ==
    ASSUME NEW u \in Ui, NEW ts \in SUBSET Tabs
    PROVE  LET v == Unregistered(u, ts) IN
           /\ v \in Ui /\ v.tabs = u.tabs /\ SameRest(u, v)
           /\ v.registered = u.registered \ ts
           /\ v.before = {x \in u.before : x[1] \notin ts /\ x[2] \notin ts}
           /\ v.preview = IF u.preview \in ts THEN 0 ELSE u.preview
           /\ v.shown = u.shown /\ v.generation = u.generation /\ v.selected = u.selected
<1>1. {x \in u.before : x[1] \notin ts /\ x[2] \notin ts} \in SUBSET (Tabs \X Tabs)
  BY UiFields
<1> QED BY <1>1, ZenonT(60) DEF Unregistered, SameRest, Ui

LEMMA CancelledUi ==
    ASSUME NEW u \in Ui, NEW ts \in SUBSET Tabs
    PROVE  LET v == Cancelled(u, ts) IN
           /\ v \in Ui /\ SameTabs(u, v) /\ SameRest(u, v)
           /\ v.generation = u.generation /\ v.selected = u.selected
<1>1. [t \in Tabs |-> IF t \in ts THEN NoAuto ELSE u.auto[t]] \in [Tabs -> AutoState]
  BY NewTabs, UiFields
<1> QED BY <1>1 DEF Cancelled, SameTabs, SameRest, Ui

LEMMA TouchedUi ==
    ASSUME NEW u \in Ui, NEW t \in Tabs
    PROVE  LET v == Touched(u, t) IN
           /\ v \in Ui /\ v.tabs = u.tabs /\ SameRest(u, v)
           /\ v.registered = u.registered \cup {t}
           /\ v.before = {x \in u.before : x[1] # t /\ x[2] # t} \cup ((u.registered \ {t}) \X {t})
           /\ v.preview = u.preview /\ v.shown = u.shown
           /\ v.generation = u.generation /\ v.selected = u.selected
<1>1. {x \in u.before : x[1] # t /\ x[2] # t} \cup ((u.registered \ {t}) \X {t})
         \in SUBSET (Tabs \X Tabs)
  BY UiFields
<1> QED BY <1>1 DEF Touched, SameRest, Ui

\* Tabs that go in the editor and in the registry leave both in agreement.
LEMMA DropGood ==
    ASSUME NEW u, Good(u), NEW v \in Ui, NEW ts \in SUBSET Tabs, Closes(u, v, ts),
           v.registered = u.registered \ ts,
           v.before = {x \in u.before : x[1] \notin ts /\ x[2] \notin ts},
           v.preview = IF u.preview \in ts THEN 0 ELSE u.preview,
           v.shown = IF u.shown \in ts THEN 0 ELSE u.shown
    PROVE  Good(v)
<1> USE DEF Good
<1>1. \A t \in Tabs : v.tabs[t] = IF t \in ts THEN GoneTab ELSE u.tabs[t]
  BY DEF Closes
<1>2. OpenTabsAreBound(v)
  BY <1>1, NewTabs DEF OpenTabsAreBound, IsOpen
<1>3. Agree(v)
  <2>1. Registered(v) = {t \in Tabs : IsOpen(v, t)}
    BY <1>1, NewTabs, UiFields DEF Agree, Registered, IsOpen
  <2>2. ASSUME NEW s \in Registered(v), NEW t \in Registered(v), s # t
        PROVE  /\ v.tabs[s].note # v.tabs[t].note
               /\ <<s, t>> \in v.before <=> <<t, s>> \notin v.before
    <3>1. s \in u.registered \ ts /\ t \in u.registered \ ts
      BY DEF Registered
    <3>2. v.tabs[s] = u.tabs[s] /\ v.tabs[t] = u.tabs[t]
      BY <1>1, <3>1, UiFields
    <3>3. /\ u.tabs[s].note # u.tabs[t].note
          /\ <<s, t>> \in u.before <=> <<t, s>> \notin u.before
      BY <2>2, <3>1 DEF Agree, Registered
    <3>4. /\ <<s, t>> \in v.before <=> <<s, t>> \in u.before
          /\ <<t, s>> \in v.before <=> <<t, s>> \in u.before
      BY <3>1
    <3> QED BY <3>2, <3>3, <3>4
  <2>3. v.preview = v.shown /\ v.preview \in Registered(v) \cup {0}
    BY DEF Agree, Registered
  <2> QED BY <2>1, <2>2, <2>3 DEF Agree
<1>4. PreviewIsClean(v)
  BY <1>1, NewTabs, Constants DEF PreviewIsClean, DirtyTabs, IsDirty, IsOpen
<1> QED BY <1>2, <1>3, <1>4

LEMMA TouchedGood ==
    ASSUME NEW u, Good(u), NEW t \in Registered(u)
    PROVE  LET v == Touched(u, t) IN
           /\ Good(v) /\ v.tabs = u.tabs /\ v.registered = u.registered /\ SameRest(u, v)
           /\ v.generation = u.generation /\ v.selected = u.selected
<1> USE DEF Good
<1> DEFINE v == Touched(u, t)
<1>0. u \in Ui /\ t \in Tabs /\ t \in u.registered
  BY UiFields DEF Registered
<1>a. /\ v \in Ui /\ v.tabs = u.tabs /\ SameRest(u, v)
      /\ v.registered = u.registered \cup {t}
      /\ v.before = {x \in u.before : x[1] # t /\ x[2] # t} \cup ((u.registered \ {t}) \X {t})
      /\ v.preview = u.preview /\ v.shown = u.shown
      /\ v.generation = u.generation /\ v.selected = u.selected
  BY <1>0, TouchedUi
<1> HIDE DEF v
<1>b. u.registered \cup {t} = u.registered
  BY <1>0
<1>1. v.registered = u.registered
  BY <1>a, <1>b
<1>2. OpenTabsAreBound(v) /\ PreviewIsClean(v)
  BY <1>a DEF OpenTabsAreBound, PreviewIsClean, DirtyTabs, IsDirty, IsOpen
<1>3. Agree(v)
  <2>1. Registered(v) = {s \in Tabs : IsOpen(v, s)}
    BY <1>1, <1>a DEF Agree, Registered, IsOpen
  <2>2. ASSUME NEW q \in Registered(v), NEW s \in Registered(v), q # s
        PROVE  /\ v.tabs[q].note # v.tabs[s].note
               /\ <<q, s>> \in v.before <=> <<s, q>> \notin v.before
    <3>1. q \in u.registered /\ s \in u.registered
      BY <1>1 DEF Registered
    <3>2. /\ u.tabs[q].note # u.tabs[s].note
          /\ <<q, s>> \in u.before <=> <<s, q>> \notin u.before
      BY <2>2, <3>1 DEF Agree, Registered
    <3>3. <<q, s>> \in v.before <=> \/ <<q, s>> \in u.before /\ q # t /\ s # t
                                    \/ q # t /\ s = t
      BY <1>a, <3>1
    <3>4. <<s, q>> \in v.before <=> \/ <<s, q>> \in u.before /\ q # t /\ s # t
                                    \/ s # t /\ q = t
      BY <1>a, <3>1
    <3> QED BY <1>a, <2>2, <3>2, <3>3, <3>4
  <2> QED BY <1>1, <1>a, <2>1, <2>2 DEF Agree, Registered
<1> QED BY <1>a, <1>1, <1>2, <1>3 DEF v

LEMMA DismissedGood ==
    ASSUME NEW u, Good(u), NEW ts \in SUBSET Tabs
    PROVE  LET v == Dismissed(u, ts) IN
           /\ Good(v) /\ Closes(u, v, ts) /\ SameRest(u, v)
           /\ v.registered = u.registered \ ts
           /\ v.generation = u.generation /\ v.selected = u.selected
<1> DEFINE c == Cancelled(u, ts)
           d == Closed(c, ts)
           v == Unregistered(d, ts)
<1>1. u \in Ui
  BY DEF Good
<1>2. /\ c \in Ui /\ SameTabs(u, c) /\ SameRest(u, c)
      /\ c.generation = u.generation /\ c.selected = u.selected
  BY <1>1, CancelledUi
<1> HIDE DEF c
<1>3. /\ d \in Ui /\ Closes(c, d, ts) /\ SameRest(c, d)
      /\ d.registered = c.registered /\ d.before = c.before /\ d.preview = c.preview
      /\ d.shown = IF c.shown \in ts THEN 0 ELSE c.shown
      /\ d.generation = c.generation /\ d.selected = c.selected
  BY <1>2, ClosedUi
<1> HIDE DEF d
<1>4. /\ v \in Ui /\ v.tabs = d.tabs /\ SameRest(d, v)
      /\ v.registered = d.registered \ ts
      /\ v.before = {x \in d.before : x[1] \notin ts /\ x[2] \notin ts}
      /\ v.preview = IF d.preview \in ts THEN 0 ELSE d.preview
      /\ v.shown = d.shown /\ v.generation = d.generation /\ v.selected = d.selected
  BY <1>3, UnregisteredUi
<1> HIDE DEF v
<1>5. Closes(u, v, ts) /\ SameRest(u, v)
  BY <1>2, <1>3, <1>4 DEF Closes, SameRest, SameTabs
<1>6. Good(v)
  BY <1>2, <1>3, <1>4, <1>5, DropGood DEF SameTabs
<1>7. v = Dismissed(u, ts)
  BY DEF Dismissed, v, d, c
<1> QED BY <1>2, <1>3, <1>4, <1>5, <1>6, <1>7 DEF SameTabs

LEMMA SameGood ==
    ASSUME NEW u, Good(u), NEW v \in Ui, SameTabs(u, v)
    PROVE  Good(v)
BY DEF Good, SameTabs, OpenTabsAreBound, Agree, PreviewIsClean, DirtyTabs, IsDirty, IsOpen, Registered

\* Tabs go without their unsaved text being lost.
Leaves(u, v, ts) ==
    /\ Closes(u, v, ts) /\ SameRest(u, v) /\ v.registered = u.registered \ ts
    /\ \A t \in ts : ~IsDirty(u, t)

LEMMA ActivatedGood ==
    ASSUME NEW u, Good(u), NEW t \in Registered(u)
    PROVE  LET v == Activated(u, t) IN
           /\ Good(v) /\ \E ts \in SUBSET Tabs : Leaves(u, v, ts) /\ t \notin ts
           /\ v.generation = u.generation /\ v.selected = u.selected
<1> DEFINE ts == {s \in {u.shown} \ {0, t} : ~IsDirty(u, s)}
           left == Closed(u, ts)
           ps == {s \in {u.preview} \ {0, t} : ~IsOpen(left, s)}
           known == Unregistered(left, ps)
           v == Touched(known, t)
<1>1. u \in Ui /\ t \in Tabs /\ u.shown = u.preview /\ u.shown \in Tabs \cup {0}
  BY UiFields DEF Good, Agree, Registered
<1>2. \A s \in Tabs : IsDirty(u, s) => s # u.preview
  BY DEF Good, PreviewIsClean, DirtyTabs
<1>3. ts \in SUBSET Tabs /\ ts = {u.shown} \ {0, t}
  BY <1>1, <1>2
<1>a. \A s \in ts : ~IsDirty(u, s)
  OBVIOUS
<1> HIDE DEF ts
<1>4. /\ left \in Ui /\ Closes(u, left, ts) /\ SameRest(u, left)
      /\ left.registered = u.registered /\ left.before = u.before /\ left.preview = u.preview
      /\ left.shown = IF u.shown \in ts THEN 0 ELSE u.shown
      /\ left.generation = u.generation /\ left.selected = u.selected
  BY <1>1, <1>3, ClosedUi
<1> HIDE DEF left
<1>5. ps = ts
  <2>1. \A s \in ts : left.tabs[s] = GoneTab
    BY <1>3, <1>4 DEF Closes
  <2> QED BY <2>1, <1>1, <1>3, NewTabs DEF IsOpen
<1> HIDE DEF ps
<1>6. /\ known \in Ui /\ known.tabs = left.tabs /\ SameRest(left, known)
      /\ known.registered = left.registered \ ts
      /\ known.before = {x \in left.before : x[1] \notin ts /\ x[2] \notin ts}
      /\ known.preview = IF left.preview \in ts THEN 0 ELSE left.preview
      /\ known.shown = left.shown
      /\ known.generation = left.generation /\ known.selected = left.selected
  BY <1>3, <1>4, <1>5, UnregisteredUi
<1> HIDE DEF known
<1>7. Leaves(u, known, ts) /\ Good(known)
  <2>1. Closes(u, known, ts) /\ SameRest(u, known) /\ known.registered = u.registered \ ts
    BY <1>4, <1>6 DEF Closes, SameRest
  <2>2. Good(known)
    BY <1>1, <1>3, <1>4, <1>6, <2>1, DropGood
  <2> QED BY <2>1, <2>2, <1>a DEF Leaves
<1>8. t \in Registered(known)
  BY <1>1, <1>3, <1>7 DEF Registered, Leaves
<1>9. /\ Good(v) /\ v.tabs = known.tabs /\ v.registered = known.registered /\ SameRest(known, v)
      /\ v.generation = known.generation /\ v.selected = known.selected
  BY <1>7, <1>8, TouchedGood
<1> HIDE DEF v
<1>10. Leaves(u, v, ts) /\ t \notin ts
  BY <1>3, <1>7, <1>9 DEF Leaves, SameRest, Closes
<1>11. v = Activated(u, t)
  BY DEF v, known, ps, left, ts, Activated
<1> QED BY <1>3, <1>4, <1>6, <1>9, <1>10, <1>11

LEMMA OpenedGood ==
    ASSUME NEW u, Good(u), NEW n \in Notes
    PROVE  LET v == Opened(u, n) IN
           /\ Good(v) /\ \E ts \in SUBSET Tabs : Leaves(u, v, ts) /\ ts \cap TabsOf(u, n) = {}
           /\ v.generation = u.generation /\ v.selected = u.selected
<1>1. u \in Ui
  BY DEF Good
<1>2. CASE TabsOf(u, n) = {}
  <2>1. Leaves(u, u, {})
    <3>1. u.tabs = [t \in Tabs |-> u.tabs[t]]
      BY <1>1, UiFields
    <3> QED BY <3>1 DEF Leaves, Closes, SameRest
  <2> QED BY <1>2, <2>1 DEF Opened
<1>3. CASE TabsOf(u, n) # {}
  <2> DEFINE t == CHOOSE s \in TabsOf(u, n) : TRUE
  <2>1. t \in TabsOf(u, n)
    BY <1>3
  <2> HIDE DEF t
  <2>2. t \in Registered(u)
    BY <2>1 DEF TabsOf
  <2>3. \A s \in TabsOf(u, n) : s = t
    BY <2>1 DEF TabsOf, Good, Agree
  <2>4. Opened(u, n) = Activated(u, t)
    BY <1>3 DEF Opened, t
  <2>5. PICK ts \in SUBSET Tabs : Leaves(u, Activated(u, t), ts) /\ t \notin ts
    BY <2>2, ActivatedGood
  <2>6. ts \cap TabsOf(u, n) = {}
    BY <2>3, <2>5
  <2> QED BY <2>2, <2>4, <2>5, <2>6, ActivatedGood
<1> QED BY <1>2, <1>3

LEMMA ChosenGood ==
    ASSUME NEW u, Good(u), NEW n \in Notes
    PROVE  LET v == Chosen(u, n) IN
           /\ Good(v) /\ \E ts \in SUBSET Tabs : Leaves(u, v, ts) /\ ts \cap TabsOf(u, n) = {}
           /\ v.generation = u.generation + 1 /\ v.selected = n
<1> DEFINE w == [u EXCEPT !.selected = n, !.generation = @ + 1]
<1>1. /\ w \in Ui /\ SameTabs(u, w) /\ SameRest(u, w)
      /\ w.generation = u.generation + 1 /\ w.selected = n
  <2>1. u \in Ui /\ u.generation + 1 \in Nat /\ n \in Notes \cup {None}
    BY UiFields DEF Good
  <2> QED BY <2>1 DEF Ui, SameTabs, SameRest
<1>2. Good(w)
  BY <1>1, SameGood
<1> HIDE DEF w
<1>3. PICK ts \in SUBSET Tabs : Leaves(w, Opened(w, n), ts) /\ ts \cap TabsOf(w, n) = {}
  BY <1>2, OpenedGood
<1>4. Leaves(u, Opened(w, n), ts) /\ TabsOf(w, n) = TabsOf(u, n)
  BY <1>1, <1>3 DEF Leaves, SameTabs, SameRest, Closes, IsDirty, IsOpen, TabsOf, Registered
<1>5. Chosen(u, n) = Opened(w, n)
  BY DEF Chosen, w
<1> QED BY <1>1, <1>2, <1>3, <1>4, <1>5, OpenedGood

\* What the handlers do to a tab: one never used may open; none changes its note or
\* comes back.
Follows(u, v) ==
    \A t \in Tabs : /\ v.tabs[t].st = "fresh" => u.tabs[t].st = "fresh"
                    /\ IsOpen(v, t) /\ u.tabs[t].st # "fresh"
                       => IsOpen(u, t) /\ v.tabs[t].note = u.tabs[t].note
KeepsUnsaved(u, v) == \A t \in DirtyTabs(u) : IsOpen(v, t)

LEMMA LeavesFollows ==
    ASSUME NEW u \in Ui, NEW v, NEW ts \in SUBSET Tabs, Closes(u, v, ts)
    PROVE  /\ Follows(u, v)
           /\ (\A t \in ts : ~IsDirty(u, t)) => KeepsUnsaved(u, v)
           /\ DirtyTabs(v) \subseteq DirtyTabs(u)
<1>1. \A t \in Tabs : v.tabs[t] = IF t \in ts THEN GoneTab ELSE u.tabs[t]
  BY DEF Closes
<1>2. GoneTab.st = "closed" /\ ~GoneTab.dirty
  BY NewTabs
<1>3. \A t \in Tabs : u.tabs[t].st \in {"fresh", "open", "closed"}
  BY UiFields, TabFields
<1> QED BY <1>1, <1>2, <1>3 DEF Follows, KeepsUnsaved, DirtyTabs, IsDirty, IsOpen

LEMMA InstalledGood ==
    ASSUME NEW u, Good(u), NEW t \in FreshTabs(u), NEW answer \in Reply, answer.to # None,
           TabsOf(u, answer.note) = {}
    PROVE  LET v == Installed(u, t, answer) IN
           /\ Good(v) /\ SameRest(u, v) /\ Follows(u, v) /\ KeepsUnsaved(u, v)
           /\ v.generation = u.generation /\ v.selected = u.selected
           /\ \A s \in Tabs :
                 IF s = t
                 THEN v.tabs[s] = [st |-> "open", note |-> answer.note, path |-> answer.to,
                                   rev |-> answer.rev, text |-> answer.rev.text, crev |-> 0,
                                   dirty |-> FALSE]
                 ELSE v.tabs[s] \in {u.tabs[s], GoneTab}
<1> DEFINE ts == {s \in {u.shown} \ {0} : ~IsDirty(u, s)}
           left == Closed(u, ts)
           known == Unregistered(left, {u.preview} \ {0})
           tab == [st |-> "open", note |-> answer.note, path |-> answer.to,
                   rev |-> answer.rev, text |-> answer.rev.text, crev |-> 0, dirty |-> FALSE]
           opened == [known EXCEPT !.tabs[t] = tab, !.shown = t, !.preview = t]
           x == Touched(opened, t)
           gone == {s \in {r \in Registered(x) : Evictable(x, r)} :
                       Cardinality({r \in {q \in Registered(x) : Evictable(x, q)} :
                                       <<r, s>> \in x.before}) + MaxResident
                       < Cardinality({r \in Tabs : IsOpen(x, r)})}
           v == Dismissed(x, gone)
<1>1. /\ u \in Ui /\ t \in Tabs /\ u.shown = u.preview /\ u.shown \in Registered(u) \cup {0}
      /\ 0 \notin Tabs /\ Registered(u) \subseteq Tabs
  BY UiFields, Constants DEF Good, Agree, Registered, FreshTabs
<1>2. \A s \in Tabs : IsDirty(u, s) => s # u.preview
  BY DEF Good, PreviewIsClean, DirtyTabs
<1>3. ts \in SUBSET Tabs /\ ts = {u.preview} \ {0}
  BY <1>1, <1>2
<1>a. \A s \in ts : ~IsDirty(u, s)
  OBVIOUS
<1>b. u.tabs[t].st = "fresh" /\ t \notin Registered(u)
  BY <1>1 DEF FreshTabs, Good, Agree, IsOpen
<1>c. t \notin ts
  BY <1>1, <1>b
<1> HIDE DEF ts
<1>4. /\ left \in Ui /\ Closes(u, left, ts) /\ SameRest(u, left)
      /\ left.registered = u.registered /\ left.before = u.before /\ left.preview = u.preview
      /\ left.shown = IF u.shown \in ts THEN 0 ELSE u.shown
      /\ left.generation = u.generation /\ left.selected = u.selected
  BY <1>1, <1>3, ClosedUi
<1> HIDE DEF left
<1>5. /\ known \in Ui /\ known.tabs = left.tabs /\ SameRest(left, known)
      /\ known.registered = left.registered \ ts
      /\ known.before = {y \in left.before : y[1] \notin ts /\ y[2] \notin ts}
      /\ known.preview = IF left.preview \in ts THEN 0 ELSE left.preview
      /\ known.shown = left.shown
      /\ known.generation = left.generation /\ known.selected = left.selected
  BY <1>3, <1>4, UnregisteredUi
<1> HIDE DEF known
<1>6. Leaves(u, known, ts) /\ Good(known)
  <2>1. Closes(u, known, ts) /\ SameRest(u, known) /\ known.registered = u.registered \ ts
    BY <1>4, <1>5 DEF Closes, SameRest
  <2>2. Good(known)
    BY <1>1, <1>3, <1>4, <1>5, <2>1, DropGood
  <2> QED BY <2>1, <2>2, <1>a DEF Leaves
<1>7. tab \in Tab /\ tab.st = "open" /\ tab.note = answer.note /\ tab.path = answer.to /\ ~tab.dirty
  <2>1. answer.note \in Notes /\ answer.to \in Paths /\ answer.rev \in Revisions
    BY DEF Reply
  <2>2. answer.rev.text \in Texts
    BY <2>1 DEF Revisions
  <2> QED BY <2>1, <2>2 DEF Tab
<1>t. tab = [st |-> "open", note |-> answer.note, path |-> answer.to,
             rev |-> answer.rev, text |-> answer.rev.text, crev |-> 0, dirty |-> FALSE]
  OBVIOUS
<1> HIDE DEF tab
<1>8. /\ opened \in Ui /\ SameRest(known, opened) /\ opened.tabs = [known.tabs EXCEPT ![t] = tab]
      /\ opened.registered = known.registered /\ opened.before = known.before
      /\ opened.preview = t /\ opened.shown = t
      /\ opened.generation = known.generation /\ opened.selected = known.selected
  <2>1. [known.tabs EXCEPT ![t] = tab] \in [Tabs -> Tab]
    BY <1>5, <1>7, UiFields
  <2> QED BY <1>1, <1>5, <2>1 DEF Ui, SameRest
<1> HIDE DEF opened
<1>9. /\ x \in Ui /\ x.tabs = opened.tabs /\ SameRest(opened, x)
      /\ x.registered = opened.registered \cup {t}
      /\ x.before = {y \in opened.before : y[1] # t /\ y[2] # t}
                    \cup ((opened.registered \ {t}) \X {t})
      /\ x.preview = opened.preview /\ x.shown = opened.shown
      /\ x.generation = opened.generation /\ x.selected = opened.selected
  BY <1>1, <1>8, TouchedUi
<1> HIDE DEF x
<1>10. \A s \in Tabs : x.tabs[s] = IF s = t THEN tab ELSE known.tabs[s]
  BY <1>1, <1>5, <1>8, <1>9, UiFields
<1>11. \A s \in Tabs : known.tabs[s] = IF s \in ts THEN GoneTab ELSE u.tabs[s]
  BY <1>6 DEF Leaves, Closes
<1>12. known.tabs[t].st = "fresh" /\ t \notin known.registered
  BY <1>1, <1>b, <1>c, <1>6, <1>11 DEF Leaves, Registered
<1>13. Good(x)
  <2>1. OpenTabsAreBound(x)
    <3>1. answer.note # None
      BY Constants DEF Reply
    <3> QED BY <1>6, <1>7, <1>10, <3>1 DEF Good, OpenTabsAreBound, IsOpen
  <2>2. PreviewIsClean(x)
    BY <1>7, <1>8, <1>9, <1>10 DEF PreviewIsClean, DirtyTabs, IsDirty
  <2>3. Registered(x) = {s \in Tabs : IsOpen(x, s)}
    BY <1>1, <1>6, <1>7, <1>8, <1>9, <1>10 DEF Good, Agree, Registered, IsOpen
  <2>4. ASSUME NEW q \in Registered(x), NEW s \in Registered(x), q # s
        PROVE  /\ x.tabs[q].note # x.tabs[s].note
               /\ <<q, s>> \in x.before <=> <<s, q>> \notin x.before
    <3>1. /\ q \in known.registered \/ q = t
          /\ s \in known.registered \/ s = t
          /\ q \in Tabs /\ s \in Tabs
      BY <1>1, <1>5, <1>8, <1>9, UiFields DEF Registered
    <3>2. ASSUME NEW r \in known.registered
          PROVE  r \in Tabs /\ r # t /\ x.tabs[r] = known.tabs[r] /\ x.tabs[r].note # answer.note
      <4>1. r \in Tabs /\ r # t /\ x.tabs[r] = known.tabs[r] /\ r \notin ts /\ r \in u.registered
        BY <1>5, <1>6, <1>10, <1>12, UiFields DEF Leaves
      <4>2. x.tabs[r] = u.tabs[r]
        BY <1>11, <4>1
      <4>3. u.tabs[r].note # answer.note
        BY <4>1 DEF TabsOf, Registered
      <4> QED BY <4>1, <4>2, <4>3
    <3>3. x.tabs[t].note = answer.note
      BY <1>1, <1>7, <1>10
    <3>4. \A r \in known.registered :
             /\ <<r, t>> \in x.before /\ <<t, r>> \notin x.before
      BY <1>8, <1>9, <3>2
    <3>5. \A r, w \in known.registered :
             r # w => /\ x.tabs[r].note # x.tabs[w].note
                      /\ <<r, w>> \in x.before <=> <<w, r>> \notin x.before
      <4> TAKE r, w \in known.registered
      <4> HAVE r # w
      <4>1. /\ known.tabs[r].note # known.tabs[w].note
            /\ <<r, w>> \in known.before <=> <<w, r>> \notin known.before
        BY <1>6 DEF Good, Agree, Registered
      <4>2. r # t /\ w # t /\ x.tabs[r] = known.tabs[r] /\ x.tabs[w] = known.tabs[w]
        BY <3>2
      <4>3. /\ <<r, w>> \in x.before <=> <<r, w>> \in known.before
            /\ <<w, r>> \in x.before <=> <<w, r>> \in known.before
        BY <1>8, <1>9, <4>2
      <4> QED BY <4>1, <4>2, <4>3
    <3> QED BY <2>4, <3>1, <3>2, <3>3, <3>4, <3>5
  <2>5. x.preview = x.shown /\ x.preview \in Registered(x) \cup {0}
    BY <1>8, <1>9 DEF Registered
  <2> QED BY <1>9, <2>1, <2>2, <2>3, <2>4, <2>5 DEF Good, Agree
<1>14. /\ gone \in SUBSET Tabs
       /\ \A s \in gone : ~IsDirty(x, s) /\ s # t
  BY <1>8, <1>9, UiFields DEF Evictable, Registered
<1> HIDE DEF gone
<1>15. /\ Good(v) /\ Closes(x, v, gone) /\ SameRest(x, v)
       /\ v.generation = x.generation /\ v.selected = x.selected
  BY <1>13, <1>14, DismissedGood
<1> HIDE DEF v
<1>16. SameRest(u, v) /\ v.generation = u.generation /\ v.selected = u.selected
  BY <1>4, <1>5, <1>8, <1>9, <1>15 DEF SameRest
<1>17. \A s \in Tabs : v.tabs[s] = IF s = t THEN tab
                                   ELSE IF s \in gone \cup ts THEN GoneTab ELSE u.tabs[s]
  BY <1>10, <1>11, <1>14, <1>15 DEF Closes
<1>18. \A s \in Tabs : s \in gone \cup ts => ~IsDirty(u, s)
  BY <1>a, <1>10, <1>11, <1>14 DEF IsDirty, IsOpen
<1>19. Follows(u, v) /\ KeepsUnsaved(u, v)
  <2>1. \A s \in Tabs : u.tabs[s].st \in {"fresh", "open", "closed"}
    BY <1>1, UiFields, TabFields
  <2>2. GoneTab.st = "closed"
    BY NewTabs
  <2> QED BY <1>b, <1>7, <1>17, <1>18, <2>1, <2>2
          DEF Follows, KeepsUnsaved, DirtyTabs, IsDirty, IsOpen
<1>20. v = Installed(u, t, answer)
  BY DEF v, gone, x, opened, tab, known, left, ts, Installed, Evicted
<1> QED BY <1>t, <1>15, <1>16, <1>17, <1>19, <1>20

LEMMA FollowsTrans ==
    ASSUME NEW u, NEW x, NEW v, Follows(u, x), Follows(x, v)
    PROVE  Follows(u, v)
BY DEF Follows

LEMMA SameFollows ==
    ASSUME NEW u \in Ui, NEW v, v.tabs = u.tabs
    PROVE  /\ Follows(u, v) /\ KeepsUnsaved(u, v) /\ DirtyTabs(v) = DirtyTabs(u)
           /\ OpenTabsAreBound(u) => \A t \in Tabs : v.tabs[t].st = "fresh" => ~v.tabs[t].dirty
<1>1. \A t \in Tabs : u.tabs[t].st \in {"fresh", "open", "closed"}
  BY UiFields, TabFields
<1> QED BY <1>1 DEF Follows, KeepsUnsaved, DirtyTabs, IsDirty, IsOpen, OpenTabsAreBound

\* After a handler the change of the workspace goes on, or all tabs are gone.
Carries(u, v) ==
    /\ SameTabs(u, v) /\ SameRest(u, v) /\ v.generation = u.generation /\ v.selected = u.selected
    /\ v.auto = u.auto /\ v.failed = u.failed /\ v.retrying = u.retrying
Switches(u, v) ==
    /\ v.stage = "switched" /\ Closes(u, v, Registered(u)) /\ v.registered = {}
    /\ v.conflict = u.conflict /\ v.deferred \subseteq u.deferred
    /\ v.phase = u.phase /\ v.kept = u.kept /\ v.generation = u.generation

LEMMA SettledGood ==
    ASSUME NEW u, Good(u), NEW v \in Settled(u)
    PROVE  Good(v) /\ (Carries(u, v) \/ Switches(u, v))
<1> DEFINE left == {c \in u.switch : IsDirty(u, c.tab)}
           over == [u EXCEPT !.switching = FALSE, !.switch = {}]
           held == [u EXCEPT !.switch = left]
           out == [CloseNoteTabs(over) EXCEPT !.stage = "switched", !.selected = None]
<1>1. u \in Ui
  BY DEF Good
<1>2. Carries(u, u)
  BY DEF Carries, SameTabs, SameRest
<1>3. over \in Ui /\ Carries(u, over)
  BY <1>1 DEF Ui, Carries, SameTabs, SameRest
<1>4. held \in Ui /\ Carries(u, held)
  <2>1. left \in SUBSET At
    BY <1>1, UiFields
  <2> HIDE DEF left
  <2> QED BY <1>1, <2>1 DEF Ui, Carries, SameTabs, SameRest
<1>5. v \in {u, over, held, out}
  BY DEF Settled
<1> HIDE DEF over, held
<1>6. Good(over) /\ Good(held)
  BY <1>3, <1>4, SameGood DEF Carries
<1>7. Good(out) /\ Switches(u, out)
  <2> DEFINE w == Dismissed(over, Registered(over))
  <2>1. Registered(over) \in SUBSET Tabs
    BY <1>3, UiFields DEF Registered
  <2>2. /\ Good(w) /\ Closes(over, w, Registered(over)) /\ SameRest(over, w)
        /\ w.registered = over.registered \ Registered(over)
        /\ w.generation = over.generation
    BY <1>6, <2>1, DismissedGood
  <2> HIDE DEF w
  <2> DEFINE ds == {d \in w.deferred : d.tab \notin Registered(over)}
             rs == {d \in w.retrying : d.tab \notin Registered(over)}
             c == [w EXCEPT !.deferred = ds, !.retrying = rs]
  <2>3. w \in Ui /\ ds \in SUBSET Wait /\ rs \in SUBSET At /\ ds \subseteq w.deferred
    BY <2>2, UiFields DEF Good
  <2>4. CloseNoteTabs(over) = c
    BY DEF CloseNoteTabs, w
  <2> HIDE DEF ds, rs
  <2> DEFINE o == [c EXCEPT !.stage = "switched", !.selected = None]
  <2>5. /\ o \in Ui /\ SameTabs(w, o) /\ o.stage = "switched" /\ o.conflict = w.conflict
        /\ o.deferred = ds /\ o.phase = w.phase /\ o.kept = w.kept
        /\ o.generation = w.generation
    BY <2>3 DEF Ui, SameTabs
  <2>6. out = o
    BY <2>4
  <2> HIDE DEF o
  <2>7. Good(o)
    BY <2>2, <2>5, SameGood
  <2>8. Registered(over) = Registered(u) /\ over.tabs = u.tabs
    BY <1>3 DEF Carries, SameTabs, Registered
  <2>9. Switches(u, o)
    BY <1>3, <2>2, <2>3, <2>5, <2>8 DEF Switches, Closes, SameTabs, SameRest, Carries, Registered
  <2> QED BY <2>6, <2>7, <2>9
<1> QED BY <1>2, <1>3, <1>4, <1>5, <1>6, <1>7

LEMMA SettledFollows ==
    ASSUME NEW u, Good(u), NEW v \in Settled(u)
    PROVE  /\ Good(v) /\ Follows(u, v) /\ (KeepsUnsaved(u, v) \/ v.stage = "switched")
           /\ v.conflict = u.conflict /\ v.deferred \subseteq u.deferred /\ v.phase = u.phase
           /\ DirtyTabs(v) \subseteq DirtyTabs(u)
<1>1. Good(v) /\ (Carries(u, v) \/ Switches(u, v))
  BY SettledGood
<1>2. u \in Ui /\ Registered(u) \in SUBSET Tabs
  BY UiFields DEF Good, Registered
<1>3. CASE Carries(u, v)
  BY <1>1, <1>2, <1>3, SameFollows DEF Carries, SameTabs, SameRest
<1>4. CASE Switches(u, v)
  BY <1>1, <1>2, <1>4, LeavesFollows DEF Switches
<1> QED BY <1>1, <1>3, <1>4

\* Saves that are prepared, and moves that wait for one.
LEMMA SubmittedUi ==
    ASSUME NEW u \in Ui, NEW ts \in SUBSET Tabs
    PROVE  LET v == Submitted(u, ts) IN
           /\ v \in Ui /\ SameTabs(u, v) /\ SameRest(u, v)
           /\ v.generation = u.generation /\ v.selected = u.selected
<1> DEFINE a(t) == IF t \notin ts THEN u.auto[t]
                   ELSE IF IsDirty(u, t) THEN [st |-> "saving", crev |-> u.tabs[t].crev]
                   ELSE NoAuto
<1>1. \A t \in Tabs : a(t) \in AutoState
  <2> TAKE t \in Tabs
  <2>1. u.auto[t] \in AutoState /\ NoAuto \in AutoState /\ u.tabs[t].crev \in Nat
    BY NewTabs, UiFields, TabFields
  <2>2. [st |-> "saving", crev |-> u.tabs[t].crev] \in AutoState
    BY <2>1 DEF AutoState
  <2> QED BY <2>1, <2>2
<1> HIDE DEF a
<1>2. [t \in Tabs |-> a(t)] \in [Tabs -> AutoState]
  BY <1>1
<1>3. Submitted(u, ts) = [u EXCEPT !.auto = [t \in Tabs |-> a(t)],
                                   !.failed = @ \ {t \in ts : ~IsDirty(u, t)}]
  BY DEF Submitted, a
<1> DEFINE auto == [t \in Tabs |-> a(t)]
           failed == u.failed \ {t \in ts : ~IsDirty(u, t)}
           v == [u EXCEPT !.auto = auto, !.failed = failed]
<1>4. auto \in [Tabs -> AutoState] /\ failed \in SUBSET Tabs
  BY <1>2, UiFields
<1>5. Submitted(u, ts) = v
  BY <1>3
<1> HIDE DEF auto, failed
<1>6. /\ v \in Ui /\ SameTabs(u, v) /\ SameRest(u, v)
      /\ v.generation = u.generation /\ v.selected = u.selected
  BY <1>4 DEF SameTabs, SameRest, Ui
<1> QED BY <1>5, <1>6

LEMMA SubmittedGood ==
    ASSUME NEW u, Good(u), NEW ts \in SUBSET Tabs
    PROVE  LET v == Submitted(u, ts) IN
           /\ Good(v) /\ SameTabs(u, v) /\ SameRest(u, v)
           /\ v.generation = u.generation /\ v.selected = u.selected
BY SubmittedUi, SameGood DEF Good

LEMMA DeferredGood ==
    ASSUME NEW u, Good(u), NEW job \in Job
    PROVE  LET v == Deferred(u, job) IN
           /\ Good(v) /\ SameTabs(u, v) /\ v.conflict = u.conflict
           /\ v.stage = u.stage /\ v.phase = u.phase /\ v.kept = u.kept
           /\ v.generation = u.generation /\ v.selected = u.selected
           /\ \A d \in v.deferred : \/ d \in u.deferred
                                    \/ d.job = job /\ d.tab \in DirtyTabsOf(u, job.note)
<1> DEFINE ts == DirtyTabsOf(u, job.note)
           wait == {[tab |-> t, crev |-> u.tabs[t].crev, job |-> job] : t \in ts}
           ds == {d \in u.deferred : d.tab \notin ts \/ d.job.kind # job.kind} \cup wait
           w == [u EXCEPT !.deferred = ds]
<1>1. u \in Ui /\ ts \in SUBSET Tabs
  BY DEF Good, DirtyTabsOf, DirtyTabs
<1>2. ds \in SUBSET Wait
  <2>1. wait \in SUBSET Wait
    BY <1>1, UiFields, TabFields DEF Wait
  <2> QED BY <1>1, <2>1, UiFields
<1>3. \A d \in ds : \/ d \in u.deferred
                    \/ d.job = job /\ d.tab \in ts
  OBVIOUS
<1>4. Deferred(u, job) = Submitted(w, ts)
  BY DEF Deferred
<1> HIDE DEF ds
<1>5. /\ w \in Ui /\ SameTabs(u, w) /\ w.conflict = u.conflict /\ w.deferred = ds
      /\ w.stage = u.stage /\ w.phase = u.phase /\ w.kept = u.kept
      /\ w.generation = u.generation /\ w.selected = u.selected
  BY <1>1, <1>2 DEF Ui, SameTabs
<1> HIDE DEF w
<1>6. Good(w)
  BY <1>5, SameGood
<1>7. LET v == Submitted(w, ts) IN
      /\ Good(v) /\ SameTabs(w, v) /\ SameRest(w, v)
      /\ v.generation = w.generation /\ v.selected = w.selected
  BY <1>1, <1>6, SubmittedGood
<1> HIDE DEF ts
<1>8. DirtyTabsOf(u, job.note) = ts
  BY DEF ts
<1> QED BY <1>3, <1>4, <1>5, <1>7, <1>8 DEF SameTabs, SameRest

\* A tab takes another place, revision or text, and stays the same tab.
LEMMA RewrittenGood ==
    ASSUME NEW u, Good(u), NEW f \in [Tabs -> Tab],
           \A t \in Tabs : /\ f[t].st = u.tabs[t].st /\ f[t].note = u.tabs[t].note
                           /\ IF IsOpen(u, t) THEN f[t].path # None ELSE ~f[t].dirty,
           NEW v \in Ui, v.tabs = f, v.registered = u.registered, v.before = u.before,
           v.preview \in {u.preview, 0}, v.shown = v.preview,
           \A t \in Tabs : f[t].dirty => t # v.preview
    PROVE  Good(v) /\ Follows(u, v) /\ KeepsUnsaved(u, v)
<1>0. u \in Ui /\ \A t \in Tabs : u.tabs[t].st \in {"fresh", "open", "closed"}
  BY UiFields, TabFields DEF Good
<1>1. OpenTabsAreBound(v)
  BY DEF Good, OpenTabsAreBound, IsOpen
<1>2. Agree(v)
  <2>1. Registered(v) = {t \in Tabs : IsOpen(v, t)}
    BY DEF Good, Agree, Registered, IsOpen
  <2>2. \A s, t \in Registered(v) :
          s # t => /\ v.tabs[s].note # v.tabs[t].note
                   /\ <<s, t>> \in v.before <=> <<t, s>> \notin v.before
    BY <1>0, UiFields DEF Good, Agree, Registered
  <2> QED BY <2>1, <2>2 DEF Good, Agree, Registered
<1>3. PreviewIsClean(v)
  BY DEF PreviewIsClean, DirtyTabs, IsDirty
<1>4. Follows(u, v) /\ KeepsUnsaved(u, v)
  BY <1>0, <1>1 DEF Follows, KeepsUnsaved, DirtyTabs, IsDirty, IsOpen, OpenTabsAreBound, Good
<1> QED BY <1>1, <1>2, <1>3, <1>4 DEF Good

-----------------------------------------------------------------------------
(* Saves and the moves that wait for them *)

LEMMA FreshId ==
    ASSUME NEW S, IsFiniteSet(S), NEW t
    PROVE  \E i \in 1..(Cardinality(S) + 1) : \A s \in S : s.tab = t => s.id # i
<1> DEFINE I == 1..(Cardinality(S) + 1)
           ids == {s.id : s \in S}
<1>1. Cardinality(S) \in Nat
  BY FS_CardinalityType
<1>2. IsFiniteSet(ids) /\ Cardinality(ids) <= Cardinality(S)
  <2> DEFINE f == [s \in S |-> s.id]
  <2>1. f \in Surjection(S, ids)
    BY DEF Surjection
  <2> HIDE DEF f, ids
  <2> QED BY <2>1, FS_Surjection
<1>3. IsFiniteSet(I) /\ Cardinality(I) = Cardinality(S) + 1
  <2>1. 1 \in Int /\ Cardinality(S) + 1 \in Int /\ 1 <= Cardinality(S) + 1
    BY <1>1
  <2> QED BY <1>1, <2>1, FS_Interval
<1> HIDE DEF I, ids
<1>4. ~(I \subseteq ids)
  <2>1. SUFFICES ASSUME I \subseteq ids PROVE FALSE
    OBVIOUS
  <2>2. Cardinality(I) <= Cardinality(ids)
    BY <1>2, <2>1, FS_Subset
  <2>3. Cardinality(ids) \in Nat
    BY <1>2, FS_CardinalityType
  <2> QED BY <1>1, <1>2, <1>3, <2>2, <2>3
<1>5. PICK i \in I : i \notin ids
  BY <1>4
<1> QED BY <1>5 DEF I, ids

LEMMA PreparedType ==
    ASSUME NEW u \in Ui, OpenTabsAreBound(u), IsFiniteSet(saves), NEW t \in DirtyTabs(u)
    PROVE  /\ PreparedSave(u, t) \in Save
           /\ PreparedSave(u, t).tab = t /\ PreparedSave(u, t).st = "running"
           /\ PreparedSave(u, t).path = u.tabs[t].path /\ PreparedSave(u, t).base = u.tabs[t].rev
           /\ PreparedSave(u, t).text = u.tabs[t].text /\ PreparedSave(u, t).crev = u.tabs[t].crev
<1> DEFINE I == 1..(Cardinality(saves) + 1)
           id == CHOOSE i \in I : \A s \in saves : s.tab = t => s.id # i
<1>1. \E i \in I : \A s \in saves : s.tab = t => s.id # i
  BY FreshId
<1>2. id \in I
  BY <1>1
<1>3. Cardinality(saves) \in Nat
  BY FS_CardinalityType
<1>4. id \in Nat
  BY <1>2, <1>3
<1>5. PreparedSave(u, t) = [tab |-> t, id |-> id, path |-> u.tabs[t].path,
                            base |-> u.tabs[t].rev, text |-> u.tabs[t].text,
                            crev |-> u.tabs[t].crev, st |-> "running", rev |-> None]
  BY DEF PreparedSave
<1> HIDE DEF id
<1>6. t \in Tabs /\ u.tabs[t] \in Tab /\ u.tabs[t].path \in Paths
  BY UiFields, TabFields DEF DirtyTabs, IsDirty, OpenTabsAreBound
<1> QED BY <1>4, <1>5, <1>6, TabFields DEF Save

LEMMA SpawnedType ==
    ASSUME NEW u \in Ui, OpenTabsAreBound(u), IsFiniteSet(saves), NEW ts
    PROVE  /\ Spawned(u, ts) \in SUBSET Save /\ IsFiniteSet(Spawned(u, ts))
           /\ \A s \in Spawned(u, ts) :
                 /\ s.st = "running" /\ s.tab \in ts \cap DirtyTabs(u)
                 /\ s.path = u.tabs[s.tab].path /\ s.base = u.tabs[s.tab].rev
                 /\ s.text = u.tabs[s.tab].text /\ s.crev = u.tabs[s.tab].crev
<1> DEFINE T == ts \cap DirtyTabs(u)
<1>1. \A t \in T : /\ PreparedSave(u, t) \in Save
                   /\ PreparedSave(u, t).tab = t /\ PreparedSave(u, t).st = "running"
                   /\ PreparedSave(u, t).path = u.tabs[t].path
                   /\ PreparedSave(u, t).base = u.tabs[t].rev
                   /\ PreparedSave(u, t).text = u.tabs[t].text
                   /\ PreparedSave(u, t).crev = u.tabs[t].crev
  BY PreparedType
<1>2. IsFiniteSet(T)
  <2>1. T \subseteq Tabs
    BY DEF DirtyTabs
  <2> QED BY <2>1, Constants, FS_Subset
<1>3. Spawned(u, ts) = {PreparedSave(u, t) : t \in T}
  BY DEF Spawned
<1>4. IsFiniteSet({PreparedSave(u, t) : t \in T})
  <2> DEFINE f == [t \in T |-> PreparedSave(u, t)]
             all == {PreparedSave(u, t) : t \in T}
  <2>1. f \in Surjection(T, all)
    BY DEF Surjection
  <2> HIDE DEF f, all, T
  <2>2. IsFiniteSet(all)
    BY <1>2, <2>1, FS_Surjection
  <2> QED BY <2>2 DEF all
<1> HIDE DEF T
<1>5. ASSUME NEW s \in Spawned(u, ts)
      PROVE  /\ s \in Save /\ s.st = "running" /\ s.tab \in T
             /\ s.path = u.tabs[s.tab].path /\ s.base = u.tabs[s.tab].rev
             /\ s.text = u.tabs[s.tab].text /\ s.crev = u.tabs[s.tab].crev
  BY <1>1, <1>3
<1>6. T = ts \cap DirtyTabs(u)
  BY DEF T
<1> QED BY <1>3, <1>4, <1>5, <1>6

LEMMA WrittenType ==
    ASSUME NEW s \in Save
    PROVE  /\ Written(s) \in Save /\ Written(s).tab = s.tab /\ Written(s).path = s.path
           /\ Written(s).base = s.base /\ Written(s).text = s.text /\ Written(s).crev = s.crev
           /\ IF disk[s.path] = s.base
              THEN /\ Written(s).st = "saved" /\ Written(s).rev # None
                   /\ Written(s).rev.text = s.text /\ Written(s).rev.by = "own"
                   /\ s.base # None => Written(s).rev.stamp = s.base.stamp + 1
              ELSE Written(s).st = "conflict" /\ Written(s).rev = s.rev
<1> DEFINE rev == IF s.base = None THEN Revision(None, s.text, "own", 0)
                  ELSE Revision(s.base.file, s.text, "own", s.base.stamp + 1)
<1>1. s.base # None => s.base.file \in Notes \cup {None} /\ s.base.stamp \in Nat
  BY DEF Save, Revisions
<1>2. /\ rev \in Revisions /\ rev.text = s.text /\ rev.by = "own"
      /\ s.base # None => rev.stamp = s.base.stamp + 1
  BY <1>1 DEF Save, Revision, Revisions
<1>3. Written(s) = IF disk[s.path] = s.base THEN [s EXCEPT !.st = "saved", !.rev = rev]
                   ELSE [s EXCEPT !.st = "conflict"]
  BY DEF Written, Replaced
<1> HIDE DEF rev
<1> QED BY <1>2, <1>3, Constants, ZenonT(60) DEF Save

LEMMA HeadAndTail ==
    ASSUME NEW S, NEW s \in Seq(S), s # <<>>
    PROVE  /\ Head(s) \in S /\ Head(s) = s[1] /\ 1 \in DOMAIN s /\ Tail(s) \in Seq(S)
           /\ \A i \in DOMAIN Tail(s) : i + 1 \in DOMAIN s /\ Tail(s)[i] = s[i + 1]
OBVIOUS

LEMMA AppendedElements ==
    ASSUME NEW S, NEW q \in Seq(S), NEW e \in S
    PROVE  /\ Append(q, e) \in Seq(S)
           /\ \A i \in DOMAIN Append(q, e) :
                 \/ i \in DOMAIN q /\ Append(q, e)[i] = q[i]
                 \/ i = Len(q) + 1 /\ Append(q, e)[i] = e
<1>1. /\ Append(q, e) \in Seq(S) /\ Len(Append(q, e)) = Len(q) + 1 /\ Len(q) \in Nat
      /\ DOMAIN q = 1..Len(q) /\ DOMAIN Append(q, e) = 1..Len(Append(q, e))
  OBVIOUS
<1>2. \A i \in DOMAIN Append(q, e) : i \in DOMAIN q \/ i = Len(q) + 1
  BY <1>1
<1>3. \A i \in DOMAIN q : Append(q, e)[i] = q[i]
  OBVIOUS
<1>4. Append(q, e)[Len(q) + 1] = e
  OBVIOUS
<1>5. ASSUME NEW i \in DOMAIN Append(q, e)
      PROVE  \/ i \in DOMAIN q /\ Append(q, e)[i] = q[i]
             \/ i = Len(q) + 1 /\ Append(q, e)[i] = e
  BY <1>2, <1>3, <1>4, Zenon
<1> QED BY <1>1, <1>5

LEMMA JobsOfType ==
    ASSUME NEW ds \in SUBSET Wait, NEW kind
    PROVE  /\ JobsOf(ds, kind) \in Seq(Job)
           /\ \A k \in DOMAIN JobsOf(ds, kind) :
                 \E d \in ds : d.job = JobsOf(ds, kind)[k] /\ d.job.kind = kind
           /\ JobsOf(ds, kind) # <<>> => DOMAIN JobsOf(ds, kind) = {1}
<1>1. CASE \E d \in ds : d.job.kind = kind
  <2> DEFINE d == CHOOSE e \in ds : e.job.kind = kind
  <2>1. d \in ds /\ d.job.kind = kind
    BY <1>1
  <2>2. JobsOf(ds, kind) = <<d.job>>
    BY <1>1 DEF JobsOf
  <2> HIDE DEF d
  <2> QED BY <2>1, <2>2 DEF Wait
<1>2. CASE ~\E d \in ds : d.job.kind = kind
  BY <1>2 DEF JobsOf
<1> QED BY <1>1, <1>2

LEMMA JoinedJobs ==
    ASSUME NEW a \in Seq(Job), NEW b \in Seq(Job), NEW J,
           \A k \in DOMAIN a : a[k] \in J, \A k \in DOMAIN b : b[k] \in J
    PROVE  /\ a \o b \in Seq(Job) /\ \A k \in DOMAIN (a \o b) : (a \o b)[k] \in J
           /\ \A k \in DOMAIN (a \o b) \ DOMAIN a : \E i \in DOMAIN b : (a \o b)[k] = b[i]
<1> SUFFICES ASSUME NEW k \in DOMAIN (a \o b)
             PROVE  /\ (a \o b)[k] \in J
                    /\ k \notin DOMAIN a => \E i \in DOMAIN b : (a \o b)[k] = b[i]
  OBVIOUS
<1>1. CASE k <= Len(a)
  <2>1. k \in DOMAIN a /\ (a \o b)[k] = a[k]
    BY <1>1
  <2> QED BY <2>1
<1>2. CASE k > Len(a)
  <2>1. k - Len(a) \in DOMAIN b /\ (a \o b)[k] = b[k - Len(a)]
    BY <1>2
  <2> QED BY <2>1
<1> QED BY <1>1, <1>2

LEMMA OutcomeType ==
    ASSUME NEW u \in Ui, NEW s
    PROVE  LET o == OutcomeOf(u, s) IN
           /\ o \in [send : Seq(Job), again : Seq(Job)]
           /\ \A k \in DOMAIN o.send : \E d \in Waiting(u, s) : d.job = o.send[k]
           /\ o.send # <<>> => Ready(Acknowledged(u, s), s)
           /\ \A k \in DOMAIN o.again :
                 k = 1 /\ \E d \in Waiting(u, s) : d.job = o.again[k] /\ d.job.kind = "title"
<1> DEFINE ds == Waiting(u, s)
           x == JobsOf(ds, "trash")
           y == JobsOf(ds, "move")
           z == JobsOf(ds, "title")
           ready == Ready(Acknowledged(u, s), s)
<1>1. ds \in SUBSET Wait
  BY UiFields DEF Waiting
<1> HIDE DEF ds
<1>2. /\ x \in Seq(Job) /\ y \in Seq(Job) /\ z \in Seq(Job)
      /\ \A k \in DOMAIN x : \E d \in ds : d.job = x[k]
      /\ \A k \in DOMAIN y : \E d \in ds : d.job = y[k]
      /\ \A k \in DOMAIN z : k = 1 /\ \E d \in ds : d.job = z[k] /\ d.job.kind = "title"
  <2>1. x \in Seq(Job) /\ y \in Seq(Job) /\ z \in Seq(Job)
    BY <1>1, JobsOfType
  <2>2. /\ \A k \in DOMAIN x : \E d \in ds : d.job = x[k]
        /\ \A k \in DOMAIN y : \E d \in ds : d.job = y[k]
        /\ \A k \in DOMAIN z : \E d \in ds : d.job = z[k] /\ d.job.kind = "title"
    BY <1>1, JobsOfType
  <2>3. z # <<>> => DOMAIN z = {1}
    BY <1>1, JobsOfType
  <2> HIDE DEF z
  <2>4. z = <<>> => DOMAIN z = {}
    OBVIOUS
  <2> QED BY <2>1, <2>2, <2>3, <2>4
<1> HIDE DEF x, y, z, ready
<1> DEFINE J == {d.job : d \in ds}
           xy == x \o y
           xyz == xy \o z
<1>a. /\ \A k \in DOMAIN x : x[k] \in J
      /\ \A k \in DOMAIN y : y[k] \in J
      /\ \A k \in DOMAIN z : z[k] \in J
  BY <1>2
<1>b. \A j \in J : \E d \in ds : d.job = j
  OBVIOUS
<1> HIDE DEF J
<1>3. xy \in Seq(Job) /\ \A k \in DOMAIN xy : xy[k] \in J
  BY <1>2, <1>a, JoinedJobs
<1> HIDE DEF xy
<1>4. xyz \in Seq(Job) /\ \A k \in DOMAIN xyz : xyz[k] \in J
  BY <1>2, <1>3, <1>a, JoinedJobs
<1> HIDE DEF xyz
<1>5. OutcomeOf(u, s) = [send |-> IF ready THEN xyz ELSE <<>>,
                         again |-> IF s.st = "saved" /\ ~ready THEN z ELSE <<>>]
  BY DEF OutcomeOf, ds, x, y, z, xy, xyz, ready
<1>6. ds = Waiting(u, s) /\ ready = Ready(Acknowledged(u, s), s)
  BY DEF ds, ready
<1>7. <<>> \in Seq(Job)
  OBVIOUS
<1> DEFINE o == OutcomeOf(u, s)
<1>8. o.send = (IF ready THEN xyz ELSE <<>>) /\ (o.again = z \/ o.again = <<>>)
  BY <1>5
<1>9. o \in [send : Seq(Job), again : Seq(Job)]
  BY <1>2, <1>4, <1>5, <1>7
<1> HIDE DEF o
<1>10. /\ \A k \in DOMAIN o.send : \E d \in ds : d.job = o.send[k]
       /\ o.send # <<>> => ready
       /\ \A k \in DOMAIN o.again :
             k = 1 /\ \E d \in ds : d.job = o.again[k] /\ d.job.kind = "title"
  <2>1. DOMAIN <<>> = {}
    OBVIOUS
  <2>2. \A k \in DOMAIN o.send : \E d \in ds : d.job = o.send[k]
    <3>1. o.send = xyz \/ o.send = <<>>
      BY <1>8
    <3>2. \A k \in DOMAIN xyz : \E d \in ds : d.job = xyz[k]
      BY <1>4, <1>b
    <3> QED BY <2>1, <3>1, <3>2
  <2>3. o.send # <<>> => ready
    BY <1>8
  <2>4. \A k \in DOMAIN o.again :
           k = 1 /\ \E d \in ds : d.job = o.again[k] /\ d.job.kind = "title"
    BY <1>2, <1>8, <2>1
  <2> QED BY <2>2, <2>3, <2>4
<1> QED BY <1>6, <1>9, <1>10 DEF o

\* The end of a save: only the tab that was saved changes, and it can only become clean.
LEMMA AcknowledgedGood ==
    ASSUME NEW u, Good(u), NEW s \in Save, s.st = "saved" => s.rev # None
    PROVE  LET v == Acknowledged(u, s) IN
           /\ Good(v) /\ Follows(u, v) /\ KeepsUnsaved(u, v) /\ DirtyTabs(v) \subseteq DirtyTabs(u)
           /\ v = [u EXCEPT !.tabs = v.tabs] /\ v.tabs \in [Tabs -> Tab]
           /\ \A t \in Tabs : IF t = s.tab /\ s.st = "saved" /\ IsOpen(u, t)
                 THEN v.tabs[t] = [u.tabs[t] EXCEPT !.path = s.path, !.rev = s.rev,
                                      !.dirty = u.tabs[t].dirty /\ u.tabs[t].crev # s.crev]
                 ELSE v.tabs[t] = u.tabs[t]
<1>0. /\ u \in Ui /\ u.tabs \in [Tabs -> Tab] /\ u = [u EXCEPT !.tabs = u.tabs]
      /\ s.tab \in Tabs /\ s.path \in Paths /\ s.rev \in Revisions \cup {None} /\ s.crev \in Nat
  BY UiFields DEF Good, Save, Ui
<1>1. CASE s.st # "saved" \/ ~IsOpen(u, s.tab)
  <2>1. Acknowledged(u, s) = u
    BY <1>1 DEF Acknowledged
  <2> QED BY <1>0, <1>1, <2>1, SameFollows
<1>2. CASE s.st = "saved" /\ IsOpen(u, s.tab)
  <2> DEFINE old == u.tabs[s.tab]
             d == old.dirty /\ old.crev # s.crev
             tab == [old EXCEPT !.path = s.path, !.rev = s.rev, !.dirty = d]
             f == [u.tabs EXCEPT ![s.tab] = tab]
             v == [u EXCEPT !.tabs = f]
  <2>1. Acknowledged(u, s) = v
    BY <1>2 DEF Acknowledged
  <2>b. d \in BOOLEAN /\ (d => old.dirty)
    OBVIOUS
  <2>c. d = (old.dirty /\ old.crev # s.crev)
    OBVIOUS
  <2> HIDE DEF d
  <2>2. /\ tab \in Tab /\ tab.st = old.st /\ tab.note = old.note /\ tab.path = s.path
        /\ tab.dirty = d
    <3>1. old \in Tab
      BY <1>0
    <3> HIDE DEF old
    <3> QED BY <1>0, <2>b, <3>1 DEF Tab
  <2>3. f \in [Tabs -> Tab]
    BY <1>0, <2>2
  <2>4. \A t \in Tabs : f[t] = IF t = s.tab THEN tab ELSE u.tabs[t]
    BY <1>0
  <2>a. tab = [old EXCEPT !.path = s.path, !.rev = s.rev, !.dirty = old.dirty /\ old.crev # s.crev]
    BY <2>c
  <2> HIDE DEF tab, f
  <2>5. /\ v \in Ui /\ v.tabs = f /\ v.registered = u.registered /\ v.before = u.before
        /\ v.preview = u.preview /\ v.shown = u.shown /\ v = [u EXCEPT !.tabs = v.tabs]
    BY <1>0, <2>3 DEF Ui
  <2> HIDE DEF v
  <2>6. \A t \in Tabs : /\ f[t].st = u.tabs[t].st /\ f[t].note = u.tabs[t].note
                        /\ f[t].dirty => u.tabs[t].dirty
                        /\ IsOpen(u, t) => f[t].path # None
    <3> TAKE t \in Tabs
    <3>1. s.path # None
      BY <1>0, Constants
    <3>2. IsOpen(u, t) => u.tabs[t].path # None
      BY DEF Good, OpenTabsAreBound
    <3> QED BY <2>2, <2>4, <2>b, <3>1, <3>2
  <2>7. \A t \in Tabs : /\ IF IsOpen(u, t) THEN f[t].path # None ELSE ~f[t].dirty
                        /\ f[t].dirty => t # u.preview
    BY <2>6 DEF Good, OpenTabsAreBound, PreviewIsClean, DirtyTabs, IsDirty
  <2>8. Good(v) /\ Follows(u, v) /\ KeepsUnsaved(u, v)
    BY <2>3, <2>5, <2>6, <2>7, RewrittenGood DEF Good, Agree
  <2>9. DirtyTabs(v) \subseteq DirtyTabs(u)
    BY <2>5, <2>6 DEF DirtyTabs, IsDirty, IsOpen
  <2> QED BY <1>2, <2>1, <2>3, <2>4, <2>5, <2>8, <2>9, <2>a, ZenonT(60)
<1> QED BY <1>1, <1>2

LEMMA AutoEndsUi ==
    ASSUME NEW u \in Ui, NEW s \in Save, NEW st \in {"idle", "failed"}
    PROVE  LET v == AutoEnds(u, s, st) IN
           /\ v \in Ui /\ SameTabs(u, v) /\ SameRest(u, v)
           /\ v.generation = u.generation /\ v.selected = u.selected
<1> DEFINE auto == [u.auto EXCEPT ![s.tab] = [st |-> st, crev |-> s.crev]]
           v == [u EXCEPT !.auto = auto]
<1>1. [st |-> st, crev |-> s.crev] \in AutoState
  BY DEF AutoState, Save
<1>2. auto \in [Tabs -> AutoState]
  BY <1>1, UiFields
<1> HIDE DEF auto
<1>3. v \in Ui /\ SameTabs(u, v) /\ SameRest(u, v) /\ v.generation = u.generation
      /\ v.selected = u.selected
  BY <1>2 DEF Ui, SameTabs, SameRest
<1>4. AutoEnds(u, s, st) = u \/ AutoEnds(u, s, st) = v
  BY DEF AutoEnds, auto
<1> HIDE DEF v
<1> QED BY <1>3, <1>4 DEF SameTabs, SameRest

LEMMA FinishedGood ==
    ASSUME NEW u, Good(u), NEW s \in Save, s.st = "saved" => s.rev # None
    PROVE  LET v == Finished(u, s) IN
           /\ Good(v) /\ Follows(u, v) /\ KeepsUnsaved(u, v) /\ DirtyTabs(v) \subseteq DirtyTabs(u)
           /\ v.tabs = Acknowledged(u, s).tabs /\ v.registered = u.registered
           /\ v.preview = u.preview /\ v.shown = u.shown /\ v.before = u.before
           /\ v.deferred = u.deferred \ Waiting(u, s)
           /\ v.conflict \subseteq u.conflict \cup {s.tab}
           /\ s.st # "conflict" => v.conflict \subseteq u.conflict
           /\ v.stage = u.stage /\ v.phase = u.phase /\ v.kept = u.kept
           /\ v.generation = u.generation /\ v.selected = u.selected
<1> DEFINE a == Acknowledged(u, s)
           fs == IF s.st = "saved" THEN u.failed \ {s.tab} ELSE u.failed \cup {s.tab}
           cs == IF s.st = "conflict" THEN u.conflict \cup {s.tab}
                 ELSE IF s.st = "saved" /\ [tab |-> s.tab, crev |-> s.crev] \in u.retrying
                 THEN u.conflict \ {s.tab} ELSE u.conflict
           ds == u.deferred \ Waiting(u, s)
           rs == u.retrying \ {[tab |-> s.tab, crev |-> s.crev]}
           k == [a EXCEPT !.deferred = ds, !.retrying = rs, !.failed = fs, !.conflict = cs]
           v == AutoEnds(k, s, IF s.st = "saved" THEN "idle" ELSE "failed")
<1>1. /\ Good(a) /\ Follows(u, a) /\ KeepsUnsaved(u, a) /\ DirtyTabs(a) \subseteq DirtyTabs(u)
      /\ a = [u EXCEPT !.tabs = a.tabs] /\ a.tabs \in [Tabs -> Tab]
  BY AcknowledgedGood
<1>2. u \in Ui /\ s.tab \in Tabs
  BY DEF Good, Save
<1>a. a = Acknowledged(u, s)
  OBVIOUS
<1> HIDE DEF a
<1>3. /\ a \in Ui /\ a.registered = u.registered /\ a.before = u.before
      /\ a.preview = u.preview /\ a.shown = u.shown
      /\ a.deferred = u.deferred /\ a.retrying = u.retrying /\ a.failed = u.failed
      /\ a.conflict = u.conflict /\ a.stage = u.stage /\ a.phase = u.phase /\ a.kept = u.kept
      /\ a.generation = u.generation /\ a.selected = u.selected
  <2> DEFINE f == a.tabs
             w == [u EXCEPT !.tabs = f]
  <2>1. a = w
    BY <1>1
  <2>2. f \in [Tabs -> Tab]
    BY <1>1
  <2> HIDE DEF f
  <2> QED BY <1>2, <2>1, <2>2 DEF Ui
<1>4. /\ fs \in SUBSET Tabs /\ cs \in SUBSET Tabs /\ ds \in SUBSET Wait /\ rs \in SUBSET At
      /\ cs \subseteq u.conflict \cup {s.tab}
      /\ s.st # "conflict" => cs \subseteq u.conflict
  BY <1>2, UiFields
<1>5. Finished(u, s) = v
  BY <1>3, <1>a DEF Finished
<1> HIDE DEF fs, cs, rs
<1>6. /\ k \in Ui /\ SameTabs(a, k) /\ k.deferred = ds /\ k.conflict = cs /\ k.stage = a.stage
      /\ k.phase = a.phase /\ k.kept = a.kept /\ k.generation = a.generation
      /\ k.selected = a.selected
  BY <1>3, <1>4 DEF Ui, SameTabs
<1> HIDE DEF k
<1>7. /\ v \in Ui /\ SameTabs(k, v) /\ SameRest(k, v)
      /\ v.generation = k.generation /\ v.selected = k.selected
  BY <1>6, AutoEndsUi
<1> HIDE DEF v
<1>8. /\ v.tabs = a.tabs /\ v.deferred = ds /\ v.conflict = cs /\ v.stage = a.stage
      /\ v.phase = a.phase /\ v.kept = a.kept /\ v.generation = a.generation
      /\ v.selected = a.selected /\ SameTabs(a, v)
  BY <1>6, <1>7 DEF SameTabs, SameRest
<1>9. Good(v)
  BY <1>1, <1>7, <1>8, SameGood
<1>10. Follows(u, v) /\ KeepsUnsaved(u, v) /\ DirtyTabs(v) \subseteq DirtyTabs(u)
  BY <1>1, <1>8 DEF Follows, KeepsUnsaved, DirtyTabs, IsDirty, IsOpen
<1>11. ds = u.deferred \ Waiting(u, s)
  OBVIOUS
<1> HIDE DEF ds
<1> QED BY <1>3, <1>4, <1>5, <1>8, <1>9, <1>10, <1>11, <1>a DEF SameTabs

\* A moved note: the tab that has the old place takes the new one.
LEMMA ReboundGood ==
    ASSUME NEW u, Good(u), disk \in [Paths -> Revisions \cup {None}], NEW answer \in Reply,
           answer.to # None
    PROVE  LET v == Rebound(u, answer) IN
           /\ Good(v) /\ Follows(u, v) /\ KeepsUnsaved(u, v) /\ DirtyTabs(v) = DirtyTabs(u)
           /\ v.registered = u.registered /\ v.deferred = u.deferred /\ v.conflict = u.conflict
           /\ v.stage = u.stage /\ v.phase = u.phase /\ v.generation = u.generation
           /\ v.selected = u.selected /\ v.kept = u.kept
<1> DEFINE ts == {t \in TabsOf(u, answer.note) : IsOpen(u, t) /\ u.tabs[t].path = answer.from}
           g(t) == [u.tabs[t] EXCEPT !.path = answer.to, !.rev = disk[answer.to]]
           f == [t \in Tabs |-> IF t \notin ts THEN u.tabs[t] ELSE g(t)]
           v == [u EXCEPT !.tabs = f]
<1>1. u \in Ui /\ answer.to \in Paths /\ disk[answer.to] \in Revisions \cup {None}
  BY DEF Good, Reply
<1>2. \A t \in Tabs : /\ g(t) \in Tab /\ g(t).st = u.tabs[t].st /\ g(t).note = u.tabs[t].note
                      /\ g(t).path = answer.to /\ g(t).dirty = u.tabs[t].dirty
  <2> TAKE t \in Tabs
  <2>1. u.tabs[t] \in Tab
    BY <1>1, UiFields
  <2> QED BY <1>1, <2>1 DEF Tab
<1> HIDE DEF g, ts
<1>3. f \in [Tabs -> Tab] /\ \A t \in Tabs : f[t] = IF t \notin ts THEN u.tabs[t] ELSE g(t)
  BY <1>1, <1>2, UiFields
<1>4. Rebound(u, answer) = v
  BY DEF Rebound, ts, g
<1> HIDE DEF f
<1>5. /\ v \in Ui /\ v.tabs = f /\ v.registered = u.registered /\ v.before = u.before
      /\ v.preview = u.preview /\ v.shown = u.shown /\ v.deferred = u.deferred
      /\ v.conflict = u.conflict /\ v.stage = u.stage /\ v.phase = u.phase
      /\ v.generation = u.generation /\ v.selected = u.selected /\ v.kept = u.kept
  BY <1>1, <1>3 DEF Ui
<1> HIDE DEF v
<1>6. \A t \in Tabs : /\ f[t].st = u.tabs[t].st /\ f[t].note = u.tabs[t].note
                      /\ f[t].dirty = u.tabs[t].dirty
                      /\ IF IsOpen(u, t) THEN f[t].path # None ELSE ~f[t].dirty
                      /\ f[t].dirty => t # u.preview
  <2> TAKE t \in Tabs
  <2>1. /\ f[t].st = u.tabs[t].st /\ f[t].note = u.tabs[t].note /\ f[t].dirty = u.tabs[t].dirty
        /\ f[t].path \in {u.tabs[t].path, answer.to}
    BY <1>2, <1>3
  <2>2. IF IsOpen(u, t) THEN u.tabs[t].path # None ELSE ~u.tabs[t].dirty
    BY DEF Good, OpenTabsAreBound
  <2>3. u.tabs[t].dirty => t # u.preview
    BY <2>2 DEF Good, PreviewIsClean, DirtyTabs, IsDirty
  <2> QED BY <2>1, <2>2, <2>3
<1>7. Good(v) /\ Follows(u, v) /\ KeepsUnsaved(u, v)
  BY <1>3, <1>5, <1>6, RewrittenGood DEF Good, Agree
<1>8. DirtyTabs(v) = DirtyTabs(u)
  BY <1>5, <1>6 DEF DirtyTabs, IsDirty, IsOpen
<1> QED BY <1>4, <1>5, <1>7, <1>8

-----------------------------------------------------------------------------
(* The inductive invariant, action by action *)

\* The types of the variables the event loop does not own.
Others ==
    /\ disk \in [Paths -> Revisions \cup {None}]
    /\ where \in [Notes -> Paths \cup {None}] /\ bin \in [Notes -> Revisions \cup {None}]
    /\ saves \in SUBSET Save /\ IsFiniteSet(saves) /\ reads \in SUBSET Read
    /\ \A s \in saves : s.st = "saved" => s.rev # None
    /\ \A r \in reads : r.st = "read" => r.rev # None
    /\ outcomes \in Seq([send : Seq(Job), again : Seq(Job)])
    /\ jobs \in Seq(Job) /\ \A i \in DOMAIN jobs : jobs[i].to \in Targets(jobs[i].kind)
    /\ done \in Seq(Reply) /\ \A i \in DOMAIN done : done[i].kind # "trash" => done[i].to # None
    /\ texts \in Texts /\ requests \in 0..MaxRequests
    /\ selects \in 0..MaxSelects /\ faults \in 0..MaxFaults

\* What a step may do to the moves on their way and to the unsaved text.
MovedStep ==
    \A i \in DOMAIN jobs' \ DOMAIN jobs : jobs'[i].kind # "load" =>
        DirtyTabsOf(ui, jobs'[i].note) = {}
UnsavedStep ==
    \A t \in DirtyTabs(ui) : \/ IsOpen(ui', t) \/ where[ui.tabs[t].note] = None
                             \/ ui'.stage = "switched"
GoodStep == IInv' /\ MovedStep /\ UnsavedStep

LEMMA IInvParts ==
    IInv <=> Good(ui) /\ Others /\ FreshTabsAreUnused /\ DeferredFit /\ ReadyToLeave /\ TrashedIsGone
BY DEF IInv, TypeOK, OneTabPerNote, Registry, Good, Others

LEMMA IInvPartsPrime ==
    IInv' <=> /\ Good(ui') /\ Others' /\ FreshTabsAreUnused' /\ DeferredFit' /\ ReadyToLeave'
              /\ TrashedIsGone'
BY DEF IInv, TypeOK, OneTabPerNote, Registry, Good, Others

\* Tabs that follow keep what is in flight about used tabs, and what waits for its own note.
LEMMA FollowedInv ==
    ASSUME IInv, Follows(ui, ui'),
           \A t \in ui'.conflict : t \in ui.conflict \/ ui.tabs[t].st # "fresh",
           \A s \in saves' : \/ \E q \in saves : q.tab = s.tab
                             \/ ui.tabs[s.tab].st # "fresh",
           \A r \in reads' : \/ \E q \in reads : q.tab = r.tab
                             \/ ui.tabs[r.tab].st # "fresh",
           \A d \in ui'.deferred :
              \/ d \in ui.deferred
              \/ /\ d.job.kind \in Relocations /\ d.job.to \in Targets(d.job.kind)
                 /\ d.tab \in DirtyTabsOf(ui, d.job.note),
           ui' \in Ui
    PROVE  FreshTabsAreUnused' /\ DeferredFit'
<1>1. ui \in Ui /\ FreshTabsAreUnused /\ DeferredFit
  BY IInvParts DEF Good
<1>2. \A t \in Tabs : ui'.tabs[t].st = "fresh" => t \in FreshTabs(ui) /\ ui.tabs[t].st = "fresh"
  BY DEF Follows, FreshTabs
<1>3. ASSUME NEW t \in Tabs, ui'.tabs[t].st = "fresh"
      PROVE  /\ t \notin ui'.conflict /\ \A s \in saves' : s.tab # t
             /\ \A r \in reads' : r.tab # t
             /\ \A d \in ui'.deferred : d.tab # t
  <2>1. t \in FreshTabs(ui) /\ ui.tabs[t].st = "fresh"
    BY <1>2, <1>3
  <2>2. /\ t \notin ui.conflict /\ \A s \in saves : s.tab # t
        /\ \A r \in reads : r.tab # t
        /\ \A d \in ui.deferred : d.tab # t
    BY <1>1, <2>1 DEF FreshTabsAreUnused
  <2>3. t \notin DirtyTabs(ui)
    BY <2>1 DEF DirtyTabs, IsDirty, IsOpen
  <2> QED BY <2>1, <2>2, <2>3 DEF DirtyTabsOf
<1>4. FreshTabsAreUnused'
  BY <1>3 DEF FreshTabsAreUnused, FreshTabs
<1>5. ASSUME NEW d \in ui'.deferred
      PROVE  /\ d.job.kind \in Relocations /\ d.job.to \in Targets(d.job.kind)
             /\ IsOpen(ui', d.tab) => ui'.tabs[d.tab].note = d.job.note
  <2>0. d.tab \in Tabs
    BY UiFields DEF Wait
  <2>1. CASE d \in ui.deferred
    <3>1. d.tab \notin FreshTabs(ui)
      BY <1>1, <2>1 DEF FreshTabsAreUnused
    <3>2. ui.tabs[d.tab].st # "fresh"
      BY <2>0, <3>1 DEF FreshTabs
    <3> QED BY <1>1, <2>0, <2>1, <3>2 DEF Follows, DeferredFit
  <2>2. CASE /\ d.job.kind \in Relocations /\ d.job.to \in Targets(d.job.kind)
             /\ d.tab \in DirtyTabsOf(ui, d.job.note)
    <3>1. IsOpen(ui, d.tab) /\ ui.tabs[d.tab].note = d.job.note
      BY <2>2 DEF DirtyTabsOf, DirtyTabs, TabsOf, IsDirty
    <3>2. ui.tabs[d.tab].st # "fresh"
      BY <3>1 DEF IsOpen
    <3> QED BY <2>0, <2>2, <3>1, <3>2 DEF Follows
  <2> QED BY <2>1, <2>2
<1>6. DeferredFit'
  BY <1>5 DEF DeferredFit
<1> QED BY <1>4, <1>6

\* When the loop is idle there is nothing to apply.
LEMMA IdleReady ==
    ASSUME IInv, Idle
    PROVE  /\ outcomes = <<>> /\ (UNCHANGED outcomes => ReadyToLeave')
           /\ ui.phase = "idle" /\ ui.stage = "running"
<1>1. ui.phase = "idle" /\ ui.stage = "running"
  BY DEF Idle
<1>2. outcomes = <<>>
  BY <1>1, IInvParts DEF ReadyToLeave
<1>3. ASSUME UNCHANGED outcomes PROVE ReadyToLeave'
  BY <1>2, <1>3 DEF ReadyToLeave
<1> QED BY <1>1, <1>2, <1>3

LEMMA SameJobs ==
    ASSUME UNCHANGED jobs PROVE MovedStep
BY DEF MovedStep

LEMMA SameDone ==
    ASSUME IInv, UNCHANGED <<done, where>> PROVE TrashedIsGone'
BY IInvParts DEF TrashedIsGone

\* A step that ends like every handler, from what the handler itself did.
LEMMA BecomesInv ==
    ASSUME IInv, NEW x, Good(x), Becomes(x), Follows(ui, x), KeepsUnsaved(ui, x),
           \A t \in x.conflict : t \in ui.conflict \/ ui.tabs[t].st # "fresh",
           \A s \in saves' : \/ \E q \in saves : q.tab = s.tab
                             \/ ui.tabs[s.tab].st # "fresh",
           \A r \in reads' : \E q \in reads : q.tab = r.tab,
           \A d \in x.deferred :
              \/ d \in ui.deferred
              \/ /\ d.job.kind \in Relocations /\ d.job.to \in Targets(d.job.kind)
                 /\ d.tab \in DirtyTabsOf(ui, d.job.note)
    PROVE  /\ Good(ui') /\ FreshTabsAreUnused' /\ DeferredFit' /\ UnsavedStep
           /\ ui'.phase = x.phase /\ DirtyTabs(ui') \subseteq DirtyTabs(x) /\ Follows(ui, ui')
<1>1. PICK v \in Settled(x) : ui' = v
  BY DEF Becomes
<1>2. /\ Good(v) /\ Follows(x, v) /\ (KeepsUnsaved(x, v) \/ v.stage = "switched")
      /\ v.conflict = x.conflict /\ v.deferred \subseteq x.deferred /\ v.phase = x.phase
      /\ DirtyTabs(v) \subseteq DirtyTabs(x)
  BY SettledFollows
<1>3. Follows(ui, v)
  BY <1>2, FollowsTrans
<1>4. v \in Ui
  BY <1>2 DEF Good
<1>5. FreshTabsAreUnused' /\ DeferredFit'
  <2>1. \A t \in ui'.conflict : t \in ui.conflict \/ ui.tabs[t].st # "fresh"
    BY <1>1, <1>2
  <2>2. \A d \in ui'.deferred :
           \/ d \in ui.deferred
           \/ /\ d.job.kind \in Relocations /\ d.job.to \in Targets(d.job.kind)
              /\ d.tab \in DirtyTabsOf(ui, d.job.note)
    BY <1>1, <1>2
  <2>3. Follows(ui, ui') /\ ui' \in Ui
    BY <1>1, <1>3, <1>4
  <2> QED BY <2>1, <2>2, <2>3, FollowedInv
<1>6. UnsavedStep
  <2>1. CASE Carries(x, v)
    BY <1>1, <2>1 DEF UnsavedStep, Carries, SameTabs, KeepsUnsaved, IsOpen
  <2>2. CASE Switches(x, v)
    BY <1>1, <2>2 DEF UnsavedStep, Switches
  <2> QED BY <2>1, <2>2, SettledGood
<1> QED BY <1>1, <1>2, <1>3, <1>5, <1>6

LEMMA SpawnedOthers ==
    ASSUME IInv, NEW u \in Ui, OpenTabsAreBound(u), NEW ts, saves' = saves \cup Spawned(u, ts),
           DirtyTabs(u) = DirtyTabs(ui)
    PROVE  /\ saves' \in SUBSET Save /\ IsFiniteSet(saves')
           /\ \A s \in saves' : s.st = "saved" => s.rev # None
           /\ \A s \in saves' : \/ \E q \in saves : q.tab = s.tab
                                \/ ui.tabs[s.tab].st # "fresh"
<1>1. /\ saves \in SUBSET Save /\ IsFiniteSet(saves)
      /\ \A s \in saves : s.st = "saved" => s.rev # None
  BY IInvParts DEF Others
<1>2. /\ Spawned(u, ts) \in SUBSET Save /\ IsFiniteSet(Spawned(u, ts))
      /\ \A s \in Spawned(u, ts) : s.st = "running" /\ s.tab \in DirtyTabs(u)
  BY <1>1, SpawnedType
<1>3. IsFiniteSet(saves')
  BY <1>1, <1>2, FS_Union
<1>4. \A s \in Spawned(u, ts) : ui.tabs[s.tab].st # "fresh"
  BY <1>2 DEF DirtyTabs, IsDirty, IsOpen
<1> QED BY <1>1, <1>2, <1>3, <1>4

\* An edit changes the text of one tab, and makes it stay.
LEMMA EditedGood ==
    ASSUME IInv, NEW t \in Tabs, IsOpen(ui, t), texts < MaxTexts
    PROVE  LET x == Edited(ui, t) IN
           /\ Good(x) /\ Follows(ui, x) /\ KeepsUnsaved(ui, x) /\ SameRest(ui, x)
           /\ x.registered = ui.registered /\ x.generation = ui.generation
           /\ \A s \in Tabs : x.tabs[s] = IF s # t THEN ui.tabs[s]
                 ELSE [ui.tabs[t] EXCEPT !.text = texts + 1, !.dirty = TRUE,
                                         !.crev = ui.tabs[t].crev + 1]
<1> DEFINE tab == [ui.tabs[t] EXCEPT !.text = texts + 1, !.dirty = TRUE,
                                     !.crev = ui.tabs[t].crev + 1]
           f == [ui.tabs EXCEPT ![t] = tab]
           fs == ui.failed \ {t}
           p == IF ui.preview = t /\ ui.shown = t THEN 0 ELSE ui.preview
           q == IF ui.shown = t THEN 0 ELSE ui.shown
           e == [ui EXCEPT !.tabs = f, !.failed = fs, !.preview = p, !.shown = q]
           x == Scheduled(e, t)
<1>2. Good(ui) /\ Others /\ ui \in Ui /\ ui.shown = ui.preview
  BY IInvParts DEF Good, Agree
<1>3. IsOpen(ui, t) /\ 0 \notin Tabs
  BY Constants
<1>4. texts + 1 \in Texts
  BY <1>2, Constants DEF Others, Texts
<1>5. tab \in Tab /\ tab.st = "open" /\ tab.note = ui.tabs[t].note /\ tab.path = ui.tabs[t].path
  <2> DEFINE old == ui.tabs[t]
             c == old.crev + 1
  <2>1. old \in Tab /\ c \in Nat /\ old.st = "open"
    BY <1>2, <1>3, UiFields, TabFields DEF IsOpen
  <2> HIDE DEF old, c
  <2>2. [old EXCEPT !.text = texts + 1, !.dirty = TRUE, !.crev = c] \in Tab
    BY <1>4, <2>1 DEF Tab
  <2> QED BY <2>1, <2>2 DEF old, c, Tab
<1>a. x = Edited(ui, t)
  BY DEF Edited
<1>b. tab = [ui.tabs[t] EXCEPT !.text = texts + 1, !.dirty = TRUE, !.crev = ui.tabs[t].crev + 1]
  OBVIOUS
<1> HIDE DEF tab
<1>6. f \in [Tabs -> Tab] /\ \A s \in Tabs : f[s] = IF s = t THEN tab ELSE ui.tabs[s]
  BY <1>2, <1>5, UiFields
<1>7. /\ fs \in SUBSET Tabs /\ p = q /\ p \in Tabs \cup {0} /\ p \in {ui.preview, 0}
      /\ p # t
  BY <1>2, <1>3, UiFields
<1> HIDE DEF f, fs, p, q
<1>8. /\ e \in Ui /\ e.tabs = f /\ e.registered = ui.registered /\ e.before = ui.before
      /\ e.preview = p /\ e.shown = p /\ e.conflict = ui.conflict /\ e.deferred = ui.deferred
      /\ SameRest(ui, e) /\ e.generation = ui.generation
  BY <1>2, <1>6, <1>7, ZenonT(60) DEF Ui, SameRest
<1> HIDE DEF e
<1>9. /\ x \in Ui /\ x.tabs = f /\ x.registered = ui.registered /\ x.before = ui.before
      /\ x.preview = p /\ x.shown = p /\ SameRest(ui, x) /\ x.generation = ui.generation
  <2> DEFINE a == [st |-> "scheduled", crev |-> e.tabs[t].crev]
             au == [e.auto EXCEPT ![t] = a]
  <2>1. a \in AutoState
    BY <1>8, UiFields, TabFields DEF AutoState
  <2> HIDE DEF a
  <2>2. au \in [Tabs -> AutoState]
    BY <1>8, <2>1, UiFields
  <2> HIDE DEF au
  <2>3. x = [e EXCEPT !.auto = au]
    BY DEF Scheduled, a, au
  <2> HIDE DEF x
  <2> QED BY <1>8, <2>2, <2>3 DEF Ui, SameRest
<1> HIDE DEF x
<1>10. Good(x) /\ Follows(ui, x) /\ KeepsUnsaved(ui, x)
  <2>1. \A s \in Tabs : /\ f[s].st = ui.tabs[s].st /\ f[s].note = ui.tabs[s].note
                        /\ f[s].path = ui.tabs[s].path
                        /\ s # t => f[s].dirty = ui.tabs[s].dirty
    BY <1>3, <1>5, <1>6 DEF IsOpen
  <2>2. \A s \in Tabs : /\ IF IsOpen(ui, s) THEN f[s].path # None ELSE ~f[s].dirty
                        /\ f[s].dirty => s # p
    <3> TAKE s \in Tabs
    <3>1. IF IsOpen(ui, s) THEN ui.tabs[s].path # None ELSE ~ui.tabs[s].dirty
      BY <1>2 DEF Good, OpenTabsAreBound
    <3>2. s # t /\ f[s].dirty => s # ui.preview
      BY <1>2, <2>1, <3>1 DEF Good, PreviewIsClean, DirtyTabs, IsDirty
    <3> QED BY <1>3, <1>7, <2>1, <3>1, <3>2
  <2> QED BY <1>2, <1>6, <1>7, <1>9, <2>1, <2>2, RewrittenGood
<1> QED BY <1>6, <1>8, <1>9, <1>10, <1>a, <1>b DEF SameRest

LEMMA EditStep ==
    ASSUME IInv, NEW t \in Tabs, Edit(t)
    PROVE  GoodStep
<1> DEFINE x == Edited(ui, t)
<1>1. /\ Idle /\ texts < MaxTexts /\ t \in TabsOf(ui, ui.selected) /\ texts' = texts + 1
      /\ Becomes(x) /\ UNCHANGED <<outcomes, threads, worker, requests, selects, faults>>
  BY DEF Edit
<1>2. Good(ui) /\ Others
  BY IInvParts
<1>3. IsOpen(ui, t) /\ texts' \in Texts
  BY <1>1, <1>2, Constants DEF TabsOf, Good, Agree, Others, Texts
<1>4. Good(x) /\ Follows(ui, x) /\ KeepsUnsaved(ui, x) /\ SameRest(ui, x)
  BY <1>1, <1>3, EditedGood
<1> HIDE DEF x
<1>5. Good(ui') /\ FreshTabsAreUnused' /\ DeferredFit' /\ UnsavedStep
  BY <1>1, <1>4, BecomesInv DEF threads, SameRest
<1>6. Others'
  BY <1>1, <1>2, <1>3 DEF Others, threads, worker
<1>7. ReadyToLeave' /\ TrashedIsGone' /\ MovedStep
  BY <1>1, IdleReady, SameDone, SameJobs DEF worker
<1> QED BY <1>5, <1>6, <1>7, IInvPartsPrime DEF GoodStep

\* Saving what is due, or what the user asks for
LEMMA SubmitStep ==
    ASSUME IInv, Idle, NEW ts \in SUBSET Tabs, Becomes(Submitted(ui, ts)),
           saves' = saves \cup Spawned(ui, ts), requests' \in 0..MaxRequests,
           UNCHANGED <<outcomes, reads, disk, worker, texts, selects, faults>>
    PROVE  GoodStep
<1> DEFINE x == Submitted(ui, ts)
<1>1. Good(ui) /\ Others /\ ui \in Ui /\ OpenTabsAreBound(ui)
  BY IInvParts DEF Good
<1>2. Good(x) /\ SameTabs(ui, x) /\ SameRest(ui, x) /\ Becomes(x)
  BY <1>1, SubmittedGood
<1> HIDE DEF x
<1>3. Follows(ui, x) /\ KeepsUnsaved(ui, x)
  BY <1>1, <1>2, SameFollows DEF SameTabs
<1>4. /\ saves' \in SUBSET Save /\ IsFiniteSet(saves')
      /\ \A s \in saves' : s.st = "saved" => s.rev # None
      /\ \A s \in saves' : \/ \E q \in saves : q.tab = s.tab
                           \/ ui.tabs[s.tab].st # "fresh"
  BY <1>1, SpawnedOthers
<1>5. Good(ui') /\ FreshTabsAreUnused' /\ DeferredFit' /\ UnsavedStep
  BY <1>2, <1>3, <1>4, BecomesInv DEF SameRest
<1>6. Others'
  BY <1>1, <1>4 DEF Others, worker
<1>7. ReadyToLeave' /\ TrashedIsGone' /\ MovedStep
  BY IdleReady, SameDone, SameJobs DEF worker
<1> QED BY <1>5, <1>6, <1>7, IInvPartsPrime DEF GoodStep

LEMMA DueStep ==
    ASSUME IInv, NEW t \in Tabs, Due(t)
    PROVE  GoodStep
<1>1. requests' \in 0..MaxRequests
  BY IInvParts DEF Due, Others, spent
<1> QED BY <1>1, SubmitStep DEF Due, spent

LEMMA SaveNowStep ==
    ASSUME IInv, NEW t \in Tabs, SaveNow(t)
    PROVE  GoodStep
<1>1. requests' \in 0..MaxRequests
  BY IInvParts, Constants DEF SaveNow, Others
<1> QED BY <1>1, SubmitStep DEF SaveNow

\* A command for the worker, with what it waits for
LEMMA AppendedJobs ==
    ASSUME IInv, NEW b \in Seq(Job), jobs' = jobs \o b,
           \A k \in DOMAIN b : /\ b[k].to \in Targets(b[k].kind)
                               /\ b[k].kind # "load" => DirtyTabsOf(ui, b[k].note) = {}
    PROVE  /\ jobs' \in Seq(Job) /\ \A i \in DOMAIN jobs' : jobs'[i].to \in Targets(jobs'[i].kind)
           /\ MovedStep
<1> DEFINE J == {j \in Job : j.to \in Targets(j.kind)}
<1>1. jobs \in Seq(Job) /\ \A i \in DOMAIN jobs : jobs[i].to \in Targets(jobs[i].kind)
  BY IInvParts DEF Others
<1>2. (\A k \in DOMAIN jobs : jobs[k] \in J) /\ (\A k \in DOMAIN b : b[k] \in J)
  BY <1>1
<1>3. \A j \in J : j.to \in Targets(j.kind)
  OBVIOUS
<1> HIDE DEF J
<1>4. /\ jobs \o b \in Seq(Job) /\ \A k \in DOMAIN (jobs \o b) : (jobs \o b)[k] \in J
      /\ \A k \in DOMAIN (jobs \o b) \ DOMAIN jobs : \E i \in DOMAIN b : (jobs \o b)[k] = b[i]
  BY <1>1, <1>2, JoinedJobs
<1>5. MovedStep
  BY <1>4 DEF MovedStep
<1> QED BY <1>3, <1>4, <1>5

LEMMA JobFacts ==
    ASSUME NEW kind \in Relocations \cup {"load"}, NEW n \in Notes, NEW to \in Paths \cup {None},
           NEW g \in Nat
    PROVE  LET job == [kind |-> kind, note |-> n, to |-> to, generation |-> g] IN
           /\ job \in Job /\ <<job>> \in Seq(Job)
           /\ DOMAIN <<job>> = {1} /\ <<job>>[1] = job
           /\ job.kind = kind /\ job.note = n /\ job.to = to /\ job.generation = g
BY DEF Job

LEMMA RelocationStep ==
    ASSUME IInv, NEW n \in Notes, NEW kind \in Relocations, NEW to \in Targets(kind),
           RequestRelocation(n, kind, to)
    PROVE  GoodStep
<1> DEFINE job == [kind |-> kind, note |-> n, to |-> to, generation |-> 0]
           x == Deferred(ui, job)
<1>1. /\ Idle /\ requests < MaxRequests /\ requests' = requests + 1 /\ Becomes(x)
      /\ saves' = saves \cup Spawned(ui, DirtyTabsOf(ui, n))
      /\ jobs' = IF DirtyTabsOf(ui, n) = {} THEN Append(jobs, job) ELSE jobs
      /\ UNCHANGED <<outcomes, reads, disk, done, where, bin, texts, selects, faults>>
  BY DEF RequestRelocation
<1>2. Good(ui) /\ Others /\ ui \in Ui /\ OpenTabsAreBound(ui)
  BY IInvParts DEF Good
<1>3. /\ job \in Job /\ <<job>> \in Seq(Job)
      /\ DOMAIN <<job>> = {1} /\ <<job>>[1] = job
      /\ job.kind = kind /\ job.note = n /\ job.to = to
  <2>1. to \in Paths \cup {None} /\ kind \in Relocations \cup {"load"} /\ 0 \in Nat
    BY DEF Targets
  <2> QED BY <2>1, JobFacts
<1> HIDE DEF job
<1>4. /\ Good(x) /\ SameTabs(ui, x) /\ x.conflict = ui.conflict
      /\ \A d \in x.deferred : \/ d \in ui.deferred
                               \/ d.job = job /\ d.tab \in DirtyTabsOf(ui, job.note)
  BY <1>2, <1>3, DeferredGood
<1> HIDE DEF x
<1>5. Follows(ui, x) /\ KeepsUnsaved(ui, x)
  BY <1>2, <1>4, SameFollows DEF SameTabs
<1>6. /\ saves' \in SUBSET Save /\ IsFiniteSet(saves')
      /\ \A s \in saves' : s.st = "saved" => s.rev # None
      /\ \A s \in saves' : \/ \E q \in saves : q.tab = s.tab
                           \/ ui.tabs[s.tab].st # "fresh"
  BY <1>1, <1>2, SpawnedOthers
<1>7. Good(ui') /\ FreshTabsAreUnused' /\ DeferredFit' /\ UnsavedStep
  BY <1>1, <1>3, <1>4, <1>5, <1>6, BecomesInv
<1>8. /\ jobs' \in Seq(Job) /\ \A i \in DOMAIN jobs' : jobs'[i].to \in Targets(jobs'[i].kind)
      /\ MovedStep
  <2>1. CASE DirtyTabsOf(ui, n) = {}
    <3>1. jobs' = jobs \o <<job>>
      BY <1>1, <1>2, <1>3, <2>1 DEF Others
    <3> QED BY <1>3, <2>1, <3>1, AppendedJobs
  <2>2. CASE DirtyTabsOf(ui, n) # {}
    BY <1>1, <1>2, <2>2, SameJobs DEF Others
  <2> QED BY <2>1, <2>2
<1>9. Others'
  <2>1. requests' \in 0..MaxRequests
    BY <1>1, <1>2, Constants DEF Others
  <2> QED BY <1>1, <1>2, <1>6, <1>8, <2>1 DEF Others
<1>10. ReadyToLeave' /\ TrashedIsGone'
  BY <1>1, IdleReady, SameDone
<1> QED BY <1>7, <1>8, <1>9, <1>10, IInvPartsPrime DEF GoodStep

\* What follows the drained saves
LEMMA ApplyStep ==
    ASSUME IInv, ApplyOutcome
    PROVE  GoodStep
<1> DEFINE o == Head(outcomes)
           rest == Tail(outcomes)
           now == [ui EXCEPT !.phase = IF rest = <<>> THEN "idle" ELSE "applying"]
           send == o.send
           again == o.again
           dirty == IF again = <<>> THEN {} ELSE DirtyTabsOf(ui, again[1].note)
           x == IF again = <<>> THEN now ELSE Deferred(now, again[1])
           more == IF dirty = {} THEN again ELSE <<>>
<1>1. /\ outcomes # <<>> /\ outcomes' = rest /\ Becomes(x)
      /\ saves' = saves \cup Spawned(ui, dirty)
      /\ jobs' = jobs \o send \o more
      /\ UNCHANGED <<reads, disk, done, where, bin, spent>>
  BY DEF ApplyOutcome
<1>2. /\ Good(ui) /\ Others /\ ui \in Ui /\ OpenTabsAreBound(ui) /\ ReadyToLeave
  BY IInvParts DEF Good
<1>3. /\ o \in [send : Seq(Job), again : Seq(Job)] /\ o = outcomes[1] /\ 1 \in DOMAIN outcomes
      /\ rest \in Seq([send : Seq(Job), again : Seq(Job)])
      /\ \A i \in DOMAIN rest : i + 1 \in DOMAIN outcomes /\ rest[i] = outcomes[i + 1]
  <2>1. outcomes \in Seq([send : Seq(Job), again : Seq(Job)])
    BY <1>2 DEF Others
  <2> QED BY <1>1, <2>1, HeadAndTail
<1>4. /\ \A k \in DOMAIN again : k = 1 /\ again[k].kind = "title" /\ again[k].to \in Paths
      /\ \A k \in DOMAIN send : /\ send[k].kind \in Relocations
                                /\ send[k].to \in Targets(send[k].kind)
                                /\ DirtyTabsOf(ui, send[k].note) = {}
  BY <1>2, <1>3 DEF ReadyToLeave
<1>5. send \in Seq(Job) /\ again \in Seq(Job)
  BY <1>3
<1> HIDE DEF o, send, again
<1>6. again # <<>> => /\ again[1] \in Job /\ again[1].kind = "title" /\ again[1].to \in Paths
                      /\ 1 \in DOMAIN again
  BY <1>4, <1>5
<1>7. now \in Ui /\ SameTabs(ui, now) /\ now.conflict = ui.conflict /\ now.deferred = ui.deferred
      /\ now.phase = IF rest = <<>> THEN "idle" ELSE "applying"
  BY <1>2 DEF Ui, SameTabs
<1> HIDE DEF now, rest
<1>8. Good(now) /\ DirtyTabsOf(now, again[1].note) = DirtyTabsOf(ui, again[1].note)
  BY <1>2, <1>7, SameGood
     DEF SameTabs, DirtyTabsOf, DirtyTabs, TabsOf, Registered, IsDirty, IsOpen
<1>9. /\ Good(x) /\ SameTabs(ui, x) /\ x.conflict = ui.conflict
      /\ x.phase = now.phase
      /\ \A d \in x.deferred :
            \/ d \in ui.deferred
            \/ again # <<>> /\ d.job = again[1] /\ d.tab \in DirtyTabsOf(ui, again[1].note)
  <2>1. CASE again = <<>>
    BY <1>7, <1>8, <2>1
  <2>2. CASE again # <<>>
    <3> DEFINE v == Deferred(now, again[1])
    <3>1. /\ Good(v) /\ SameTabs(now, v) /\ v.conflict = now.conflict /\ v.phase = now.phase
          /\ \A d \in v.deferred :
                \/ d \in now.deferred
                \/ d.job = again[1] /\ d.tab \in DirtyTabsOf(now, again[1].note)
      BY <1>6, <1>8, <2>2, DeferredGood
    <3>2. x = v
      BY <2>2
    <3> HIDE DEF v, x
    <3>3. SameTabs(ui, v)
      BY <1>7, <3>1 DEF SameTabs
    <3>4. \A d \in v.deferred :
             \/ d \in ui.deferred
             \/ d.job = again[1] /\ d.tab \in DirtyTabsOf(ui, again[1].note)
      BY <1>7, <1>8, <3>1
    <3> QED BY <1>7, <2>2, <3>1, <3>2, <3>3, <3>4
  <2> QED BY <2>1, <2>2
<1>a. dirty = IF again = <<>> THEN {} ELSE DirtyTabsOf(ui, again[1].note)
  OBVIOUS
<1> HIDE DEF x, dirty
<1>10. Follows(ui, x) /\ KeepsUnsaved(ui, x) /\ DirtyTabs(x) = DirtyTabs(ui)
  BY <1>2, <1>9, SameFollows DEF SameTabs
<1>11. /\ saves' \in SUBSET Save /\ IsFiniteSet(saves')
       /\ \A s \in saves' : s.st = "saved" => s.rev # None
       /\ \A s \in saves' : \/ \E q \in saves : q.tab = s.tab
                            \/ ui.tabs[s.tab].st # "fresh"
  BY <1>1, <1>2, SpawnedOthers
<1>12. \A d \in x.deferred :
          \/ d \in ui.deferred
          \/ /\ d.job.kind \in Relocations /\ d.job.to \in Targets(d.job.kind)
             /\ d.tab \in DirtyTabsOf(ui, d.job.note)
  BY <1>6, <1>9 DEF Relocations, Targets
<1>13. /\ Good(ui') /\ FreshTabsAreUnused' /\ DeferredFit' /\ UnsavedStep
       /\ ui'.phase = x.phase /\ DirtyTabs(ui') \subseteq DirtyTabs(x) /\ Follows(ui, ui')
  BY <1>1, <1>9, <1>10, <1>11, <1>12, BecomesInv
<1>14. /\ jobs' \in Seq(Job) /\ \A i \in DOMAIN jobs' : jobs'[i].to \in Targets(jobs'[i].kind)
       /\ MovedStep
  <2> DEFINE J == {j \in Job : /\ j.to \in Targets(j.kind)
                               /\ j.kind # "load" => DirtyTabsOf(ui, j.note) = {}}
             b == send \o more
  <2>1. more \in Seq(Job) /\ \A k \in DOMAIN more : more[k] \in J
    <3>1. CASE dirty = {} /\ again # <<>>
      <4>1. \A k \in DOMAIN again : again[k] \in Job /\ again[k].to \in Targets(again[k].kind)
        BY <1>4, <1>5 DEF Targets
      <4>2. \A k \in DOMAIN again : k = 1
        BY <1>4
      <4>3. more = again /\ DirtyTabsOf(ui, again[1].note) = {}
        BY <1>a, <3>1
      <4> HIDE DEF more
      <4> QED BY <1>5, <4>1, <4>2, <4>3
    <3>2. CASE ~(dirty = {} /\ again # <<>>)
      <4>1. more = <<>>
        BY <3>2
      <4> HIDE DEF more, J
      <4>2. <<>> \in Seq(Job) /\ DOMAIN <<>> = {}
        OBVIOUS
      <4> QED BY <4>1, <4>2
    <3> QED BY <3>1, <3>2
  <2>2. send \in Seq(Job) /\ \A k \in DOMAIN send : send[k] \in J
    <3>1. \A k \in DOMAIN send : send[k] \in Job
      BY <1>5
    <3> QED BY <1>4, <1>5, <3>1
  <2>3. \A j \in J : /\ j.to \in Targets(j.kind)
                     /\ j.kind # "load" => DirtyTabsOf(ui, j.note) = {}
    OBVIOUS
  <2> HIDE DEF J, more
  <2>4. b \in Seq(Job) /\ \A k \in DOMAIN b : b[k] \in J
    BY <2>1, <2>2, JoinedJobs
  <2>5. jobs' = jobs \o b
    <3>1. jobs \in Seq(Job)
      BY <1>2 DEF Others
    <3> QED BY <1>1, <2>1, <2>2, <3>1, ConcatAssociative
  <2> HIDE DEF b
  <2> QED BY <2>3, <2>4, <2>5, AppendedJobs
<1>15. Others'
  BY <1>1, <1>2, <1>3, <1>11, <1>14 DEF Others, spent
<1>16. ReadyToLeave'
  <2>1. outcomes' # <<>> => ui'.phase # "idle"
    BY <1>1, <1>7, <1>9, <1>13
  <2>2. \A n : DirtyTabsOf(ui, n) = {} => DirtyTabsOf(ui', n) = {}
    <3>1. \A n : DirtyTabsOf(ui', n) \subseteq DirtyTabsOf(ui, n)
      <4> SUFFICES ASSUME NEW n, NEW t \in DirtyTabsOf(ui', n) PROVE t \in DirtyTabsOf(ui, n)
        OBVIOUS
      <4>1. t \in DirtyTabs(ui) /\ t \in Tabs /\ IsOpen(ui', t) /\ ui'.tabs[t].note = n
        BY <1>10, <1>13 DEF DirtyTabsOf, DirtyTabs, TabsOf, IsDirty
      <4>2. IsOpen(ui, t) /\ ui.tabs[t].st # "fresh"
        BY <4>1 DEF DirtyTabs, IsDirty, IsOpen
      <4>3. ui.tabs[t].note = n
        BY <1>13, <4>1, <4>2 DEF Follows
      <4> QED BY <1>2, <4>1, <4>2, <4>3 DEF DirtyTabsOf, TabsOf, Good, Agree
    <3> QED BY <3>1
  <2>3. ASSUME NEW i \in DOMAIN outcomes'
        PROVE  /\ \A k \in DOMAIN outcomes'[i].again :
                     /\ k = 1 /\ outcomes'[i].again[k].kind = "title"
                     /\ outcomes'[i].again[k].to \in Paths
               /\ \A k \in DOMAIN outcomes'[i].send :
                     LET job == outcomes'[i].send[k] IN
                     /\ job.kind \in Relocations /\ job.to \in Targets(job.kind)
                     /\ DirtyTabsOf(ui', job.note) = {}
    <3>1. i + 1 \in DOMAIN outcomes /\ outcomes'[i] = outcomes[i + 1]
      BY <1>1, <1>3
    <3> QED BY <1>2, <2>2, <3>1 DEF ReadyToLeave
  <2> QED BY <2>1, <2>3 DEF ReadyToLeave
<1>17. TrashedIsGone'
  BY <1>1, SameDone
<1> QED BY <1>13, <1>14, <1>15, <1>16, <1>17, IInvPartsPrime DEF GoodStep

\* Selecting a note
LEMMA LoadsFacts ==
    ASSUME NEW u \in Ui, NEW n \in Notes
    PROVE  /\ Loads(u, n) \in Seq(Job)
           /\ \A k \in DOMAIN Loads(u, n) : /\ Loads(u, n)[k].to \in Targets(Loads(u, n)[k].kind)
                                            /\ Loads(u, n)[k].kind = "load"
                                            /\ Loads(u, n)[k].note = n
                                            /\ Loads(u, n)[k].generation = u.generation + 1
                                            /\ TabsOf(u, n) = {}
<1>1. CASE TabsOf(u, n) # {}
  <2>1. Loads(u, n) = <<>>
    BY <1>1 DEF Loads
  <2> QED BY <2>1
<1>2. CASE TabsOf(u, n) = {}
  <2> DEFINE job == [kind |-> "load", note |-> n, to |-> None, generation |-> u.generation + 1]
  <2>1. Loads(u, n) = <<job>>
    BY <1>2 DEF Loads
  <2>2. u.generation + 1 \in Nat /\ None \in Paths \cup {None}
    BY UiFields
  <2>3. /\ job \in Job /\ <<job>> \in Seq(Job)
        /\ DOMAIN <<job>> = {1} /\ <<job>>[1] = job
        /\ job.kind = "load" /\ job.note = n /\ job.to = None
        /\ job.generation = u.generation + 1
    BY <2>2, JobFacts DEF Relocations
  <2> HIDE DEF job
  <2> QED BY <1>2, <2>1, <2>3 DEF Targets
<1> QED BY <1>1, <1>2

LEMMA SelectStep ==
    ASSUME IInv, NEW n \in Notes, Select(n)
    PROVE  GoodStep
<1> DEFINE x == Chosen(ui, n)
           b == Loads(ui, n)
<1>1. /\ Idle /\ selects < MaxSelects /\ selects' = selects + 1 /\ Becomes(x) /\ jobs' = jobs \o b
      /\ UNCHANGED <<outcomes, threads, done, where, bin, texts, requests, faults>>
  BY DEF Select
<1>2. Good(ui) /\ Others /\ ui \in Ui
  BY IInvParts DEF Good
<1>3. b \in Seq(Job) /\ \A k \in DOMAIN b : b[k].to \in Targets(b[k].kind) /\ b[k].kind = "load"
  BY <1>2, LoadsFacts
<1>4. Good(x) /\ \E ts \in SUBSET Tabs : Leaves(ui, x, ts)
  BY <1>2, ChosenGood
<1> HIDE DEF x, b
<1>5. Follows(ui, x) /\ KeepsUnsaved(ui, x) /\ x.conflict = ui.conflict /\ x.deferred = ui.deferred
  BY <1>2, <1>4, LeavesFollows DEF Leaves, SameRest
<1>6. Good(ui') /\ FreshTabsAreUnused' /\ DeferredFit' /\ UnsavedStep
  BY <1>1, <1>4, <1>5, BecomesInv DEF threads
<1>7. /\ jobs' \in Seq(Job) /\ \A i \in DOMAIN jobs' : jobs'[i].to \in Targets(jobs'[i].kind)
      /\ MovedStep
  BY <1>1, <1>3, AppendedJobs
<1>8. Others'
  <2>1. selects' \in 0..MaxSelects
    BY <1>1, <1>2, Constants DEF Others
  <2> QED BY <1>1, <1>2, <1>7, <2>1 DEF Others, threads
<1>9. ReadyToLeave' /\ TrashedIsGone'
  BY <1>1, IdleReady, SameDone
<1> QED BY <1>6, <1>7, <1>8, <1>9, IInvPartsPrime DEF GoodStep

\* The answers of the worker
LEMMA TakenDone ==
    ASSUME IInv, done # <<>>, done' = Tail(done), UNCHANGED where
    PROVE  /\ Head(done) \in Reply /\ Head(done) = done[1] /\ 1 \in DOMAIN done
           /\ done' \in Seq(Reply)
           /\ \A i \in DOMAIN done' : i + 1 \in DOMAIN done /\ done'[i] = done[i + 1]
           /\ \A i \in DOMAIN done' : done'[i].kind # "trash" => done'[i].to # None
           /\ Head(done).kind # "trash" => Head(done).to # None
           /\ Head(done).kind = "trash" => where[Head(done).note] = None
           /\ TrashedIsGone'
<1>1. /\ done \in Seq(Reply) /\ TrashedIsGone
      /\ \A i \in DOMAIN done : done[i].kind # "trash" => done[i].to # None
  BY IInvParts DEF Others
<1>2. /\ Head(done) \in Reply /\ Head(done) = done[1] /\ 1 \in DOMAIN done
      /\ done' \in Seq(Reply)
      /\ \A i \in DOMAIN done' : i + 1 \in DOMAIN done /\ done'[i] = done[i + 1]
  BY <1>1, HeadAndTail
<1>3. \A i \in DOMAIN done' : done'[i].kind # "trash" => done'[i].to # None
  BY <1>1, <1>2
<1>4. TrashedIsGone'
  BY <1>1, <1>2 DEF TrashedIsGone
<1> QED BY <1>1, <1>2, <1>3, <1>4 DEF TrashedIsGone

LEMMA TakeLoadedStep ==
    ASSUME IInv, TakeLoaded
    PROVE  GoodStep
<1> DEFINE answer == Head(done)
<1>1. /\ Idle /\ done # <<>> /\ answer.kind = "load" /\ done' = Tail(done)
      /\ IF answer.note # ui.selected \/ answer.generation # ui.generation THEN UNCHANGED ui
         ELSE IF TabsOf(ui, answer.note) # {} THEN Becomes(Opened(ui, answer.note))
         ELSE \E t \in FreshTabs(ui) : /\ \A s \in FreshTabs(ui) : t <= s
                                       /\ Becomes(Installed(ui, t, answer))
      /\ UNCHANGED <<outcomes, threads, jobs, where, bin, spent>>
  BY DEF TakeLoaded
<1>2. Good(ui) /\ Others /\ ui \in Ui
  BY IInvParts DEF Good
<1>3. /\ answer \in Reply /\ answer.to # None /\ done' \in Seq(Reply)
      /\ \A i \in DOMAIN done' : done'[i].kind # "trash" => done'[i].to # None
      /\ TrashedIsGone'
  BY <1>1, TakenDone
<1>4. answer.note \in Notes
  BY <1>3 DEF Reply
<1> HIDE DEF answer
<1>5. Good(ui') /\ FreshTabsAreUnused' /\ DeferredFit' /\ UnsavedStep
  <2>1. CASE UNCHANGED ui
    <3>1. Follows(ui, ui') /\ KeepsUnsaved(ui, ui') /\ ui' \in Ui
      BY <1>2, <2>1, SameFollows
    <3>2. FreshTabsAreUnused' /\ DeferredFit'
      BY <1>1, <2>1, <3>1, FollowedInv DEF threads
    <3> QED BY <1>2, <2>1, <3>1, <3>2 DEF UnsavedStep, KeepsUnsaved
  <2>2. CASE Becomes(Opened(ui, answer.note))
    <3> DEFINE x == Opened(ui, answer.note)
    <3>1. Good(x) /\ \E ts \in SUBSET Tabs : Leaves(ui, x, ts)
      BY <1>2, <1>4, OpenedGood
    <3> HIDE DEF x
    <3>2. Follows(ui, x) /\ KeepsUnsaved(ui, x) /\ x.conflict = ui.conflict
          /\ x.deferred = ui.deferred
      BY <1>2, <3>1, LeavesFollows DEF Leaves, SameRest
    <3>3. Becomes(x)
      BY <2>2 DEF x
    <3> QED BY <1>1, <3>1, <3>2, <3>3, BecomesInv DEF threads
  <2>3. ASSUME NEW t \in FreshTabs(ui), Becomes(Installed(ui, t, answer)),
               TabsOf(ui, answer.note) = {}
        PROVE  Good(ui') /\ FreshTabsAreUnused' /\ DeferredFit' /\ UnsavedStep
    <3> DEFINE x == Installed(ui, t, answer)
    <3>1. Good(x) /\ SameRest(ui, x) /\ Follows(ui, x) /\ KeepsUnsaved(ui, x)
      BY <1>2, <1>3, <2>3, InstalledGood
    <3>3. Becomes(x)
      BY <2>3
    <3> HIDE DEF x
    <3> QED BY <1>1, <3>1, <3>3, BecomesInv DEF threads, SameRest
  <2> QED BY <1>1, <2>1, <2>2, <2>3
<1>6. Others'
  BY <1>1, <1>2, <1>3 DEF Others, threads, spent
<1>7. ReadyToLeave' /\ MovedStep
  BY <1>1, IdleReady, SameJobs
<1> QED BY <1>3, <1>5, <1>6, <1>7, IInvPartsPrime DEF GoodStep

\* A note that went to the trash takes its tab along.
LEMMA TrashedGood ==
    ASSUME IInv, NEW n \in Notes
    PROVE  LET x == Trashed(ui, n) IN
           /\ Good(x) /\ Closes(ui, x, TabsOf(ui, n)) /\ SameRest(ui, x)
           /\ TabsOf(ui, n) \in SUBSET Tabs /\ ui.generation <= x.generation
<1> DEFINE gone == Dismissed(ui, TabsOf(ui, n))
           x == IF ui.selected = n /\ TabsOf(ui, n) # {}
                THEN [gone EXCEPT !.selected = None, !.generation = @ + 1] ELSE gone
<1>2. Good(ui) /\ ui \in Ui
  BY IInvParts DEF Good
<1>a. Trashed(ui, n) = x
  BY DEF Trashed
<1>4. TabsOf(ui, n) \in SUBSET Tabs
  BY <1>2, UiFields DEF TabsOf, Registered
<1>5. /\ Good(gone) /\ Closes(ui, gone, TabsOf(ui, n)) /\ SameRest(ui, gone)
      /\ gone.generation = ui.generation
  BY <1>2, <1>4, DismissedGood
<1> HIDE DEF gone
<1>6. /\ Good(x) /\ SameTabs(gone, x) /\ SameRest(gone, x)
      /\ gone.generation <= x.generation
  <2> DEFINE y == [gone EXCEPT !.selected = None, !.generation = @ + 1]
  <2>1. y \in Ui /\ SameTabs(gone, y) /\ SameRest(gone, y) /\ gone.generation <= y.generation
    <3> DEFINE g == gone.generation + 1
    <3>1. gone \in Ui /\ g \in Nat /\ gone.generation <= g
      BY <1>5, UiFields DEF Good
    <3>2. y = [gone EXCEPT !.selected = None, !.generation = g]
      OBVIOUS
    <3> HIDE DEF g, y
    <3> QED BY <3>1, <3>2 DEF Ui, SameTabs, SameRest
  <2>2. Good(y)
    BY <1>5, <2>1, SameGood
  <2>3. x = gone \/ x = y
    OBVIOUS
  <2>4. gone.generation <= gone.generation
    BY <1>5, UiFields DEF Good
  <2> HIDE DEF x, y
  <2> QED BY <1>5, <2>1, <2>2, <2>3, <2>4 DEF SameTabs, SameRest
<1> HIDE DEF x
<1>7. Closes(ui, x, TabsOf(ui, n)) /\ SameRest(ui, x)
  BY <1>5, <1>6 DEF Closes, SameTabs, SameRest
<1> QED BY <1>4, <1>5, <1>6, <1>7, <1>a

LEMMA TakeTrashedStep ==
    ASSUME IInv, TakeTrashed
    PROVE  GoodStep
<1> DEFINE n == Head(done).note
           x == Trashed(ui, n)
<1>1. /\ Idle /\ done # <<>> /\ Head(done).kind = "trash" /\ done' = Tail(done) /\ Becomes(x)
      /\ UNCHANGED <<outcomes, threads, jobs, where, bin, spent>>
  BY DEF TakeTrashed
<1>2. Good(ui) /\ Others /\ ui \in Ui
  BY IInvParts DEF Good
<1>3. /\ n \in Notes /\ where[n] = None /\ done' \in Seq(Reply)
      /\ \A i \in DOMAIN done' : done'[i].kind # "trash" => done'[i].to # None
      /\ TrashedIsGone'
  BY <1>1, TakenDone DEF Reply
<1> HIDE DEF n
<1>4. TabsOf(ui, n) \in SUBSET Tabs
  BY <1>3, TrashedGood
<1>6. Good(x)
  BY <1>3, TrashedGood
<1>7. Closes(ui, x, TabsOf(ui, n)) /\ SameRest(ui, x)
  BY <1>3, TrashedGood
<1> HIDE DEF x
<1>8. PICK v \in Settled(x) : ui' = v
  BY <1>1 DEF Becomes
<1>9. Good(v) /\ Follows(x, v) /\ v.conflict = x.conflict /\ v.deferred \subseteq x.deferred
  BY <1>6, <1>8, SettledFollows
<1>10. Follows(ui, v) /\ v \in Ui
  BY <1>2, <1>4, <1>7, <1>9, LeavesFollows, FollowsTrans DEF Good
<1>11. FreshTabsAreUnused' /\ DeferredFit'
  BY <1>1, <1>7, <1>8, <1>9, <1>10, FollowedInv DEF threads, SameRest
<1>12. UnsavedStep
  <2> SUFFICES ASSUME NEW t \in DirtyTabs(ui), v.stage # "switched"
               PROVE  IsOpen(v, t) \/ where[ui.tabs[t].note] = None
    BY <1>8 DEF UnsavedStep
  <2>1. t \in Tabs /\ IsOpen(ui, t)
    BY DEF DirtyTabs, IsDirty
  <2>2. CASE t \in TabsOf(ui, n)
    BY <1>3, <2>2 DEF TabsOf
  <2>3. CASE t \notin TabsOf(ui, n)
    <3>1. x.tabs[t] = ui.tabs[t]
      BY <1>7, <2>1, <2>3 DEF Closes
    <3>2. v.tabs = x.tabs
      BY <1>6, <1>8, SettledGood DEF Carries, Switches, SameTabs
    <3> QED BY <2>1, <3>1, <3>2 DEF IsOpen
  <2> QED BY <2>2, <2>3
<1>13. Others'
  BY <1>1, <1>2, <1>3 DEF Others, threads, spent
<1>14. ReadyToLeave' /\ MovedStep
  BY <1>1, IdleReady, SameJobs
<1> QED BY <1>3, <1>8, <1>9, <1>11, <1>12, <1>13, <1>14, IInvPartsPrime DEF GoodStep

LEMMA TakeMovedStep ==
    ASSUME IInv, TakeMoved
    PROVE  GoodStep
<1> DEFINE answer == Head(done)
           bound == Rebound(ui, answer)
           chosen == answer.kind = "move"
           x == IF chosen THEN Chosen(bound, answer.note) ELSE bound
           b == IF chosen THEN Loads(bound, answer.note) ELSE <<>>
<1>1. /\ Idle /\ done # <<>> /\ answer.kind \in {"move", "title"} /\ done' = Tail(done)
      /\ Becomes(x) /\ jobs' = jobs \o b
      /\ UNCHANGED <<outcomes, threads, where, bin, spent>>
  BY DEF TakeMoved
<1>2. Good(ui) /\ Others /\ ui \in Ui /\ disk \in [Paths -> Revisions \cup {None}]
  BY IInvParts DEF Good, Others
<1>3. /\ answer \in Reply /\ answer.to # None /\ done' \in Seq(Reply)
      /\ \A i \in DOMAIN done' : done'[i].kind # "trash" => done'[i].to # None
      /\ TrashedIsGone'
  BY <1>1, TakenDone
<1>4. answer.note \in Notes
  BY <1>3 DEF Reply
<1> HIDE DEF answer
<1>5. /\ Good(bound) /\ Follows(ui, bound) /\ KeepsUnsaved(ui, bound)
      /\ DirtyTabs(bound) = DirtyTabs(ui)
      /\ bound.deferred = ui.deferred /\ bound.conflict = ui.conflict
  BY <1>2, <1>3, ReboundGood
<1> HIDE DEF bound
<1>6. bound \in Ui
  BY <1>5 DEF Good
<1>7. Good(x) /\ (x = bound \/ \E ts \in SUBSET Tabs : Leaves(bound, x, ts))
  BY <1>4, <1>5, ChosenGood
<1>8. b \in Seq(Job) /\ \A k \in DOMAIN b : b[k].to \in Targets(b[k].kind) /\ b[k].kind = "load"
  <2>1. CASE chosen
    BY <1>4, <1>6, <2>1, LoadsFacts
  <2>2. CASE ~chosen
    <3>1. b = <<>>
      BY <2>2
    <3> HIDE DEF b
    <3> QED BY <3>1
  <2> QED BY <2>1, <2>2
<1> HIDE DEF x, b
<1>9. /\ Follows(bound, x) /\ KeepsUnsaved(bound, x) /\ x.conflict = bound.conflict
      /\ x.deferred = bound.deferred
  BY <1>6, <1>7, LeavesFollows, SameFollows DEF Leaves, SameRest
<1>10. Follows(ui, x) /\ KeepsUnsaved(ui, x)
  BY <1>5, <1>9, FollowsTrans DEF KeepsUnsaved
<1>11. Good(ui') /\ FreshTabsAreUnused' /\ DeferredFit' /\ UnsavedStep
  BY <1>1, <1>5, <1>7, <1>9, <1>10, BecomesInv DEF threads
<1>12. /\ jobs' \in Seq(Job) /\ \A i \in DOMAIN jobs' : jobs'[i].to \in Targets(jobs'[i].kind)
       /\ MovedStep
  BY <1>1, <1>8, AppendedJobs
<1>13. Others'
  BY <1>1, <1>2, <1>3, <1>12 DEF Others, threads, spent
<1>14. ReadyToLeave'
  BY <1>1, IdleReady
<1> QED BY <1>3, <1>11, <1>12, <1>13, <1>14, IInvPartsPrime DEF GoodStep

\* Steps that leave the loop alone
LEMMA StillUi ==
    ASSUME IInv, UNCHANGED ui,
           \A s \in saves' : \/ \E q \in saves : q.tab = s.tab
                             \/ ui.tabs[s.tab].st # "fresh",
           \A r \in reads' : \/ \E q \in reads : q.tab = r.tab
                             \/ ui.tabs[r.tab].st # "fresh"
    PROVE  /\ Good(ui') /\ FreshTabsAreUnused' /\ DeferredFit' /\ UnsavedStep
           /\ UNCHANGED outcomes => ReadyToLeave'
<1>1. Good(ui) /\ ui \in Ui /\ ReadyToLeave
  BY IInvParts DEF Good
<1>2. Follows(ui, ui') /\ KeepsUnsaved(ui, ui') /\ ui' \in Ui
  BY <1>1, SameFollows
<1>3. FreshTabsAreUnused' /\ DeferredFit'
  BY <1>2, FollowedInv
<1>4. ASSUME UNCHANGED outcomes PROVE ReadyToLeave'
  BY <1>1, <1>4 DEF ReadyToLeave, DirtyTabsOf, DirtyTabs, TabsOf, Registered, IsDirty, IsOpen
<1> QED BY <1>1, <1>2, <1>3, <1>4 DEF UnsavedStep, KeepsUnsaved

LEMMA SaveEndsStep ==
    ASSUME IInv, NEW s \in saves, SaveEnds(s)
    PROVE  GoodStep
<1>1. Others /\ s \in Save
  BY IInvParts DEF Others
<1>2. /\ Written(s) \in Save /\ Written(s).tab = s.tab /\ Written(s).path = s.path
      /\ Written(s).st = "saved" => Written(s).rev # None
  BY <1>1, WrittenType
<1> DEFINE e == [s EXCEPT !.st = "error"]
<1>3. e \in Save /\ e.tab = s.tab /\ e.st = "error"
  BY <1>1 DEF Save
<1> HIDE DEF e
<1>4. PICK w \in {Written(s), e} :
         /\ saves' = (saves \ {s}) \cup {w}
         /\ disk' \in [Paths -> Revisions \cup {None}]
         /\ faults' \in 0..MaxFaults
  <2>1. CASE /\ saves' = (saves \ {s}) \cup {Written(s)}
             /\ disk' = IF Written(s).st = "saved" THEN [disk EXCEPT ![s.path] = Written(s).rev]
                        ELSE disk
             /\ UNCHANGED faults
    <3>1. Written(s).rev \in Revisions \cup {None}
      BY <1>2 DEF Save
    <3>2. disk' \in [Paths -> Revisions \cup {None}]
      BY <1>1, <2>1, <3>1 DEF Others
    <3> QED BY <1>1, <2>1, <3>2 DEF Others
  <2>2. CASE /\ faults < MaxFaults /\ faults' = faults + 1
             /\ saves' = (saves \ {s}) \cup {e}
             /\ UNCHANGED disk
    BY <1>1, <2>2, Constants DEF Others
  <2> QED BY <2>1, <2>2 DEF SaveEnds, e
<1>5. w \in Save /\ w.tab = s.tab /\ (w.st = "saved" => w.rev # None)
  BY <1>2, <1>3
<1>6. /\ saves' \in SUBSET Save /\ IsFiniteSet(saves')
      /\ \A x \in saves' : x.st = "saved" => x.rev # None
      /\ \A x \in saves' : \E q \in saves : q.tab = x.tab
  <2>1. IsFiniteSet(saves \ {s})
    BY <1>1, FS_RemoveElement DEF Others
  <2>2. IsFiniteSet(saves')
    BY <1>4, <2>1, FS_AddElement
  <2> QED BY <1>1, <1>4, <1>5, <2>2 DEF Others
<1>7. UNCHANGED <<ui, outcomes, reads, worker, texts, requests, selects>>
  BY DEF SaveEnds
<1>8. Others'
  BY <1>1, <1>4, <1>6, <1>7 DEF Others, worker
<1>9. Good(ui') /\ FreshTabsAreUnused' /\ DeferredFit' /\ UnsavedStep /\ ReadyToLeave'
  BY <1>6, <1>7, StillUi
<1>10. TrashedIsGone' /\ MovedStep
  BY <1>7, SameDone, SameJobs DEF worker
<1> QED BY <1>8, <1>9, <1>10, IInvPartsPrime DEF GoodStep

LEMMA OutsideWriteStep ==
    ASSUME IInv, NEW p \in Paths, OutsideWrite(p)
    PROVE  GoodStep
<1>1. /\ Others /\ disk[p] \in Revisions /\ texts < MaxTexts /\ texts' = texts + 1
      /\ requests < MaxRequests /\ requests' = requests + 1
      /\ disk' = [disk EXCEPT ![p] = Revision(disk[p].file, texts + 1, "other", disk[p].stamp + 1)]
      /\ UNCHANGED <<ui, outcomes, saves, reads, worker, selects, faults>>
  BY IInvParts DEF Others, OutsideWrite
<1>2. /\ texts + 1 \in Texts /\ texts' \in Texts /\ requests' \in 0..MaxRequests
  BY <1>1, Constants DEF Others, Texts
<1>3. Revision(disk[p].file, texts + 1, "other", disk[p].stamp + 1) \in Revisions
  BY <1>1, <1>2 DEF Revision, Revisions
<1>4. disk' \in [Paths -> Revisions \cup {None}]
  BY <1>1, <1>3 DEF Others
<1>5. Others'
  BY <1>1, <1>2, <1>4 DEF Others, worker
<1>6. Good(ui') /\ FreshTabsAreUnused' /\ DeferredFit' /\ UnsavedStep /\ ReadyToLeave'
  BY <1>1, StillUi
<1>7. TrashedIsGone' /\ MovedStep
  BY <1>1, SameDone, SameJobs DEF worker
<1> QED BY <1>5, <1>6, <1>7, IInvPartsPrime DEF GoodStep

LEMMA RetryStep ==
    ASSUME IInv, NEW t \in Tabs, Retry(t)
    PROVE  GoodStep
<1> DEFINE r == [tab |-> t, crev |-> ui.tabs[t].crev, path |-> ui.tabs[t].path,
                 st |-> "running", rev |-> None]
<1>1. /\ Idle /\ requests < MaxRequests /\ t \in ui.conflict \cap TabsOf(ui, ui.selected)
      /\ requests' = requests + 1 /\ reads' = reads \cup {r}
      /\ UNCHANGED <<ui, outcomes, saves, disk, worker, texts, selects, faults>>
  BY DEF Retry
<1>2. Good(ui) /\ Others /\ ui \in Ui
  BY IInvParts DEF Good
<1>3. IsOpen(ui, t) /\ ui.tabs[t].path \in Paths /\ ui.tabs[t].crev \in Nat
  <2>1. IsOpen(ui, t)
    BY <1>1, <1>2 DEF TabsOf, Good, Agree
  <2>2. ui.tabs[t] \in Tab /\ ui.tabs[t].path # None
    BY <1>2, <2>1, UiFields DEF Good, OpenTabsAreBound
  <2> QED BY <2>1, <2>2, TabFields
<1>4. r \in Read /\ r.st # "read" /\ r.tab = t
  BY <1>3 DEF Read
<1> HIDE DEF r
<1>5. Others'
  <2>1. requests' \in 0..MaxRequests
    BY <1>1, <1>2, Constants DEF Others
  <2> QED BY <1>1, <1>2, <1>4, <2>1 DEF Others, worker
<1>6. Good(ui') /\ FreshTabsAreUnused' /\ DeferredFit' /\ UnsavedStep /\ ReadyToLeave'
  BY <1>1, <1>3, <1>4, StillUi DEF IsOpen
<1>7. TrashedIsGone' /\ MovedStep
  BY <1>1, SameDone, SameJobs DEF worker
<1> QED BY <1>5, <1>6, <1>7, IInvPartsPrime DEF GoodStep

LEMMA CaptureStep ==
    ASSUME IInv, NEW r \in reads, CaptureRevision(r)
    PROVE  GoodStep
<1> DEFINE c == [r EXCEPT !.st = "read", !.rev = disk[r.path]]
<1>1. /\ Others /\ r \in Read
      /\ reads' = (reads \ {r}) \cup (IF disk[r.path] = None THEN {} ELSE {c})
      /\ UNCHANGED <<ui, outcomes, saves, disk, worker, spent>>
  BY IInvParts DEF Others, CaptureRevision
<1>2. disk[r.path] # None => c \in Read /\ c.tab = r.tab /\ c.rev # None
  BY <1>1 DEF Others, Read
<1> HIDE DEF c
<1>3. Others'
  BY <1>1, <1>2 DEF Others, worker, spent
<1>4. \A q \in reads' : \E x \in reads : x.tab = q.tab
  BY <1>1, <1>2
<1>5. Good(ui') /\ FreshTabsAreUnused' /\ DeferredFit' /\ UnsavedStep /\ ReadyToLeave'
  BY <1>1, <1>4, StillUi
<1>6. TrashedIsGone' /\ MovedStep
  BY <1>1, SameDone, SameJobs DEF worker
<1> QED BY <1>3, <1>5, <1>6, IInvPartsPrime DEF GoodStep

LEMMA WorkStep ==
    ASSUME IInv, Work
    PROVE  GoodStep
<1> DEFINE job == Head(jobs)
           from == where[job.note]
           here == from # None /\ disk[from] # None
           possible == here /\ (job.kind \in {"move", "title"} => disk[job.to] = None)
           answer == Answer(job, from, disk[from])
<1>1. /\ jobs # <<>> /\ jobs' = Tail(jobs)
      /\ done' = IF possible THEN Append(done, answer) ELSE done
      /\ IF possible /\ job.kind # "load"
         THEN /\ where' = [where EXCEPT ![job.note] = job.to]
              /\ disk' = [p \in Paths |-> IF p = job.to THEN disk[from]
                                          ELSE IF p = from THEN None ELSE disk[p]]
              /\ bin' = IF job.to = None THEN [bin EXCEPT ![job.note] = disk[from]] ELSE bin
         ELSE UNCHANGED <<where, disk, bin>>
      /\ UNCHANGED <<ui, outcomes, saves, reads, spent>>
  BY DEF Work
<1>2. Others /\ TrashedIsGone
  BY IInvParts
<1>3. /\ job \in Job /\ job.to \in Targets(job.kind) /\ jobs' \in Seq(Job)
      /\ \A i \in DOMAIN jobs' : i + 1 \in DOMAIN jobs /\ jobs'[i] = jobs[i + 1]
  <2>1. jobs \in Seq(Job) /\ \A i \in DOMAIN jobs : jobs[i].to \in Targets(jobs[i].kind)
    BY <1>2 DEF Others
  <2> QED BY <1>1, <2>1, HeadAndTail
<1>4. /\ \A i \in DOMAIN jobs' : jobs'[i].to \in Targets(jobs'[i].kind)
      /\ MovedStep
  <2>1. \A i \in DOMAIN jobs' : i \in DOMAIN jobs
    BY <1>1, <1>2, <1>3 DEF Others
  <2> QED BY <1>2, <1>3, <2>1 DEF Others, MovedStep
<1> HIDE DEF job
<1>5. job.note \in Notes /\ job.kind \in Relocations \cup {"load"} /\ job.generation \in Nat
      /\ job.to \in Paths \cup {None}
  BY <1>3 DEF Job
<1>6. from \in Paths \cup {None} /\ (here => from \in Paths /\ disk[from] \in Revisions)
  BY <1>2, <1>5 DEF Others
<1>7. here => /\ answer \in Reply /\ answer.kind = job.kind /\ answer.note = job.note
              /\ answer.kind # "trash" => answer.to # None
  <2> SUFFICES ASSUME here
               PROVE  /\ answer \in Reply /\ answer.kind = job.kind /\ answer.note = job.note
                      /\ answer.kind # "trash" => answer.to # None
    OBVIOUS
  <2>1. from \in Paths /\ disk[from] \in Revisions
    BY <1>6
  <2> DEFINE to == IF job.kind = "load" THEN from ELSE job.to
             rev == disk[from]
  <2>2. to \in Paths \cup {None} /\ (job.kind # "trash" => to # None)
    BY <1>3, <1>5, <2>1, Constants DEF Relocations, Targets
  <2>3. answer = [kind |-> job.kind, note |-> job.note, from |-> from, to |-> to,
                  generation |-> job.generation, rev |-> rev]
    BY DEF Answer
  <2> HIDE DEF answer, from, to, rev
  <2>4. from \in Paths /\ rev \in Revisions
    BY <2>1 DEF rev
  <2> QED BY <1>5, <2>2, <2>3, <2>4 DEF Reply
<1>a. possible => here
  OBVIOUS
<1> HIDE DEF answer
<1>8. /\ done' \in Seq(Reply) /\ \A i \in DOMAIN done' : done'[i].kind # "trash" => done'[i].to # None
      /\ \A i \in DOMAIN done' :
            \/ i \in DOMAIN done /\ done'[i] = done[i]
            \/ possible /\ done'[i].kind = job.kind /\ done'[i].note = job.note
  <2>1. CASE possible
    <3>1. done \in Seq(Reply) /\ answer \in Reply /\ done' = Append(done, answer)
      BY <1>1, <1>2, <1>7, <1>a, <2>1 DEF Others
    <3>2. /\ done' \in Seq(Reply)
          /\ \A i \in DOMAIN done' : \/ i \in DOMAIN done /\ done'[i] = done[i]
                                     \/ done'[i] = answer
      BY <3>1, AppendedElements
    <3> QED BY <1>2, <1>7, <1>a, <2>1, <3>2 DEF Others
  <2>2. CASE ~possible
    BY <1>1, <1>2, <2>2 DEF Others
  <2> QED BY <2>1, <2>2
<1>9. /\ where' \in [Notes -> Paths \cup {None}] /\ bin' \in [Notes -> Revisions \cup {None}]
      /\ disk' \in [Paths -> Revisions \cup {None}]
      /\ \A n \in Notes : where[n] = None => where'[n] = None
      /\ possible /\ job.kind = "trash" => where'[job.note] = None
  <2>1. CASE possible /\ job.kind # "load"
    <3>1. from \in Paths /\ disk[from] \in Revisions /\ from # None
      BY <1>6, <1>a, <2>1, Constants
    <3>2. /\ where' = [where EXCEPT ![job.note] = job.to]
          /\ disk' = [p \in Paths |-> IF p = job.to THEN disk[from]
                                      ELSE IF p = from THEN None ELSE disk[p]]
          /\ bin' = IF job.to = None THEN [bin EXCEPT ![job.note] = disk[from]] ELSE bin
      BY <1>1, <2>1
    <3>3. where[job.note] # None
      BY <3>1
    <3> HIDE DEF from, possible, here
    <3>4. where' \in [Notes -> Paths \cup {None}] /\ \A n \in Notes : where[n] = None => where'[n] = None
      BY <1>2, <1>5, <3>2, <3>3 DEF Others
    <3>5. bin' \in [Notes -> Revisions \cup {None}]
      BY <1>2, <1>5, <3>1, <3>2 DEF Others
    <3>6. disk' \in [Paths -> Revisions \cup {None}]
      BY <1>2, <3>1, <3>2 DEF Others
    <3>7. job.kind = "trash" => where'[job.note] = None
      BY <1>2, <1>3, <1>5, <3>2 DEF Others, Targets
    <3> QED BY <3>4, <3>5, <3>6, <3>7
  <2>2. CASE ~(possible /\ job.kind # "load")
    <3> HIDE DEF from, possible, here
    <3> QED BY <1>1, <1>2, <2>2 DEF Others
  <2> QED BY <2>1, <2>2
<1> HIDE DEF possible, here, from
<1>10. TrashedIsGone'
  <2> SUFFICES ASSUME NEW i \in DOMAIN done', done'[i].kind = "trash"
               PROVE  where'[done'[i].note] = None
    BY DEF TrashedIsGone
  <2>1. CASE i \in DOMAIN done /\ done'[i] = done[i]
    <3>1. done[i] \in Reply
      BY <1>2, <2>1 DEF Others
    <3>2. done[i].note \in Notes /\ where[done[i].note] = None
      BY <1>2, <2>1, <3>1 DEF TrashedIsGone, Reply
    <3> QED BY <1>9, <2>1, <3>2
  <2>2. CASE possible /\ done'[i].kind = job.kind /\ done'[i].note = job.note
    BY <1>9, <2>2
  <2> QED BY <1>8, <2>1, <2>2
<1>11. Others'
  BY <1>1, <1>2, <1>3, <1>4, <1>8, <1>9 DEF Others, spent
<1>12. Good(ui') /\ FreshTabsAreUnused' /\ DeferredFit' /\ UnsavedStep /\ ReadyToLeave'
  BY <1>1, StillUi
<1> QED BY <1>4, <1>10, <1>11, <1>12, IInvPartsPrime DEF GoodStep

\* A tab takes the revision that was read for it.
LEMMA RebasedGood ==
    ASSUME IInv, NEW r \in Read, IsOpen(ui, r.tab)
    PROVE  LET x == Rebased(ui, r) IN
           /\ Good(x) /\ Follows(ui, x) /\ KeepsUnsaved(ui, x) /\ SameRest(ui, x)
           /\ DirtyTabs(x) = DirtyTabs(ui) /\ x.registered = ui.registered
           /\ x.generation = ui.generation
           /\ \A s \in Tabs : x.tabs[s] = IF s # r.tab THEN ui.tabs[s]
                 ELSE [ui.tabs[s] EXCEPT !.path = r.path, !.rev = r.rev]
<1> DEFINE t == r.tab
           tab == [ui.tabs[t] EXCEPT !.path = r.path, !.rev = r.rev]
           f == [ui.tabs EXCEPT ![t] = tab]
           rs == {q \in ui.retrying : q.tab # t} \cup {[tab |-> t, crev |-> r.crev]}
           based == [ui EXCEPT !.tabs = f, !.retrying = rs]
<1>2. Good(ui) /\ ui \in Ui
  BY IInvParts DEF Good
<1>3. /\ t \in Tabs /\ r.path \in Paths /\ r.rev \in Revisions \cup {None}
      /\ r.crev \in Nat /\ ui.tabs[t] \in Tab
  BY <1>2, UiFields DEF Read
<1>a. based = Rebased(ui, r) /\ tab = [ui.tabs[r.tab] EXCEPT !.path = r.path, !.rev = r.rev]
  BY DEF Rebased
<1>b. IsOpen(ui, t)
  OBVIOUS
<1>c. t = r.tab
  OBVIOUS
<1> HIDE DEF t
<1>12. /\ tab \in Tab /\ tab.st = ui.tabs[t].st /\ tab.note = ui.tabs[t].note
       /\ tab.path = r.path /\ tab.dirty = ui.tabs[t].dirty
  <2> DEFINE old == ui.tabs[t]
  <2>1. old \in Tab
    BY <1>3
  <2> HIDE DEF old
  <2>2. LET w == [old EXCEPT !.path = r.path, !.rev = r.rev] IN
        /\ w \in Tab /\ w.st = old.st /\ w.note = old.note
        /\ w.path = r.path /\ w.dirty = old.dirty
    BY <1>3, <2>1 DEF Tab
  <2> QED BY <2>2 DEF old
<1> HIDE DEF tab
<1>13. f \in [Tabs -> Tab] /\ \A s \in Tabs : f[s] = IF s = t THEN tab ELSE ui.tabs[s]
  BY <1>2, <1>3, <1>12, UiFields
<1>14. rs \in SUBSET At
  <2>1. [tab |-> t, crev |-> r.crev] \in At
    BY <1>3 DEF At
  <2> QED BY <1>2, <2>1, UiFields
<1>15. based = [ui EXCEPT !.tabs = f, !.retrying = rs]
  OBVIOUS
<1> HIDE DEF f, rs
<1>16. /\ based \in Ui /\ based.tabs = f /\ based.registered = ui.registered
       /\ based.before = ui.before /\ based.preview = ui.preview /\ based.shown = ui.shown
       /\ SameRest(ui, based) /\ based.generation = ui.generation
  BY <1>2, <1>13, <1>14 DEF Ui, SameRest
<1> HIDE DEF based
<1>17. \A s \in Tabs : /\ f[s].st = ui.tabs[s].st /\ f[s].note = ui.tabs[s].note
                       /\ f[s].dirty = ui.tabs[s].dirty
                       /\ IF IsOpen(ui, s) THEN f[s].path # None ELSE ~f[s].dirty
                       /\ f[s].dirty => s # ui.preview
  <2> TAKE s \in Tabs
  <2>1. IF IsOpen(ui, s) THEN ui.tabs[s].path # None ELSE ~ui.tabs[s].dirty
    BY <1>2 DEF Good, OpenTabsAreBound
  <2>2. ui.tabs[s].dirty => s # ui.preview
    BY <1>2, <2>1 DEF Good, PreviewIsClean, DirtyTabs, IsDirty
  <2>3. r.path # None
    BY <1>3, Constants
  <2> QED BY <1>12, <1>13, <2>1, <2>2, <2>3
<1>18. Good(based) /\ Follows(ui, based) /\ KeepsUnsaved(ui, based)
  <2>1. ui.shown = ui.preview
    BY <1>2 DEF Good, Agree
  <2>2. /\ based.preview \in {ui.preview, 0} /\ based.shown = based.preview
        /\ \A s \in Tabs : f[s].dirty => s # based.preview
    BY <1>16, <1>17, <2>1
  <2> QED BY <1>2, <1>13, <1>16, <1>17, <2>2, RewrittenGood
<1>19. DirtyTabs(based) = DirtyTabs(ui)
  BY <1>16, <1>17 DEF DirtyTabs, IsDirty, IsOpen
<1> QED BY <1>a, <1>c, <1>13, <1>16, <1>18, <1>19

LEMMA RetrySaveStep ==
    ASSUME IInv, NEW r \in reads, RetrySave(r)
    PROVE  GoodStep
<1> DEFINE t == r.tab
           current == IsOpen(ui, t) /\ t \in Registered(ui) /\ ui.tabs[t].crev = r.crev
           based == Rebased(ui, r)
           x == Submitted(based, {t})
<1>1. /\ Idle /\ r.st = "read" /\ reads' = reads \ {r}
      /\ IF current THEN Becomes(x) /\ saves' = saves \cup Spawned(based, {t})
         ELSE UNCHANGED <<ui, saves>>
      /\ UNCHANGED <<outcomes, disk, worker, spent>>
  BY DEF RetrySave
<1>2. Good(ui) /\ Others /\ ui \in Ui
  BY IInvParts DEF Good
<1>3. /\ r \in Read /\ t \in Tabs /\ r.path \in Paths /\ r.rev \in Revisions \cup {None}
      /\ r.crev \in Nat /\ ui.tabs[t] \in Tab
  BY <1>2, UiFields DEF Others, Read
<1>4. CASE ~current
  <2>1. UNCHANGED <<ui, saves>>
    BY <1>1, <1>4
  <2>2. Others'
    BY <1>1, <1>2, <2>1 DEF Others, worker, spent
  <2>3. Good(ui') /\ FreshTabsAreUnused' /\ DeferredFit' /\ UnsavedStep /\ ReadyToLeave'
    BY <1>1, <2>1, StillUi
  <2>4. TrashedIsGone' /\ MovedStep
    BY <1>1, SameDone, SameJobs DEF worker
  <2> QED BY <2>2, <2>3, <2>4, IInvPartsPrime DEF GoodStep
<1>5. CASE current
  <2>1. IsOpen(ui, t) /\ Becomes(x) /\ saves' = saves \cup Spawned(based, {t})
    BY <1>1, <1>5
  <2> HIDE DEF t, current
  <2>8. /\ Good(based) /\ Follows(ui, based) /\ KeepsUnsaved(ui, based) /\ SameRest(ui, based)
        /\ DirtyTabs(based) = DirtyTabs(ui)
    BY <1>3, <2>1, RebasedGood DEF t
  <2> HIDE DEF based
  <2>10. Good(x) /\ SameTabs(based, x) /\ SameRest(based, x)
    BY <1>3, <2>8, SubmittedGood
  <2> HIDE DEF x
  <2>11. Follows(ui, x) /\ KeepsUnsaved(ui, x)
    BY <2>8, <2>10 DEF Follows, KeepsUnsaved, SameTabs, IsOpen
  <2>12. /\ saves' \in SUBSET Save /\ IsFiniteSet(saves')
         /\ \A s \in saves' : s.st = "saved" => s.rev # None
         /\ \A s \in saves' : \/ \E q \in saves : q.tab = s.tab
                              \/ ui.tabs[s.tab].st # "fresh"
    BY <2>1, <2>8, SpawnedOthers DEF Good
  <2>13. \A q \in reads' : \E z \in reads : z.tab = q.tab
    BY <1>1
  <2>14. Good(ui') /\ FreshTabsAreUnused' /\ DeferredFit' /\ UnsavedStep
    BY <2>1, <2>8, <2>10, <2>11, <2>12, <2>13, BecomesInv DEF SameRest
  <2>15. Others'
    BY <1>1, <1>2, <2>12 DEF Others, worker, spent
  <2>16. ReadyToLeave' /\ TrashedIsGone' /\ MovedStep
    BY <1>1, IdleReady, SameDone, SameJobs DEF worker
  <2> QED BY <2>14, <2>15, <2>16, IInvPartsPrime DEF GoodStep
<1> QED BY <1>4, <1>5

LEMMA SwitchBegunGood ==
    ASSUME IInv
    PROVE  LET x == SwitchBegun(ui) IN
           /\ Good(x) /\ SameTabs(ui, x) /\ SameRest(ui, x) /\ x.generation = ui.generation
<1> DEFINE dirty == DirtyTabs(ui) \cap Registered(ui)
           sw == {[tab |-> t, crev |-> ui.tabs[t].crev] : t \in dirty}
           begun == [ui EXCEPT !.switching = TRUE, !.switch = sw]
           x == Submitted(begun, dirty)
<1>2. Good(ui) /\ ui \in Ui
  BY IInvParts DEF Good
<1>a. x = SwitchBegun(ui)
  BY DEF SwitchBegun
<1>3. dirty \in SUBSET Tabs
  BY DEF DirtyTabs
<1> HIDE DEF dirty
<1>4. sw \in SUBSET At
  BY <1>2, <1>3, UiFields, TabFields DEF At
<1> HIDE DEF sw
<1>5. /\ begun \in Ui /\ SameTabs(ui, begun) /\ SameRest(ui, begun)
      /\ begun.generation = ui.generation
  BY <1>2, <1>4 DEF Ui, SameTabs, SameRest
<1> HIDE DEF begun
<1>6. Good(begun)
  BY <1>2, <1>5, SameGood
<1>7. /\ Good(x) /\ SameTabs(begun, x) /\ SameRest(begun, x)
      /\ x.generation = begun.generation
  BY <1>3, <1>6, SubmittedGood
<1> HIDE DEF x
<1> QED BY <1>5, <1>7, <1>a DEF SameTabs, SameRest

LEMMA SwitchStep ==
    ASSUME IInv, Switch
    PROVE  GoodStep
<1> DEFINE dirty == DirtyTabs(ui) \cap Registered(ui)
           x == SwitchBegun(ui)
<1>1. /\ Idle /\ requests < MaxRequests /\ requests' = requests + 1 /\ Becomes(x)
      /\ saves' = saves \cup Spawned(ui, dirty)
      /\ UNCHANGED <<outcomes, reads, disk, worker, texts, selects, faults>>
  BY DEF Switch
<1>2. Good(ui) /\ Others /\ ui \in Ui /\ OpenTabsAreBound(ui)
  BY IInvParts DEF Good
<1>7. Good(x) /\ SameTabs(ui, x) /\ SameRest(ui, x)
  BY SwitchBegunGood
<1> HIDE DEF x
<1>8. Follows(ui, x) /\ KeepsUnsaved(ui, x)
  BY <1>2, <1>7, SameFollows DEF SameTabs
<1>9. /\ saves' \in SUBSET Save /\ IsFiniteSet(saves')
      /\ \A s \in saves' : s.st = "saved" => s.rev # None
      /\ \A s \in saves' : \/ \E q \in saves : q.tab = s.tab
                           \/ ui.tabs[s.tab].st # "fresh"
  BY <1>1, <1>2, SpawnedOthers
<1>10. Good(ui') /\ FreshTabsAreUnused' /\ DeferredFit' /\ UnsavedStep
  BY <1>1, <1>7, <1>8, <1>9, BecomesInv DEF SameRest
<1>11. Others'
  <2>1. requests' \in 0..MaxRequests
    BY <1>1, <1>2, Constants DEF Others
  <2> QED BY <1>1, <1>2, <1>9, <2>1 DEF Others, worker
<1>12. ReadyToLeave' /\ TrashedIsGone' /\ MovedStep
  BY <1>1, IdleReady, SameDone, SameJobs DEF worker
<1> QED BY <1>10, <1>11, <1>12, IInvPartsPrime DEF GoodStep

\* The exit changes no tab.
LEMMA ExitStep ==
    ASSUME IInv, Exit
    PROVE  GoodStep
<1> DEFINE dirty == DirtyTabs(ui) \cap Registered(ui)
           x == Submitted(ui, dirty)
           y == [x EXCEPT !.stage = "exiting"]
<1>1. /\ Idle /\ ui' = y /\ saves' = saves \cup Spawned(ui, dirty)
      /\ UNCHANGED <<outcomes, reads, disk, worker, spent>>
  BY DEF Exit
<1>2. Good(ui) /\ Others /\ ui \in Ui /\ OpenTabsAreBound(ui)
  BY IInvParts DEF Good
<1>3. dirty \in SUBSET Tabs
  BY DEF DirtyTabs
<1> HIDE DEF dirty
<1>4. Good(x) /\ SameTabs(ui, x) /\ SameRest(ui, x)
  BY <1>2, <1>3, SubmittedGood
<1> HIDE DEF x
<1>5. y \in Ui /\ SameTabs(x, y) /\ y.conflict = x.conflict /\ y.deferred = x.deferred
  BY <1>4 DEF Good, Ui, SameTabs
<1>6. Good(y)
  BY <1>4, <1>5, SameGood
<1> HIDE DEF y
<1>7. Follows(ui, ui') /\ KeepsUnsaved(ui, ui') /\ ui' \in Ui /\ Good(ui')
  BY <1>1, <1>2, <1>4, <1>5, <1>6, SameFollows DEF SameTabs
<1>8. /\ saves' \in SUBSET Save /\ IsFiniteSet(saves')
      /\ \A s \in saves' : s.st = "saved" => s.rev # None
      /\ \A s \in saves' : \/ \E q \in saves : q.tab = s.tab
                           \/ ui.tabs[s.tab].st # "fresh"
  BY <1>1, <1>2, SpawnedOthers
<1>9. FreshTabsAreUnused' /\ DeferredFit'
  BY <1>1, <1>4, <1>5, <1>7, <1>8, FollowedInv DEF SameRest
<1>10. Others'
  BY <1>1, <1>2, <1>8 DEF Others, worker, spent
<1>11. ReadyToLeave' /\ TrashedIsGone' /\ MovedStep
  BY <1>1, IdleReady, SameDone, SameJobs DEF worker
<1> QED BY <1>7, <1>9, <1>10, <1>11, IInvPartsPrime DEF GoodStep, UnsavedStep, KeepsUnsaved

LEMMA ExitEndsStep ==
    ASSUME IInv, ExitEnds
    PROVE  GoodStep
<1> DEFINE ks == Snapshots(ui)
           y == [ui EXCEPT !.stage = "exited", !.kept = ks]
<1>1. /\ ui.phase = "idle" /\ ui' = y
      /\ UNCHANGED <<outcomes, threads, worker, spent>>
  BY DEF ExitEnds
<1>2. Good(ui) /\ Others /\ ui \in Ui /\ OpenTabsAreBound(ui) /\ ReadyToLeave
  BY IInvParts DEF Good
<1>3. ks \in SUBSET [note : Notes, text : Texts]
  <2>1. ASSUME NEW t \in DirtyTabs(ui)
        PROVE  ui.tabs[t].note \in Notes /\ ui.tabs[t].text \in Texts
    <3>1. t \in Tabs /\ ui.tabs[t] \in Tab /\ ui.tabs[t].note # None
      BY <1>2, UiFields DEF DirtyTabs, IsDirty, OpenTabsAreBound
    <3> QED BY <3>1, TabFields
  <2> QED BY <2>1 DEF Snapshots
<1> HIDE DEF ks
<1>4. y \in Ui /\ SameTabs(ui, y) /\ y.conflict = ui.conflict /\ y.deferred = ui.deferred
  BY <1>2, <1>3 DEF Ui, SameTabs
<1>5. Good(y)
  BY <1>2, <1>4, SameGood
<1> HIDE DEF y
<1>6. Follows(ui, ui') /\ KeepsUnsaved(ui, ui') /\ ui' \in Ui /\ Good(ui')
  BY <1>1, <1>2, <1>4, <1>5, SameFollows DEF SameTabs
<1>7. FreshTabsAreUnused' /\ DeferredFit'
  BY <1>1, <1>4, <1>6, FollowedInv DEF threads
<1>8. Others'
  BY <1>1, <1>2 DEF Others, threads, worker, spent
<1>9. ReadyToLeave' /\ TrashedIsGone' /\ MovedStep
  <2>1. outcomes = <<>>
    BY <1>1, <1>2 DEF ReadyToLeave
  <2> QED BY <1>1, <2>1, SameDone, SameJobs DEF worker, ReadyToLeave
<1> QED BY <1>6, <1>7, <1>8, <1>9, IInvPartsPrime DEF GoodStep, UnsavedStep, KeepsUnsaved

\* A completion is drained: what it lets go is the move of a note that has become clean.
LEMMA DrainStep ==
    ASSUME IInv, NEW s \in saves, DrainSave(s)
    PROVE  GoodStep
<1> DEFINE x == Finished(ui, s)
           y == [x EXCEPT !.phase = "draining"]
           o == OutcomeOf(ui, s)
<1>1. /\ saves' = saves \ {s} /\ ui' = y /\ outcomes' = Append(outcomes, o)
      /\ UNCHANGED <<reads, disk, worker, spent>>
  BY DEF DrainSave
<1>2. /\ Good(ui) /\ Others /\ ui \in Ui /\ ReadyToLeave /\ DeferredFit
      /\ s \in Save /\ (s.st = "saved" => s.rev # None)
  BY IInvParts DEF Good, Others
<1>3. /\ Good(x) /\ Follows(ui, x) /\ KeepsUnsaved(ui, x) /\ DirtyTabs(x) \subseteq DirtyTabs(ui)
      /\ x.tabs = Acknowledged(ui, s).tabs
      /\ x.deferred = ui.deferred \ Waiting(ui, s) /\ x.conflict \subseteq ui.conflict \cup {s.tab}
  BY <1>2, FinishedGood
<1> HIDE DEF x
<1>4. y \in Ui /\ SameTabs(x, y) /\ y.conflict = x.conflict /\ y.deferred = x.deferred
      /\ y.phase = "draining"
  BY <1>3 DEF Good, Ui, SameTabs
<1>5. Good(y)
  BY <1>3, <1>4, SameGood
<1> HIDE DEF y
<1>6. /\ Follows(ui, ui') /\ KeepsUnsaved(ui, ui') /\ ui' \in Ui /\ Good(ui')
      /\ DirtyTabs(ui') \subseteq DirtyTabs(ui)
  BY <1>1, <1>3, <1>4, <1>5
     DEF SameTabs, Good, Follows, KeepsUnsaved, DirtyTabs, IsDirty, IsOpen
<1>7. s.tab \in Tabs /\ ui.tabs[s.tab].st # "fresh"
  <2>1. s.tab \in Tabs
    BY <1>2 DEF Save
  <2>2. s.tab \notin FreshTabs(ui)
    BY IInvParts DEF FreshTabsAreUnused
  <2> QED BY <2>1, <2>2 DEF FreshTabs
<1>8. FreshTabsAreUnused' /\ DeferredFit'
  BY <1>1, <1>3, <1>4, <1>6, <1>7, FollowedInv
<1>9. /\ o \in [send : Seq(Job), again : Seq(Job)]
      /\ \A k \in DOMAIN o.send : \E d \in Waiting(ui, s) : d.job = o.send[k]
      /\ o.send # <<>> => Ready(Acknowledged(ui, s), s)
      /\ \A k \in DOMAIN o.again :
            k = 1 /\ \E d \in Waiting(ui, s) : d.job = o.again[k] /\ d.job.kind = "title"
  BY <1>2, OutcomeType
<1> HIDE DEF o
<1>10. Others'
  <2>1. saves' \in SUBSET Save /\ IsFiniteSet(saves')
    BY <1>1, <1>2, FS_RemoveElement DEF Others
  <2>2. outcomes' \in Seq([send : Seq(Job), again : Seq(Job)])
    BY <1>1, <1>2, <1>9 DEF Others
  <2> QED BY <1>1, <1>2, <2>1, <2>2 DEF Others, worker, spent
<1>11. \A n : DirtyTabsOf(ui', n) \subseteq DirtyTabsOf(ui, n)
  <2> SUFFICES ASSUME NEW n, NEW t \in DirtyTabsOf(ui', n) PROVE t \in DirtyTabsOf(ui, n)
    OBVIOUS
  <2>1. t \in DirtyTabs(ui) /\ t \in Tabs /\ IsOpen(ui', t) /\ ui'.tabs[t].note = n
    BY <1>6 DEF DirtyTabsOf, DirtyTabs, TabsOf, IsDirty
  <2>2. IsOpen(ui, t) /\ ui.tabs[t].st # "fresh"
    BY <2>1 DEF DirtyTabs, IsDirty, IsOpen
  <2>3. ui.tabs[t].note = n
    BY <1>6, <2>1, <2>2 DEF Follows
  <2> QED BY <1>2, <2>1, <2>2, <2>3 DEF DirtyTabsOf, TabsOf, Good, Agree
<1>12. \A d \in Waiting(ui, s) : /\ d.job.kind \in Relocations /\ d.job.to \in Targets(d.job.kind)
                                 /\ IsOpen(ui, s.tab) => ui.tabs[s.tab].note = d.job.note
  BY <1>2 DEF Waiting, DeferredFit
<1>13. ASSUME NEW k \in DOMAIN o.send
       PROVE  /\ o.send[k].kind \in Relocations /\ o.send[k].to \in Targets(o.send[k].kind)
              /\ DirtyTabsOf(ui', o.send[k].note) = {}
  <2>1. PICK d \in Waiting(ui, s) : d.job = o.send[k]
    BY <1>9
  <2>2. o.send # <<>>
    <3>1. DOMAIN <<>> = {}
      OBVIOUS
    <3> QED BY <3>1
  <2>3. Ready(Acknowledged(ui, s), s)
    BY <1>9, <2>2
  <2>4. IsOpen(ui', s.tab) /\ ~ui'.tabs[s.tab].dirty
    BY <1>1, <1>3, <1>4, <2>3 DEF Ready, IsOpen, SameTabs
  <2>5. IsOpen(ui, s.tab) /\ ui'.tabs[s.tab].note = ui.tabs[s.tab].note
    BY <1>6, <1>7, <2>4 DEF Follows
  <2>6. ui'.tabs[s.tab].note = d.job.note
    BY <1>12, <2>5
  <2>7. ASSUME NEW t \in DirtyTabsOf(ui', d.job.note) PROVE FALSE
    <3>1. t \in Registered(ui') /\ ui'.tabs[t].note = d.job.note /\ ui'.tabs[t].dirty
      BY DEF DirtyTabsOf, TabsOf, DirtyTabs, IsDirty
    <3>2. s.tab \in Registered(ui')
      BY <1>6, <1>7, <2>4 DEF Good, Agree
    <3>3. t = s.tab
      BY <1>6, <2>6, <3>1, <3>2 DEF Good, Agree
    <3> QED BY <2>4, <3>1, <3>3
  <2> QED BY <1>12, <2>1, <2>7
<1>14. \A k \in DOMAIN o.again : k = 1 /\ o.again[k].kind = "title" /\ o.again[k].to \in Paths
  BY <1>9, <1>12 DEF Targets
<1>15. ReadyToLeave'
  <2>1. ui'.phase # "idle"
    BY <1>1, <1>4
  <2>2. outcomes \in Seq([send : Seq(Job), again : Seq(Job)])
    BY <1>2 DEF Others
  <2>3. ASSUME NEW i \in DOMAIN outcomes'
        PROVE  \/ i \in DOMAIN outcomes /\ outcomes'[i] = outcomes[i]
               \/ outcomes'[i] = o
    BY <1>1, <1>9, <2>2, AppendedElements
  <2>4. ASSUME NEW i \in DOMAIN outcomes'
        PROVE  /\ \A k \in DOMAIN outcomes'[i].again :
                     /\ k = 1 /\ outcomes'[i].again[k].kind = "title"
                     /\ outcomes'[i].again[k].to \in Paths
               /\ \A k \in DOMAIN outcomes'[i].send :
                     LET job == outcomes'[i].send[k] IN
                     /\ job.kind \in Relocations /\ job.to \in Targets(job.kind)
                     /\ DirtyTabsOf(ui', job.note) = {}
    <3>1. CASE i \in DOMAIN outcomes /\ outcomes'[i] = outcomes[i]
      <4>1. \A n : DirtyTabsOf(ui, n) = {} => DirtyTabsOf(ui', n) = {}
        BY <1>11
      <4> QED BY <1>2, <3>1, <4>1 DEF ReadyToLeave
    <3>2. CASE outcomes'[i] = o
      BY <1>13, <1>14, <3>2
    <3> QED BY <2>3, <3>1, <3>2
  <2> QED BY <2>1, <2>4 DEF ReadyToLeave
<1>16. TrashedIsGone' /\ MovedStep
  BY <1>1, SameDone, SameJobs DEF worker
<1> QED BY <1>6, <1>8, <1>10, <1>15, <1>16, IInvPartsPrime DEF GoodStep, UnsavedStep, KeepsUnsaved

-----------------------------------------------------------------------------
(* The theorems *)

LEMMA InitInv == Init => IInv
<1> SUFFICES ASSUME Init PROVE IInv
  OBVIOUS
<1>1. \A t \in Tabs : ui.tabs[t] = NoTab
  BY DEF Init
<1>2. ui \in Ui
  <2>1. [t \in Tabs |-> NoTab] \in [Tabs -> Tab] /\ [t \in Tabs |-> NoAuto] \in [Tabs -> AutoState]
    BY NewTabs
  <2> QED BY <2>1 DEF Init, Ui
<1>3. Good(ui)
  <2>1. \A t \in Tabs : ~IsOpen(ui, t) /\ ~ui.tabs[t].dirty
    BY <1>1, NewTabs DEF IsOpen
  <2>2. /\ ui.registered = {} /\ ui.preview = 0 /\ ui.shown = 0
    BY DEF Init
  <2> QED BY <1>2, <2>1, <2>2
          DEF Good, OpenTabsAreBound, Agree, Registered, PreviewIsClean, DirtyTabs, IsDirty
<1>4. Others
  <2>1. disk \in [Paths -> Revisions \cup {None}]
    <3>1. ASSUME NEW p \in Paths
          PROVE  (IF \E n \in Notes : p = Home[n]
                  THEN Revision(CHOOSE n \in Notes : p = Home[n], 0, "own", 0) ELSE None)
                 \in Revisions \cup {None}
      <4>1. CASE \E n \in Notes : p = Home[n]
        <5> DEFINE n == CHOOSE m \in Notes : p = Home[m]
        <5>1. n \in Notes
          BY <4>1
        <5> HIDE DEF n
        <5>2. Revision(n, 0, "own", 0) \in Revisions
          BY <5>1, Constants DEF Revision, Revisions, Texts
        <5> QED BY <4>1, <5>2 DEF n
      <4>2. CASE ~\E n \in Notes : p = Home[n]
        BY <4>2
      <4> QED BY <4>1, <4>2
    <3> QED BY <3>1 DEF Init
  <2>2. where \in [Notes -> Paths \cup {None}] /\ bin \in [Notes -> Revisions \cup {None}]
    BY Constants DEF Init
  <2>3. /\ saves = {} /\ reads = {} /\ outcomes = <<>> /\ jobs = <<>> /\ done = <<>>
        /\ texts = 0 /\ requests = 0 /\ selects = 0 /\ faults = 0
    BY DEF Init
  <2>4. /\ texts \in Texts /\ requests \in 0..MaxRequests /\ selects \in 0..MaxSelects
        /\ faults \in 0..MaxFaults
    BY <2>3, Constants DEF Texts
  <2>5. IsFiniteSet(saves)
    BY <2>3, FS_EmptySet
  <2> QED BY <2>1, <2>2, <2>3, <2>4, <2>5 DEF Others
<1>5. FreshTabsAreUnused /\ DeferredFit /\ ReadyToLeave /\ TrashedIsGone
  BY DEF Init, FreshTabsAreUnused, DeferredFit, ReadyToLeave, TrashedIsGone
<1> QED BY <1>3, <1>4, <1>5, IInvParts

LEMMA NextStep == IInv /\ Next => GoodStep
<1> SUFFICES ASSUME IInv, Next PROVE GoodStep
  OBVIOUS
<1>1. ASSUME NEW t \in Tabs, Edit(t) \/ SaveNow(t) \/ Retry(t) PROVE GoodStep
  BY <1>1, EditStep, SaveNowStep, RetryStep
<1>2. ASSUME NEW n \in Notes, Select(n) PROVE GoodStep
  BY <1>2, SelectStep
<1>3. ASSUME NEW n \in Notes, RequestRelocation(n, "trash", None) PROVE GoodStep
  BY <1>3, RelocationStep DEF Relocations, Targets
<1>4. ASSUME NEW n \in Notes, NEW p \in Paths, NEW kind \in {"move", "title"},
             RequestRelocation(n, kind, p)
      PROVE  GoodStep
  <2>1. kind \in Relocations /\ p \in Targets(kind)
    BY DEF Relocations, Targets
  <2> QED BY <1>4, <2>1, RelocationStep
<1>5. User => GoodStep
  BY <1>1, <1>2, <1>3, <1>4, SwitchStep, ExitStep DEF User
<1>6. System => GoodStep
  BY DueStep, SaveEndsStep, DrainStep, CaptureStep, RetrySaveStep, ApplyStep, WorkStep,
     TakeLoadedStep, TakeTrashedStep, TakeMovedStep, ExitEndsStep DEF System
<1>7. ASSUME NEW p \in Paths, OutsideWrite(p) PROVE GoodStep
  BY <1>7, OutsideWriteStep
<1> QED BY <1>5, <1>6, <1>7 DEF Next

LEMMA Stutter == IInv /\ UNCHANGED vars => GoodStep
<1> SUFFICES ASSUME IInv, UNCHANGED vars PROVE GoodStep
  OBVIOUS
<1>1. UNCHANGED <<ui, outcomes, saves, reads, disk, jobs, done, where, bin, texts, requests,
                  selects, faults>>
  BY DEF vars, threads, worker, spent
<1>2. Good(ui') /\ FreshTabsAreUnused' /\ DeferredFit' /\ UnsavedStep /\ ReadyToLeave'
  BY <1>1, StillUi
<1>3. TrashedIsGone' /\ MovedStep
  BY <1>1, SameDone, SameJobs
<1>4. Others'
  BY <1>1, IInvParts DEF Others
<1> QED BY <1>2, <1>3, <1>4, IInvPartsPrime DEF GoodStep

\* The variables keep their types, the registry and the editor agree, moves wait for the save of
\* their own note, and answers about the trash come after the note is there.
THEOREM InductiveInvariant == Spec => []IInv
<1>1. Init => IInv
  BY InitInv
<1>2. IInv /\ [Next]_vars => IInv'
  BY NextStep, Stutter DEF GoodStep
<1> QED BY <1>1, <1>2, PTL DEF Spec

\* A note has one tab, and the registry and the editor know the same tabs.
THEOREM OneTab == Spec => []OneTabPerNote
<1>1. IInv => OneTabPerNote
  BY DEF IInv
<1> QED BY <1>1, InductiveInvariant, PTL

\* No note leaves its place while a tab of it holds unsaved text.
THEOREM MovesLeaveClean == Spec => MovedWithItsText
<1>1. IInv /\ [Next]_vars =>
      [\A i \in DOMAIN jobs' \ DOMAIN jobs : jobs'[i].kind # "load" =>
           DirtyTabsOf(ui, jobs'[i].note) = {}]_<<ui, jobs>>
  BY NextStep, Stutter DEF GoodStep, MovedStep
<1> QED BY <1>1, InductiveInvariant, PTL DEF Spec, MovedWithItsText

\* Unsaved text leaves the editor only with the note or the workspace.
THEOREM UnsavedTextStays == Spec => UnsavedStaysOpen
<1>1. IInv /\ [Next]_vars =>
      [\A t \in DirtyTabs(ui) : IsOpen(ui', t) \/ where[ui.tabs[t].note] = None
                                \/ ui'.stage = "switched"]_ui
  BY NextStep, Stutter DEF GoodStep, UnsavedStep
<1> QED BY <1>1, InductiveInvariant, PTL DEF Spec, UnsavedStaysOpen
=============================================================================
