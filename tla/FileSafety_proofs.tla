-------------------------- MODULE FileSafety_proofs --------------------------
(***************************************************************************)
(* Proofs about the save and external-change pipeline, for any number of   *)
(* tabs, files, requests and outside events.                               *)
(***************************************************************************)
EXTENDS FileSafetyProps, SequenceTheorems, WellFoundedInduction, NaturalsInduction, TLAPS

-----------------------------------------------------------------------------
(* What the constructors of the model build *)

\* A revision that is on disk is a DiskRevision, not None.
LEMMA RevisionIsSome == ASSUME NEW r \in MaybeRev, r # None PROVE r \in Revisions
BY DEF MaybeRev

\* OwnRevision and OutsideRevision build revisions, whatever they replace.
LEMMA NewRevisions ==
    ASSUME nextRev \in Nat, NEW data \in Nat
    PROVE  /\ \A t \in Tabs \cup {None}, old \in MaybeRev : OwnRevision(t, data, old) \in Revisions
           /\ OutsideRevision(data) \in Revisions
<1>1. \A old \in MaybeRev : Lineage(old) \in SUBSET Nat
  BY DEF Lineage, MaybeRev, Revisions
<1> QED
  BY <1>1 DEF OwnRevision, OutsideRevision, Revisions

\* from_external_content and from_file build a document.
LEMMA LoadedDocumentType ==
    ASSUME TypeOK, NEW p \in Paths, NEW data \in Nat
    PROVE  LoadedDocument(p, data) \in Documents
<1>1. disk[p] \in MaybeRev
  BY DEF TypeOK
<1> QED
  BY <1>1 DEF LoadedDocument, Documents, MaybePath

\* Every command the UI thread sends has the shape the worker expects.
LEMMA CommandTypes ==
    ASSUME TypeOK, NEW p \in Paths
    PROVE  /\ TrackCommand(p) \in Commands
           /\ \A rev \in MaybeRev : AckCommand(p, rev) \in Commands
           /\ \A t \in Tabs : SaveCommand(t, p) \in Commands
           /\ \A t \in Tabs, id \in RequestIds, op \in {"observe", "reconcile"} :
                 SnapshotCommand(op, t, p, id) \in Commands
<1>1. \A t \in Tabs : docs[t] \in Documents
  BY DEF TypeOK
<1>2. None \in MaybeRev
  BY DEF MaybeRev
<1>3. TrackCommand(p) \in Commands
  BY <1>2 DEF TrackCommand, NoCommand, Commands, CommandRecords
<1>4. ASSUME NEW rev \in MaybeRev PROVE AckCommand(p, rev) \in Commands
  BY DEF AckCommand, NoCommand, Commands, CommandRecords
<1>5. ASSUME NEW t \in Tabs PROVE SaveCommand(t, p) \in Commands
  BY <1>1, <1>2 DEF SaveCommand, Commands, CommandRecords, Documents
<1>6. ASSUME NEW t \in Tabs, NEW id \in RequestIds, NEW op \in {"observe", "reconcile"}
      PROVE  SnapshotCommand(op, t, p, id) \in Commands
  BY <1>1, ConstantsAssumption DEF SnapshotCommand, Commands, CommandRecords, Documents
<1> QED
  BY <1>3, <1>4, <1>5, <1>6

\* The entries the monitor stores.
LEMMA EntryTypes ==
    /\ Untracked \in Entries
    /\ \A rev \in MaybeRev : Observed(rev) \in Entries
    /\ \A rev \in MaybeRev, preds \in Seq(Revisions) : Saved(rev, preds) \in Entries
BY DEF Untracked, Observed, Saved, Entries, MaybeRev

\* confirm_save stores an entry.
LEMMA ConfirmedEntryType ==
    ASSUME NEW previous \in Entries, NEW rev \in MaybeRev, NEW baseline \in MaybeRev
    PROVE  ConfirmedEntry(previous, rev, baseline) \in Entries
<1> DEFINE kept == IF previous.kind = "saved" /\ previous.rev = baseline
                   THEN previous.preds ELSE <<>>
<1>1. kept \in Seq(Revisions)
  BY DEF Entries
<1>2. baseline # None => Append(kept, baseline) \in Seq(Revisions)
  BY <1>1, RevisionIsSome
<1> HIDE DEF kept
<1>3. ConfirmedEntry(previous, rev, baseline)
        = Saved(rev, IF baseline = None THEN kept ELSE Append(kept, baseline))
  BY DEF ConfirmedEntry, kept
<1> QED
  BY <1>1, <1>2, <1>3, EntryTypes

\* What appending, concatenating and taking the head do to the elements of a sequence.
LEMMA ElementsOf ==
    ASSUME NEW S, NEW s \in Seq(S)
    PROVE  /\ ToSet(s) \subseteq S
           /\ \A x : ToSet(Append(s, x)) = ToSet(s) \cup {x}
           /\ \A r \in Seq(S) : ToSet(s \o r) = ToSet(s) \cup ToSet(r)
           /\ s # <<>> => ToSet(s) = {Head(s)} \cup ToSet(Tail(s))
<1>1. DOMAIN s = 1..Len(s) /\ Len(s) \in Nat /\ \A i \in 1..Len(s) : s[i] \in S
  OBVIOUS
<1>2. ASSUME NEW x PROVE ToSet(Append(s, x)) = ToSet(s) \cup {x}
  <2> DEFINE a == Append(s, x)
  <2>1. DOMAIN a = 1..(Len(s) + 1) /\ a[Len(s) + 1] = x /\ \A i \in 1..Len(s) : a[i] = s[i]
    OBVIOUS
  <2>2. 1..(Len(s) + 1) = (1..Len(s)) \cup {Len(s) + 1}
    BY <1>1
  <2> QED
    BY <1>1, <2>1, <2>2 DEF ToSet
<1>3. ASSUME NEW r \in Seq(S) PROVE ToSet(s \o r) = ToSet(s) \cup ToSet(r)
  <2> DEFINE a == s \o r
  <2>1. DOMAIN r = 1..Len(r) /\ Len(r) \in Nat
    OBVIOUS
  <2>2. /\ DOMAIN a = 1..(Len(s) + Len(r))
        /\ \A i \in 1..Len(s) : a[i] = s[i]
        /\ \A i \in 1..Len(r) : a[Len(s) + i] = r[i]
    BY <1>1, <2>1, ConcatProperties, LenProperties
  <2>3. \A i \in 1..(Len(s) + Len(r)) : i \in 1..Len(s) \/ \E j \in 1..Len(r) : i = Len(s) + j
    <3>1. \A i \in 1..(Len(s) + Len(r)) : i \in 1..Len(s) \/ (i - Len(s) \in 1..Len(r) /\ i = Len(s) + (i - Len(s)))
      BY <1>1, <2>1
    <3> QED
      BY <3>1
  <2>4. /\ \A i \in 1..Len(s) : i \in 1..(Len(s) + Len(r))
        /\ \A i \in 1..Len(r) : Len(s) + i \in 1..(Len(s) + Len(r))
    BY <1>1, <2>1
  <2> HIDE DEF a
  <2>5. ToSet(a) \subseteq ToSet(s) \cup ToSet(r)
    <3>1. ASSUME NEW i \in 1..(Len(s) + Len(r)) PROVE a[i] \in ToSet(s) \cup ToSet(r)
      <4>1. CASE i \in 1..Len(s)
        BY <1>1, <2>2, <4>1 DEF ToSet
      <4>2. ASSUME NEW j \in 1..Len(r), i = Len(s) + j PROVE a[i] \in ToSet(r)
        BY <2>1, <2>2, <4>2 DEF ToSet
      <4> QED
        BY <2>3, <4>1, <4>2
    <3> QED
      BY <2>2, <3>1 DEF ToSet
  <2>6. ToSet(s) \cup ToSet(r) \subseteq ToSet(a)
    BY <1>1, <2>1, <2>2, <2>4 DEF ToSet
  <2> QED
    BY <2>5, <2>6 DEF a
<1>4. ASSUME s # <<>> PROVE ToSet(s) = {Head(s)} \cup ToSet(Tail(s))
  <2> DEFINE r == Tail(s)
  <2>1. Head(s) = s[1] /\ Len(s) >= 1 /\ DOMAIN r = 1..(Len(s) - 1)
        /\ \A i \in 1..(Len(s) - 1) : r[i] = s[i + 1]
    BY <1>1, <1>4
  <2>2. \A i \in 1..Len(s) : i = 1 \/ \E j \in 1..(Len(s) - 1) : i = j + 1
    <3>1. \A i \in 1..Len(s) : i = 1 \/ (i - 1 \in 1..(Len(s) - 1) /\ i = (i - 1) + 1)
      BY <1>1
    <3> QED
      BY <3>1
  <2>3. 1 \in 1..Len(s) /\ \A j \in 1..(Len(s) - 1) : j + 1 \in 1..Len(s)
    BY <1>1, <2>1
  <2> HIDE DEF r
  <2>4. ToSet(s) \subseteq {Head(s)} \cup ToSet(r)
    <3>1. ASSUME NEW i \in 1..Len(s) PROVE s[i] \in {Head(s)} \cup ToSet(r)
      <4>1. ASSUME NEW j \in 1..(Len(s) - 1), i = j + 1 PROVE s[i] \in ToSet(r)
        BY <2>1, <4>1 DEF ToSet
      <4> QED
        BY <2>1, <2>2, <4>1
    <3> QED
      BY <1>1, <3>1 DEF ToSet
  <2>5. {Head(s)} \cup ToSet(r) \subseteq ToSet(s)
    BY <1>1, <2>1, <2>3 DEF ToSet
  <2> QED
    BY <2>4, <2>5 DEF r
<1>5. ToSet(s) \subseteq S
  BY <1>1 DEF ToSet
<1> QED
  BY <1>2, <1>3, <1>4, <1>5

\* Of the positions of x in a sequence one is the first.
LEMMA FirstPosition ==
    ASSUME NEW S, NEW s \in Seq(S), NEW x, Contains(s, x)
    PROVE  \E i \in DOMAIN s : s[i] = x /\ \A j \in 1..(i - 1) : s[j] # x
<1> DEFINE At == {i \in DOMAIN s : s[i] = x}
<1>1. At \subseteq Nat /\ At # {} /\ DOMAIN s = 1..Len(s) /\ Len(s) \in Nat
  BY DEF Contains
<1> DEFINE Less == OpToRel(<, Nat)
<1>a. IsWellFoundedOn(Less, Nat)
  BY NatLessThanWellFounded
<1>b. \A i, j \in Nat : j < i => <<j, i>> \in Less
  BY DEF OpToRel
<1> HIDE DEF Less, At
<1>2. PICK i \in At : \A j \in At : <<j, i>> \notin Less
  BY <1>1, <1>a, WFMin
<1>3. \A j \in At : ~(j < i)
  BY <1>1, <1>b, <1>2
<1>4. \A j \in 1..(i - 1) : s[j] # x
  BY <1>1, <1>3 DEF At
<1> QED
  BY <1>1, <1>4 DEF At

\* acknowledge_save stores an entry, and keeps the saved revision and a part of its
\* predecessors.
LEMMA AcknowledgedEntryType ==
    ASSUME NEW entry \in Entries, NEW rev
    PROVE  LET new == AcknowledgedEntry(entry, rev)
           IN  /\ new \in Entries
               /\ new.kind = entry.kind
               /\ new.kind = "saved" =>
                    /\ new.rev = entry.rev
                    /\ \A i \in DOMAIN new.preds : \E j \in DOMAIN entry.preds :
                          new.preds[i] = entry.preds[j]
<1> DEFINE s == entry.preds
<1>0. s \in Seq(Revisions) /\ entry.rev \in MaybeRev
  BY DEF Entries
<1>1. CASE entry.kind # "saved"
  BY <1>1 DEF AcknowledgedEntry
<1>2. CASE entry.kind = "saved" /\ entry.rev = rev
  <2>1. AcknowledgedEntry(entry, rev) = Saved(entry.rev, <<>>)
    BY <1>2 DEF AcknowledgedEntry
  <2>2. <<>> \in Seq(Revisions) /\ DOMAIN <<>> = {}
    OBVIOUS
  <2> QED
    <3>1. Saved(entry.rev, <<>>) \in Entries
      BY <1>0, <2>2, EntryTypes
    <3>2. /\ Saved(entry.rev, <<>>).kind = "saved"
          /\ Saved(entry.rev, <<>>).rev = entry.rev
          /\ Saved(entry.rev, <<>>).preds = <<>>
      BY DEF Saved
    <3> QED
      BY <1>2, <2>1, <2>2, <3>1, <3>2
<1>3. CASE entry.kind = "saved" /\ entry.rev # rev /\ ~Contains(s, rev)
  BY <1>3 DEF AcknowledgedEntry
<1>4. CASE entry.kind = "saved" /\ entry.rev # rev /\ Contains(s, rev)
  <2> DEFINE First(i) == s[i] = rev /\ \A j \in 1..(i - 1) : s[j] # rev
             first == CHOOSE i \in DOMAIN s : First(i)
             rest == SubSeq(s, first, Len(s))
  <2>1. first \in DOMAIN s
    BY <1>0, <1>4, FirstPosition
  <2>2. AcknowledgedEntry(entry, rev) = Saved(entry.rev, rest)
    BY <1>4 DEF AcknowledgedEntry
  <2> HIDE DEF first
  <2>3. DOMAIN s = 1..Len(s) /\ Len(s) \in Nat /\ first \in Int
    BY <1>0, <2>1
  <2>4. \A i \in first..Len(s) : s[i] \in Revisions
    BY <1>0, <2>1, <2>3
  <2>5. /\ rest \in Seq(Revisions)
        /\ Len(rest) = Len(s) - first + 1
        /\ \A i \in 1..(Len(s) - first + 1) : rest[i] = s[first + i - 1]
    BY <2>1, <2>3, <2>4, SubSeqProperties
  <2> HIDE DEF rest
  <2>6. \A i \in DOMAIN rest : first + i - 1 \in DOMAIN s /\ rest[i] = s[first + i - 1]
    <3>1. DOMAIN rest = 1..(Len(s) - first + 1)
      BY <2>5, LenProperties
    <3> QED
      BY <2>1, <2>3, <2>5, <3>1
  <2> QED
    BY <1>0, <1>4, <2>2, <2>5, <2>6, EntryTypes DEF Saved
<1> QED
  BY <1>1, <1>2, <1>3, <1>4

-----------------------------------------------------------------------------
(* Type correctness, one lemma per actor *)

\* forget_tab leaves the session's three maps well formed.
LEMMA ForgetTabTypes ==
    ASSUME TypeOK, NEW t \in Tabs, ForgetTab(t)
    PROVE  /\ tracked' \in [Tabs -> MaybePath]
           /\ pathTab' \in [Paths -> Tabs \cup {None}]
           /\ pending' \in [RequestIds -> Requests \cup {None}]
BY DEF ForgetTab, TypeOK, MaybePath

\* The user's actions change documents and append well-formed save commands.
LEMMA UserTypes == ASSUME TypeOK, User PROVE TypeOK'
<1> USE DEF session, phase, spent, ui
<1>1. ASSUME NEW t \in Tabs, Edit(t) PROVE TypeOK'
  <2>0. docs[t] \in Documents /\ docs[t].crev + 1 \in Nat /\ nextData \in Nat
    BY DEF TypeOK, Documents
  <2>1. [docs[t] EXCEPT !.data = nextData, !.crev = @ + 1, !.dirty = TRUE] \in Documents
    BY <2>0 DEF Documents
  <2>2. docs' \in [Tabs -> Documents] /\ nextData' \in Nat
    BY <1>1, <2>1 DEF Edit, TypeOK
  <2> QED
    BY <1>1, <2>2 DEF Edit, TypeOK
<1>2. ASSUME NEW t \in Tabs, Undo(t) PROVE TypeOK'
  <2>0. docs[t] \in Documents /\ docs[t].crev + 1 \in Nat
    BY DEF TypeOK, Documents
  <2>1. [docs[t] EXCEPT !.data = docs[t].clean, !.crev = @ + 1, !.dirty = FALSE] \in Documents
    BY <2>0 DEF Documents
  <2>2. docs' \in [Tabs -> Documents]
    BY <1>2, <2>1 DEF Undo, TypeOK
  <2> QED
    BY <1>2, <2>2 DEF Undo, TypeOK
<1>3. ASSUME NEW t \in Tabs, NEW p \in Paths, SubmitSave(t, p), pendingClose' \subseteq Tabs
      PROVE  TypeOK'
  <2>1. queue' \in Seq(Commands) /\ saves' \in Nat
    BY <1>3, CommandTypes DEF SubmitSave, TypeOK
  <2> QED
    BY <1>3, <2>1 DEF SubmitSave, TypeOK
<1>4. ASSUME NEW t \in Tabs, docs[t].path # None PROVE docs[t].path \in Paths
  BY <1>4 DEF TypeOK, Documents, MaybePath
<1>5. ASSUME NEW t \in Tabs, Save(t) PROVE TypeOK'
  BY <1>3, <1>4, <1>5 DEF Save, TypeOK
<1>6. ASSUME NEW t \in Tabs, NEW p \in Paths, SaveAs(t, p) PROVE TypeOK'
  BY <1>3, <1>6 DEF SaveAs, TypeOK
<1>7. ASSUME NEW t \in Tabs, SaveBeforeClose(t) PROVE TypeOK'
  BY <1>3, <1>4, <1>7 DEF SaveBeforeClose, TypeOK
<1>8. ASSUME NEW t \in Tabs, Close(t) PROVE TypeOK'
  <2>1. [docs[t] EXCEPT !.st = "closed"] \in Documents
    BY DEF TypeOK, Documents
  <2>2. docs' \in [Tabs -> Documents]
    BY <1>8, <2>1 DEF Close, TypeOK
  <2> QED
    BY <1>8, <2>2, ForgetTabTypes DEF Close, TypeOK
<1>9. ASSUME NEW t \in Tabs, NEW p \in Paths, OpenFile(t, p) PROVE TypeOK'
  <2>1. disk[p].data \in Nat
    BY <1>9, RevisionIsSome DEF OpenFile, TypeOK, Revisions
  <2>2. docs' \in [Tabs -> Documents]
    BY <1>9, <2>1, LoadedDocumentType DEF OpenFile, TypeOK
  <2> QED
    BY <1>9, <2>2 DEF OpenFile, TypeOK
<1> QED
  BY <1>1, <1>2, <1>5, <1>6, <1>7, <1>8, <1>9 DEF User

\* A round of checks sends well-formed commands about files.
LEMMA RoundTypes ==
    ASSUME TypeOK, RoundOnFiles, SubmitChecks \/ \E t \in Tabs : SubmitCandidate(t)
    PROVE  TypeOK'
<1> USE DEF session, phase, spent, ui
<1>1. ASSUME SubmitChecks PROVE TypeOK'
  BY <1>1 DEF SubmitChecks, Candidates, TypeOK
<1>2. ASSUME NEW t \in Tabs, SubmitCandidate(t) PROVE TypeOK'
  <2> DEFINE p == docs[t].path
             ids == [tab : Tabs, crev : Nat, dirty : BOOLEAN]
  <2>1. p \in Paths
    BY <1>2 DEF SubmitCandidate, RoundOnFiles, TypeOK, Documents, MaybePath
  <2>2. pathTab' \in [Paths -> Tabs \cup {None}] /\ tracked' \in [Tabs -> MaybePath]
    BY <1>2, <2>1 DEF SubmitCandidate, MappedPaths, MappedTabs, TypeOK, MaybePath
  <2>3. \A id \in RequestIds : AllocateRequest(t, id) =>
           pending' \in [RequestIds -> Requests \cup {None}]
    BY DEF AllocateRequest, TypeOK, Requests, Documents
  <2>4. pending' \in [RequestIds -> Requests \cup {None}]
    BY <1>2, <2>3 DEF SubmitCandidate, FreeIds, TypeOK
  <2>5. queue' \in Seq(Commands)
    <3>1. queue \in Seq(Commands) /\ FreeIds \subseteq RequestIds
      BY DEF TypeOK, FreeIds
    <3>2. \A id \in RequestIds, op \in {"observe", "reconcile"} :
             SnapshotCommand(op, t, p, id) \in Commands
      BY <2>1, CommandTypes
    <3>3. TrackCommand(p) \in Commands
      BY <2>1, CommandTypes
    <3> DEFINE track == IF tracked[t] = p THEN <<>> ELSE <<TrackCommand(p)>>
    <3>4. track \in Seq(Commands)
      BY <3>3
    <3> HIDE DEF track
    <3>5. \A c \in Commands : Append(queue, c) \in Seq(Commands)
                              /\ Append(queue \o track, c) \in Seq(Commands)
      BY <3>1, <3>4
    <3>6. queue \o track \in Seq(Commands)
      BY <3>1, <3>4
    <3>7. \/ \E id \in FreeIds : queue' = Append(queue, SnapshotCommand("reconcile", t, p, id))
          \/ \E id \in FreeIds : queue' = Append(queue \o track, SnapshotCommand("observe", t, p, id))
          \/ queue' = queue \o track
      BY <1>2 DEF SubmitCandidate, track
    <3> QED
      BY <3>1, <3>2, <3>5, <3>6, <3>7
  <2> QED
    BY <1>2, <2>2, <2>4, <2>5 DEF SubmitCandidate, TypeOK
<1> QED
  BY <1>1, <1>2

\* What is at the head of the queue is a command; sending its result keeps the types.
LEMMA HeadOfQueue ==
    ASSUME TypeOK, queue # <<>>
    PROVE  /\ Head(queue) \in Commands /\ Head(queue).path \in Paths
           /\ Head(queue).rev \in MaybeRev
           /\ Tail(queue) \in Seq(Commands)
           /\ monitor[Head(queue).path] \in Entries /\ disk[Head(queue).path] \in MaybeRev
<1>1. Head(queue) \in Commands /\ Tail(queue) \in Seq(Commands)
  BY HeadTailProperties DEF TypeOK
<1>2. Head(queue).path \in Paths /\ Head(queue).rev \in MaybeRev
  BY <1>1 DEF Commands, CommandRecords
<1> QED
  BY <1>1, <1>2 DEF TypeOK

\* Every outcome the worker reports has the shape the session expects.
LEMMA OutcomeTypes ==
    ASSUME NEW kind \in Kinds
    PROVE  /\ Plain(kind) \in Outcomes
           /\ \A p \in Paths, rev \in MaybeRev, data \in Nat : Outcome(kind, p, rev, data) \in Outcomes
BY DEF Plain, Outcome, Outcomes, MaybePath, MaybeRev

\* Sending a result takes the command off the queue and keeps both channels well formed.
LEMMA ReportTypes ==
    ASSUME TypeOK, NEW outcome \in Outcomes, queue # <<>>,
           \/ \E ok \in BOOLEAN : Report(TrackedResult(Head(queue).path, ok))
           \/ /\ WorkerHas("observe") \/ WorkerHas("reconcile")
              /\ Report(ObservedResult(Head(queue), outcome))
    PROVE  queue' \in Seq(Commands) /\ results' \in Seq(Results)
<1> DEFINE c == Head(queue)
<1>1. c \in Commands /\ c.path \in Paths /\ Tail(queue) \in Seq(Commands)
  BY HeadOfQueue
<1>2. \A ok \in BOOLEAN : TrackedResult(c.path, ok) \in Results
  <2>1. Plain("ok") \in Outcomes /\ Plain("error") \in Outcomes
    BY OutcomeTypes DEF Kinds
  <2> QED
    BY <1>1, <2>1 DEF TrackedResult, Results, ResultRecords
<1>3. WorkerHas("observe") \/ WorkerHas("reconcile") => ObservedResult(c, outcome) \in Results
  BY <1>1 DEF WorkerHas, ObservedResult, Results, ResultRecords, Commands, CommandRecords
<1>4. results \in Seq(Results)
  BY DEF TypeOK
<1>5. \A r \in Results : Report(r) => queue' \in Seq(Commands) /\ results' \in Seq(Results)
  BY <1>1, <1>4 DEF Report
<1> QED
  BY <1>2, <1>3, <1>5

\* A reconciliation starts from an entry too.
LEMMA EntryForType ==
    ASSUME TypeOK, queue # <<>>
    PROVE  EntryFor(Head(queue)) \in Entries /\ EntryFor(Head(queue)).rev \in MaybeRev
<1>1. EntryFor(Head(queue)) \in Entries
  BY HeadOfQueue, EntryTypes DEF EntryFor
<1> QED
  BY <1>1 DEF Entries

\* What the worker leaves on disk, in the monitor and in its channels.
LEMMA WorkerTypes == ASSUME TypeOK, Worker PROVE TypeOK'
<1> USE DEF session, phase, spent, ui
<1> DEFINE c == Head(queue)
           p == Head(queue).path
<1>0. queue # <<>>
  BY DEF Worker, Track, Observe, WorkerSave, Acknowledge, WorkerHas
<1>1. p \in Paths /\ c.rev \in MaybeRev /\ disk[p] \in MaybeRev /\ monitor[p] \in Entries
  BY <1>0, HeadOfQueue
<1>2. \A kind \in Kinds : Plain(kind) \in Outcomes
  BY OutcomeTypes
<1> HIDE DEF c, p
<1>3. ASSUME Track PROVE TypeOK'
  <2>1. monitor' \in [Paths -> Entries]
    BY <1>1, <1>3, EntryTypes DEF Track, TypeOK, p
  <2>2. queue' \in Seq(Commands) /\ results' \in Seq(Results)
    <3>1. Plain("ok") \in Outcomes
      BY <1>2 DEF Kinds
    <3> QED
      BY <1>0, <1>3, <3>1, ReportTypes DEF Track
  <2> QED
    BY <1>3, <2>1, <2>2 DEF Track, TypeOK
<1>4. ASSUME Acknowledge PROVE TypeOK'
  <2>1. monitor' \in [Paths -> Entries]
    BY <1>1, <1>4, AcknowledgedEntryType DEF Acknowledge, TypeOK, p
  <2>2. queue' \in Seq(Commands)
    BY <1>0, <1>4, HeadOfQueue DEF Acknowledge
  <2> QED
    BY <1>4, <2>1, <2>2 DEF Acknowledge, TypeOK
<1>5. ASSUME WorkerSave PROVE TypeOK'
  <2> DEFINE target == SaveTarget(c)
             new == OwnRevision(c.tab, c.data, target)
  <2>1. c \in Commands /\ c.tab \in Tabs /\ c.data \in Nat /\ c.crev \in Nat
    BY <1>0, <1>5, HeadOfQueue DEF WorkerSave, WorkerHas, Commands, CommandRecords, c
  <2>2. target \in MaybeRev
    BY <1>1 DEF SaveTarget, Entries, c, p
  <2>3. new \in Revisions /\ new \in MaybeRev
    BY <2>1, <2>2, NewRevisions DEF TypeOK, MaybeRev
  <2>4. ConfirmedEntry(monitor[p], new, target) \in Entries
    BY <1>1, <2>2, <2>3, ConfirmedEntryType
  <2>5. \A rev \in MaybeRev : SaveCompletion(c, rev) \in Completions
    BY <1>1, <2>1 DEF SaveCompletion, Completions, c, p
  <2>6. None \in MaybeRev
    BY DEF MaybeRev
  <2> HIDE DEF target, new
  <2>7. disk' \in [Paths -> MaybeRev] /\ monitor' \in [Paths -> Entries]
    BY <1>1, <1>5, <2>3, <2>4, ZenonT(60) DEF WorkerSave, TypeOK, c, p, target, new
  <2>8. queue' \in Seq(Commands) /\ completions' \in Seq(Completions) /\ nextRev' \in Nat
    <3>1. queue' = Tail(queue) /\ (nextRev' = nextRev \/ nextRev' = nextRev + 1)
      BY <1>5 DEF WorkerSave
    <3>2. \E rev \in MaybeRev : completions' = Append(completions, SaveCompletion(c, rev))
      BY <1>5, <2>3, <2>6 DEF WorkerSave, c, new, target
    <3> QED
      BY <1>0, <2>5, <3>1, <3>2, HeadOfQueue DEF TypeOK
  <2> QED
    BY <1>5, <2>7, <2>8 DEF WorkerSave, TypeOK
<1>6. ASSUME Observe PROVE TypeOK'
  <2> DEFINE entry == EntryFor(c)
  <2>1. entry \in Entries /\ entry.rev \in MaybeRev
    BY <1>0, EntryForType DEF c
  <2>2. c \in Commands /\ c.tab \in Tabs /\ c.data \in Nat /\ c.crev \in Nat
    BY <1>0, <1>6, HeadOfQueue DEF Observe, WorkerHas, Commands, CommandRecords, c
  <2>3. \A outcome \in Outcomes : Report(ObservedResult(c, outcome)) =>
            queue' \in Seq(Commands) /\ results' \in Seq(Results)
    BY <1>0, <1>6, ReportTypes DEF Observe, c
  <2>4. UNCHANGED <<ui, completions, nextData, saves, outside>>
    BY <1>6 DEF Observe
  <2> DEFINE Goal == /\ disk' \in [Paths -> MaybeRev] /\ monitor' \in [Paths -> Entries]
                     /\ queue' \in Seq(Commands) /\ results' \in Seq(Results)
                     /\ nextRev' \in Nat
  <2>5. Goal => TypeOK'
    BY <2>4 DEF TypeOK
  <2> SUFFICES Goal
    BY <2>5
  <2> HIDE DEF entry
  <2>6. CASE /\ Report(ObservedResult(c, Plain("error"))) \/ Report(ObservedResult(c, Plain("unchanged")))
             /\ monitor' = monitor \/ monitor' = [monitor EXCEPT ![p] = entry]
             /\ UNCHANGED <<disk, nextRev>>
    <3>1. Plain("error") \in Outcomes /\ Plain("unchanged") \in Outcomes
      BY <1>2 DEF Kinds
    <3> QED
      BY <1>1, <2>1, <2>3, <2>6, <3>1 DEF TypeOK
  <2>7. CASE ObserveMissing(c, entry.rev)
    <3>1. monitor' \in [Paths -> Entries]
      <4>1. monitor \in [Paths -> Entries] /\ Untracked \in Entries
        BY EntryTypes DEF TypeOK
      <4>2. \A q \in Paths : Observed(disk[q]) \in Entries
        BY EntryTypes DEF TypeOK
      <4>3. \A q \in Paths : [monitor EXCEPT ![p] = Untracked, ![q] = Observed(disk[q])]
                                 \in [Paths -> Entries]
        BY <4>1, <4>2, Zenon
      <4>4. \/ \E q \in Paths : monitor' = [monitor EXCEPT ![p] = Untracked, ![q] = Observed(disk[q])]
            \/ monitor' = [monitor EXCEPT ![p] = Untracked]
        BY <2>7 DEF ObserveMissing, Twins, p, c
      <4> QED
        BY <4>1, <4>3, <4>4
    <3>2. \E outcome \in Outcomes : Report(ObservedResult(c, outcome))
      <4>1. \A q \in Paths : Outcome("renamed", q, disk[q], 0) \in Outcomes
        BY OutcomeTypes DEF Kinds, TypeOK
      <4>2. Plain("deleted") \in Outcomes /\ Plain("ambiguous") \in Outcomes
        BY <1>2 DEF Kinds
      <4> QED
        BY <2>7, <4>1, <4>2 DEF ObserveMissing, Twins
    <3> QED
      BY <2>3, <2>7, <3>1, <3>2 DEF ObserveMissing, TypeOK
  <2>8. CASE disk[p] # None /\ ObserveChanged(c, disk[p])
    <3> DEFINE current == disk[p]
    <3>1. current \in Revisions /\ current.data \in Nat
      BY <1>1, <2>8, RevisionIsSome DEF Revisions
    <3>2. OwnRevision(c.tab, c.data, None) \in MaybeRev
      BY <2>2, NewRevisions DEF MaybeRev, TypeOK
    <3>3. monitor' \in [Paths -> Entries]
      BY <1>1, <2>8, EntryTypes DEF ObserveChanged, TypeOK, p, c
    <3>4. disk' \in [Paths -> MaybeRev] /\ nextRev' \in Nat
      <4>1. disk \in [Paths -> MaybeRev] /\ nextRev \in Nat
        BY DEF TypeOK
      <4>2. \/ UNCHANGED <<disk, nextRev>>
            \/ /\ nextRev' = nextRev + 1
               /\ \E q \in CopyPaths : disk' = [disk EXCEPT ![q] = OwnRevision(c.tab, c.data, None)]
        BY <2>8 DEF ObserveChanged
      <4> QED
        BY <3>2, <4>1, <4>2
    <3>5. \E outcome \in Outcomes : Report(ObservedResult(c, outcome))
      <4>1. \A q \in Paths, rev \in MaybeRev :
               /\ Outcome("reload", q, rev, current.data) \in Outcomes
               /\ Outcome("conflict", q, rev, current.data) \in Outcomes
        BY <3>1, OutcomeTypes DEF Kinds
      <4>2. Plain("unchanged") \in Outcomes /\ Plain("error") \in Outcomes
        BY <1>2 DEF Kinds
      <4>3. CopyPaths \subseteq Paths
        BY ConstantsAssumption
      <4> QED
        BY <1>1, <2>8, <3>2, <4>1, <4>2, <4>3 DEF ObserveChanged, c, p
    <3> QED
      BY <2>3, <3>3, <3>4, <3>5
  <2> QED
    BY <1>6, <2>6, <2>7, <2>8 DEF Observe, entry, c, p
<1> QED
  BY <1>3, <1>4, <1>5, <1>6 DEF Worker

\* Draining turns the results that are wanted into observations.
LEMMA DrainTypes == ASSUME TypeOK, BeginDrain \/ DrainNext \/ EndDrain PROVE TypeOK'
<1> USE DEF session, phase, spent, ui
<1>1. ASSUME BeginDrain \/ EndDrain PROVE TypeOK'
  BY <1>1 DEF BeginDrain, EndDrain, TypeOK
<1>2. ASSUME DrainNext PROVE TypeOK'
  <2> DEFINE r == Head(results)
  <2>1. r \in Results /\ Tail(results) \in Seq(Results)
    BY <1>2, HeadTailProperties DEF DrainNext, TypeOK
  <2>2. /\ r.path \in Paths /\ r.dirty \in BOOLEAN /\ r.crev \in Nat
        /\ r.outcome \in Outcomes
        /\ r.kind = "observed" => r.id \in RequestIds
    BY <2>1 DEF Results, ResultRecords
  <2> HIDE DEF r
  <2>3. pending' \in [RequestIds -> Requests \cup {None}]
    BY <1>2 DEF DrainNext, TypeOK, session
  <2>4. tracked' \in [Tabs -> MaybePath] /\ pathTab' \in [Paths -> Tabs \cup {None}]
    BY <1>2 DEF DrainNext, TypeOK, MaybePath, session
  <2>5. batch' \in Seq(Observations)
    <3>1. batch \in Seq(Observations)
      BY DEF TypeOK
    <3> DEFINE o == [tab |-> pending[r.id].tab, path |-> r.path, dirty |-> r.dirty,
                     crev |-> r.crev, outcome |-> r.outcome]
    <3>2. batch' = batch \/ (r.kind = "observed" /\ Wanted(r) /\ batch' = Append(batch, o))
      BY <1>2 DEF DrainNext, r, session
    <3>3. r.kind = "observed" /\ Wanted(r) => pending[r.id].tab \in Tabs
      BY <2>2 DEF Wanted, TypeOK, Requests
    <3>4. r.kind = "observed" /\ Wanted(r) => o \in Observations
      BY <2>2, <3>3 DEF Observations
    <3> HIDE DEF o
    <3> QED
      BY <3>1, <3>2, <3>4
  <2> QED
    BY <1>2, <2>1, <2>3, <2>4, <2>5 DEF DrainNext, TypeOK, r
<1> QED
  BY <1>1, <1>2

\* Applying an observation leaves documents and the session well formed.
LEMMA ObservationTypes == ASSUME TypeOK, ApplyObservation PROVE TypeOK'
<1> USE DEF phase, spent, ui
<1> DEFINE o == Head(batch)
<1>1. o \in Observations /\ Tail(batch) \in Seq(Observations)
  BY HeadTailProperties DEF ApplyObservation, TypeOK
<1>2. o.tab \in Tabs /\ o.path \in Paths /\ o.outcome \in Outcomes
  BY <1>1 DEF Observations
<1>3. o.outcome.path \in MaybePath /\ o.outcome.rev \in MaybeRev /\ o.outcome.data \in Nat
  BY <1>2 DEF Outcomes
<1> HIDE DEF o
<1>4. docs \in [Tabs -> Documents] /\ docs[o.tab] \in Documents
  BY <1>2 DEF TypeOK
<1>5. \A data \in Nat : LoadedDocument(o.path, data) \in Documents
  BY <1>2, LoadedDocumentType
<1>6. Rebound(o.tab, o.outcome.path, o.outcome.rev) \in [Tabs -> Documents]
  <2>1. [docs[o.tab] EXCEPT !.path = o.outcome.path, !.rev = o.outcome.rev] \in Documents
    BY <1>3, <1>4 DEF Documents
  <2> QED
    BY <1>4, <2>1, Zenon DEF Rebound
<1>7. Detached(o.tab) \in [Tabs -> Documents]
  <2>1. None \in MaybePath /\ None \in MaybeRev
    BY DEF MaybePath, MaybeRev
  <2>2. [docs[o.tab] EXCEPT !.path = None, !.rev = None, !.dirty = TRUE] \in Documents
    BY <1>4, <2>1 DEF Documents
  <2> QED
    BY <1>4, <2>2, Zenon DEF Detached
<1> DEFINE SessionTypes == /\ tracked' \in [Tabs -> MaybePath]
                           /\ pathTab' \in [Paths -> Tabs \cup {None}]
                           /\ pending' \in [RequestIds -> Requests \cup {None}]
<1>8. ForgetTab(o.tab) \/ UNCHANGED session => SessionTypes
  BY <1>2, ForgetTabTypes DEF TypeOK, session
<1>9. docs' \in [Tabs -> Documents] /\ SessionTypes
  <2> HIDE DEF SessionTypes
  <2>1. CASE ApplyStale(o)
    BY <1>4, <1>8, <2>1 DEF ApplyStale
  <2>2. CASE ApplyNothing(o)
    BY <1>4, <1>8, <2>2 DEF ApplyNothing
  <2>3. CASE ApplyReload(o)
    BY <1>3, <1>4, <1>5, <1>8, <2>3 DEF ApplyReload
  <2>4. CASE ApplyConflict(o)
    <3> DEFINE rebound == Rebound(o.tab, o.outcome.path, o.outcome.rev)
    <3>1. docs' = rebound \/ \E t \in Tabs :
                                docs' = [rebound EXCEPT ![t] = LoadedDocument(o.path, o.outcome.data)]
      BY <2>4 DEF ApplyConflict
    <3> HIDE DEF rebound
    <3>2. docs' \in [Tabs -> Documents]
      BY <1>3, <1>5, <1>6, <3>1 DEF rebound
    <3> QED
      BY <1>8, <2>4, <3>2 DEF ApplyConflict
  <2>5. CASE ApplyRename(o)
    BY <1>6, <1>8, <2>5 DEF ApplyRename
  <2>6. CASE ApplyDetach(o)
    BY <1>7, <1>8, <2>6 DEF ApplyDetach
  <2> QED
    BY <2>1, <2>2, <2>3, <2>4, <2>5, <2>6 DEF ApplyObservation, o
<1> QED
  BY <1>1, <1>9 DEF ApplyObservation, TypeOK, o

\* What apply_save_completion makes of a document is a document.
LEMMA SavedDocumentType ==
    ASSUME TypeOK, applying # <<>>
    PROVE  LET s == Head(applying)
           IN  SavedDocument(docs[s.tab], s) \in Documents
<1> DEFINE s == Head(applying)
<1>1. s \in Completions
  BY HeadTailProperties DEF TypeOK
<1>2. s.tab \in Tabs /\ s.path \in MaybePath /\ s.rev \in MaybeRev
  BY <1>1 DEF Completions, MaybePath
<1> HIDE DEF s
<1>3. docs[s.tab] \in Documents /\ docs[s.tab].data \in Nat
  BY <1>2 DEF TypeOK, Documents
<1> DEFINE bound == [docs[s.tab] EXCEPT !.path = s.path, !.rev = s.rev]
<1>4. bound \in Documents
  BY <1>2, <1>3 DEF Documents
<1>5. [bound EXCEPT !.dirty = FALSE, !.clean = docs[s.tab].data] \in Documents
  BY <1>3, <1>4, Zenon DEF Documents
<1> QED
  BY <1>4, <1>5 DEF SavedDocument, s

\* Applying save completions leaves documents, session and queue well formed.
LEMMA CompletionTypes ==
    ASSUME TypeOK, BeginSaveResults \/ ApplyCompletion \/ EndServing
    PROVE  TypeOK'
<1> USE DEF phase, spent, ui
<1>1. ASSUME BeginSaveResults \/ EndServing PROVE TypeOK'
  <2>1. <<>> \in Seq(Completions)
    OBVIOUS
  <2> QED
    BY <1>1, <2>1 DEF BeginSaveResults, EndServing, TypeOK, session
<1>2. ASSUME ApplyCompletion PROVE TypeOK'
  <2> DEFINE s == Head(applying)
             saved == SavedDocument(docs[s.tab], s)
  <2>1. s \in Completions /\ Tail(applying) \in Seq(Completions)
    BY <1>2, HeadTailProperties DEF ApplyCompletion, TypeOK
  <2>2. s.tab \in Tabs /\ s.path \in Paths /\ s.path \in MaybePath /\ s.rev \in MaybeRev
    BY <2>1 DEF Completions, MaybePath
  <2> HIDE DEF s
  <2>3. docs \in [Tabs -> Documents] /\ docs[s.tab] \in Documents
    BY <2>2 DEF TypeOK
  <2>4. saved \in Documents
    BY <1>2, SavedDocumentType DEF ApplyCompletion, s
  <2> HIDE DEF saved
  <2>5. [saved EXCEPT !.st = "closed"] \in Documents
    BY <2>4 DEF Documents
  <2>6. AckCommand(s.path, s.rev) \in Commands
    BY <2>2, CommandTypes
  <2> DEFINE Goal == /\ docs' \in [Tabs -> Documents] /\ tracked' \in [Tabs -> MaybePath]
                     /\ pathTab' \in [Paths -> Tabs \cup {None}]
                     /\ pending' \in [RequestIds -> Requests \cup {None}]
                     /\ pendingClose' \subseteq Tabs /\ queue' \in Seq(Commands)
  <2>7. ASSUME CompletionFailed(s) \/ CompletionOfClosed(s) PROVE Goal
    BY <2>7 DEF CompletionFailed, CompletionOfClosed, TypeOK, session
  <2>8. ASSUME CompletionApplied(s) PROVE Goal
    <3>1. docs' \in [Tabs -> Documents]
      BY <2>3, <2>4, <2>5, <2>8 DEF CompletionApplied, saved
    <3>2. ForgetTab(s.tab) \/ UNCHANGED session
      BY <2>8 DEF CompletionApplied
    <3>3. /\ tracked' \in [Tabs -> MaybePath] /\ pathTab' \in [Paths -> Tabs \cup {None}]
          /\ pending' \in [RequestIds -> Requests \cup {None}]
      BY <2>2, <3>2, ForgetTabTypes DEF TypeOK, session
    <3> QED
      BY <2>6, <2>8, <3>1, <3>3 DEF CompletionApplied, TypeOK
  <2>9. Goal
    BY <1>2, <2>7, <2>8 DEF ApplyCompletion, s
  <2> QED
    BY <1>2, <2>1, <2>9 DEF ApplyCompletion, TypeOK, s
<1> QED
  BY <1>1, <1>2

\* The outside world leaves a revision or nothing at every path.
LEMMA OutsideTypes == ASSUME TypeOK, Outside PROVE TypeOK'
<1> USE DEF session, phase, spent, ui
<1>1. disk' \in [Paths -> MaybeRev]
  <2>1. None \in MaybeRev /\ \A data \in Nat : OutsideRevision(data) \in MaybeRev
    BY NewRevisions DEF MaybeRev, TypeOK
  <2>2. 0..MaxData \subseteq Nat /\ nextData \in Nat /\ disk \in [Paths -> MaybeRev]
    BY ConstantsAssumption DEF TypeOK
  <2>3. \A p, q \in Paths : [disk EXCEPT ![p] = None, ![q] = disk[p]] \in [Paths -> MaybeRev]
    BY <2>1, <2>2, Zenon
  <2> QED
    BY <2>1, <2>2, <2>3 DEF Outside, OutsideWrite, OutsideEcho, OutsideDelete, OutsideRename
<1> QED
  BY <1>1, SMTT(30) DEF Outside, OutsideWrite, OutsideEcho, OutsideDelete, OutsideRename, OutsideStep, TypeOK

-----------------------------------------------------------------------------
(* The inductive invariant *)

\* The editor starts with one open file, no handler running and empty channels.
LEMMA InitInvariant == Init => IInv
<1> SUFFICES ASSUME Init PROVE IInv
  OBVIOUS
<1> USE ConstantsAssumption
<1>1. disk \in [Paths -> MaybeRev]
  <2>1. [id |-> 0, data |-> 0, by |-> None, lineage |-> {}] \in MaybeRev
    BY DEF MaybeRev, Revisions
  <2> QED
    BY <2>1 DEF Init, MaybeRev
<1>2. docs \in [Tabs -> Documents]
  <2>1. disk[Home] \in MaybeRev
    BY <1>1
  <2>2. FreshDocument \in Documents
    BY DEF FreshDocument, Documents, MaybePath, MaybeRev
  <2>3. [FreshDocument EXCEPT !.st = "open", !.path = Home, !.rev = disk[Home]] \in Documents
    BY <2>1, <2>2 DEF Documents, MaybePath
  <2> QED
    BY <2>2, <2>3, Zenon DEF Init
<1>3. TypeOK
  <2>1. monitor \in [Paths -> Entries]
    BY EntryTypes DEF Init
  <2>2. /\ tracked \in [Tabs -> MaybePath] /\ pathTab \in [Paths -> Tabs \cup {None}]
        /\ pending \in [RequestIds -> Requests \cup {None}]
    BY DEF Init, MaybePath
  <2>3. /\ batch \in Seq(Observations) /\ applying \in Seq(Completions)
        /\ queue \in Seq(Commands) /\ results \in Seq(Results) /\ completions \in Seq(Completions)
    BY DEF Init
  <2> QED
    BY <1>1, <1>2, <2>1, <2>2, <2>3 DEF Init, TypeOK
<1>4. OneHandler /\ RoundOnFiles
  BY DEF Init, OneHandler, RoundOnFiles
<1>5. MonitorLineage
  BY DEF Init, MonitorLineage, KeepsLineage, Untracked
<1>6. ReloadsAreForClean
  BY DEF Init, ReloadsAreForClean, ToSet
<1> QED
  BY <1>3, <1>4, <1>5, <1>6 DEF IInv

\* The event loop finishes one handler before it starts another, and no handler takes
\* the file of a tab away while a round of checks still has to submit it.
LEMMA HandlerStep == ASSUME TypeOK, OneHandler, RoundOnFiles, Next PROVE OneHandler' /\ RoundOnFiles'
<1> USE DEF OneHandler, RoundOnFiles
<1>1. CASE User
  <2>1. todo = {} /\ UNCHANGED phase
    BY <1>1 DEF User, Edit, Undo, Save, SaveAs, SaveBeforeClose, SubmitSave, Close, OpenFile,
                UserTurn, Idle
  <2> QED
    BY <2>1 DEF phase
<1>2. CASE SubmitChecks
  BY <1>2 DEF SubmitChecks, UserTurn, Idle, Candidates
<1>3. CASE \E t \in Tabs : SubmitCandidate(t)
  BY <1>3 DEF SubmitCandidate
<1>4. CASE BeginDrain \/ DrainNext \/ EndDrain
  <2>1. todo' = todo /\ docs' = docs /\ applying' = applying
    BY <1>4 DEF BeginDrain, DrainNext, EndDrain
  <2>2. todo # {} => ~draining' /\ batch' = <<>>
    BY <1>4 DEF BeginDrain, DrainNext, EndDrain, Idle
  <2>3. applying # <<>> => ~draining' /\ batch' = <<>>
    BY <1>4 DEF BeginDrain, DrainNext, EndDrain, Idle
  <2> QED
    BY <2>1, <2>2, <2>3
<1>5. CASE ApplyObservation
  BY <1>5 DEF ApplyObservation
<1>6. CASE BeginSaveResults \/ ApplyCompletion \/ EndServing
  BY <1>6 DEF BeginSaveResults, ApplyCompletion, EndServing, Idle
<1>7. CASE Worker
  <2>1. UNCHANGED ui
    <3>1. Track => UNCHANGED ui
      BY DEF Track
    <3>2. Observe => UNCHANGED ui
      BY DEF Observe
    <3>3. WorkerSave => UNCHANGED ui
      BY DEF WorkerSave
    <3>4. Acknowledge => UNCHANGED ui
      BY DEF Acknowledge
    <3> QED
      BY <1>7, <3>1, <3>2, <3>3, <3>4 DEF Worker
  <2> QED
    BY <2>1 DEF ui, phase
<1>8. CASE Outside
  BY <1>8 DEF Outside, OutsideWrite, OutsideEcho, OutsideDelete, OutsideRename, OutsideStep,
              ui, phase
<1> QED
  BY <1>1, <1>2, <1>3, <1>4, <1>5, <1>6, <1>7, <1>8 DEF Next, EventLoop

\* A save that starts from the revision the entry holds descends from the predecessors
\* it keeps; any other save keeps none.
LEMMA ConfirmedEntryLineage ==
    ASSUME nextRev \in Nat, NEW previous \in Entries, KeepsLineage(previous),
           NEW t \in Tabs, NEW data \in Nat, NEW target \in MaybeRev
    PROVE  KeepsLineage(ConfirmedEntry(previous, OwnRevision(t, data, target), target))
<1> DEFINE new == OwnRevision(t, data, target)
           kept == IF previous.kind = "saved" /\ previous.rev = target
                   THEN previous.preds ELSE <<>>
<1>1. new \in Revisions /\ new # None /\ new.by = t /\ t # None
      /\ new.lineage = Lineage(target)
  <2>1. new \in Revisions
    BY NewRevisions
  <2> QED
    BY <2>1, ConstantsAssumption DEF OwnRevision
<1>2. kept \in Seq(Revisions)
  BY DEF Entries
<1>3. \A i \in DOMAIN kept : target # None /\ kept[i].id \in Lineage(target)
  BY DEF KeepsLineage, Lineage
<1> HIDE DEF new, kept
<1>4. CASE target = None
  <2>1. ConfirmedEntry(previous, new, target) = Saved(new, kept)
    BY <1>4 DEF ConfirmedEntry, kept
  <2> QED
    BY <1>1, <1>3, <2>1 DEF KeepsLineage, Saved, new
<1>5. CASE target # None
  <2>1. ConfirmedEntry(previous, new, target) = Saved(new, Append(kept, target))
    BY <1>5 DEF ConfirmedEntry, kept
  <2>2. target.id \in Lineage(target) /\ target \in Revisions
    BY <1>5, RevisionIsSome DEF Lineage
  <2>3. \A i \in DOMAIN Append(kept, target) : Append(kept, target)[i].id \in Lineage(target)
    BY <1>2, <1>3, <2>2
  <2> QED
    BY <1>1, <2>1, <2>3 DEF KeepsLineage, Saved, new
<1> QED
  BY <1>4, <1>5

\* The worker is the only one to change the monitor, and every entry it stores keeps
\* its lineage.
LEMMA LineageStep == ASSUME TypeOK, MonitorLineage, Next PROVE MonitorLineage'
<1> DEFINE c == Head(queue)
           p == Head(queue).path
<1>1. CASE User \/ EventLoop \/ Outside
  <2>1. monitor' = monitor
    BY <1>1 DEF User, Edit, Undo, Save, SaveAs, SaveBeforeClose, SubmitSave, Close, OpenFile,
                EventLoop, SubmitChecks, SubmitCandidate, BeginDrain, DrainNext, EndDrain,
                ApplyObservation, BeginSaveResults, ApplyCompletion, EndServing,
                Outside, OutsideWrite, OutsideEcho, OutsideDelete, OutsideRename, OutsideStep
  <2> QED
    BY <2>1 DEF MonitorLineage
<1>2. \A rev : KeepsLineage(Observed(rev)) /\ KeepsLineage(Untracked)
  BY DEF KeepsLineage, Observed, Untracked
<1>3. monitor \in [Paths -> Entries] /\ nextRev \in Nat
  BY DEF TypeOK
<1>4. ASSUME queue # <<>> PROVE p \in Paths /\ c.rev \in MaybeRev /\ KeepsLineage(monitor[p])
  BY <1>4, HeadOfQueue DEF MonitorLineage
<1>5. ASSUME NEW entry, KeepsLineage(entry), monitor' = [monitor EXCEPT ![p] = entry]
      PROVE  MonitorLineage'
  BY <1>3, <1>5 DEF MonitorLineage
<1>6. ASSUME monitor' = monitor PROVE MonitorLineage'
  BY <1>6 DEF MonitorLineage
<1>7. CASE Track
  BY <1>2, <1>5, <1>6, <1>7 DEF Track
<1>8. CASE Observe
  <2> DEFINE entry == EntryFor(c)
  <2>1. KeepsLineage(entry)
    BY <1>2, <1>4, <1>8 DEF EntryFor, Observe, WorkerHas
  <2> HIDE DEF entry
  <2>2. CASE monitor' = monitor \/ monitor' = [monitor EXCEPT ![p] = entry]
    BY <1>5, <1>6, <2>1, <2>2
  <2>3. CASE ObserveMissing(c, entry.rev)
    <3>1. \/ monitor' = [monitor EXCEPT ![p] = Untracked]
          \/ \E q \in Paths :
                monitor' = [monitor EXCEPT ![p] = Untracked, ![q] = Observed(disk[q])]
      BY <2>3 DEF ObserveMissing, Twins
    <3>2. ASSUME NEW q \in Paths,
                 monitor' = [monitor EXCEPT ![p] = Untracked, ![q] = Observed(disk[q])],
                 NEW r \in Paths
          PROVE  \/ monitor'[r] = Observed(disk[q]) \/ monitor'[r] = Untracked
                 \/ monitor'[r] = monitor[r]
      BY <1>3, <3>2, Zenon
    <3> QED
      BY <1>2, <1>5, <3>1, <3>2 DEF MonitorLineage
  <2>4. CASE ObserveChanged(c, disk[p])
    BY <1>2, <1>5, <2>4 DEF ObserveChanged
  <2> QED
    BY <1>8, <2>2, <2>3, <2>4 DEF Observe, entry
<1>9. CASE WorkerSave
  <2> DEFINE target == SaveTarget(c)
             new == OwnRevision(c.tab, c.data, target)
  <2>1. queue # <<>> /\ c.tab \in Tabs /\ c.data \in Nat /\ monitor[p] \in Entries
    BY <1>9, HeadOfQueue DEF WorkerSave, WorkerHas, Commands, CommandRecords
  <2>2. target \in MaybeRev
    BY <1>4, <2>1 DEF SaveTarget, Entries
  <2>3. KeepsLineage(ConfirmedEntry(monitor[p], new, target))
    BY <1>3, <1>4, <2>1, <2>2, ConfirmedEntryLineage
  <2> QED
    BY <1>5, <1>6, <1>9, <2>3 DEF WorkerSave
<1>10. CASE Acknowledge
  <2>1. queue # <<>> /\ monitor[p] \in Entries
    BY <1>10, HeadOfQueue DEF Acknowledge, WorkerHas
  <2>2. KeepsLineage(AcknowledgedEntry(monitor[p], c.rev))
    BY <1>4, <2>1, AcknowledgedEntryType DEF KeepsLineage
  <2> QED
    BY <1>5, <1>10, <2>2 DEF Acknowledge
<1> QED
  BY <1>1, <1>7, <1>8, <1>9, <1>10 DEF Next, Worker

\* A reload is only ever reported for a clean snapshot, and draining keeps the flag.
LEMMA ReloadStep == ASSUME TypeOK, ReloadsAreForClean, Next PROVE ReloadsAreForClean'
<1> DEFINE Fine(r) == r.outcome.kind = "reload" => ~r.dirty
<1>0. /\ results \in Seq(Results) /\ batch \in Seq(Observations)
      /\ (\A r \in ToSet(results) : Fine(r)) /\ (\A o \in ToSet(batch) : Fine(o))
  BY DEF TypeOK, ReloadsAreForClean
<1>1. ASSUME UNCHANGED batch, NEW r, results' = results \/ (Fine(r) /\ results' = Append(results, r))
      PROVE  ReloadsAreForClean'
  <2>0. ToSet(Append(results, r)) = ToSet(results) \cup {r}
    BY <1>0, ElementsOf
  <2>1. \/ ToSet(results') = ToSet(results)
        \/ Fine(r) /\ ToSet(results') = ToSet(results) \cup {r}
    BY <1>1, <2>0
  <2>2. \A x \in ToSet(results') : Fine(x)
    BY <1>0, <1>1, <2>1
  <2> QED
    BY <1>0, <1>1, <2>2 DEF ReloadsAreForClean
<1>2. ASSUME Worker PROVE UNCHANGED batch /\ \E r : results' = results \/ (Fine(r) /\ results' = Append(results, r))
  <2> DEFINE c == Head(queue)
  <2>0. UNCHANGED batch
    BY <1>2 DEF Worker, Track, Observe, WorkerSave, Acknowledge, ui, phase
  <2>1. ASSUME Track PROVE \E r : Fine(r) /\ results' = Append(results, r)
    <3>1. \A p, ok : Fine(TrackedResult(p, ok))
      BY DEF TrackedResult, Plain, Outcome
    <3> QED
      BY <2>1, <3>1 DEF Track, Report
  <2>2. ASSUME WorkerSave \/ Acknowledge PROVE results' = results
    BY <2>2 DEF WorkerSave, Acknowledge
  <2>3. ASSUME Observe PROVE \E r : Fine(r) /\ results' = Append(results, r)
    <3>1. \A kind, p, rev, data : kind # "reload" \/ ~c.dirty =>
             Fine(ObservedResult(c, Outcome(kind, p, rev, data)))
      BY DEF ObservedResult, Outcome
    <3>2. \E kind, p, rev, data : /\ kind # "reload" \/ ~c.dirty
                                  /\ Report(ObservedResult(c, Outcome(kind, p, rev, data)))
      BY <2>3 DEF Observe, ObserveMissing, ObserveChanged, Plain
    <3> QED
      BY <3>1, <3>2 DEF Report
  <2> QED
    BY <1>2, <2>0, <2>1, <2>2, <2>3 DEF Worker
<1>3. CASE Worker
  BY <1>1, <1>2, <1>3
<1>4. CASE User \/ SubmitChecks \/ (\E t \in Tabs : SubmitCandidate(t)) \/ Outside
           \/ BeginSaveResults \/ ApplyCompletion \/ EndServing \/ BeginDrain \/ EndDrain
  <2>1. UNCHANGED <<results, batch>>
    BY <1>4 DEF User, Edit, Undo, Save, SaveAs, SaveBeforeClose, SubmitSave, Close, OpenFile,
                SubmitChecks, SubmitCandidate, BeginDrain, EndDrain,
                BeginSaveResults, ApplyCompletion, EndServing, ui, phase,
                Outside, OutsideWrite, OutsideEcho, OutsideDelete, OutsideRename, OutsideStep
  <2> QED
    BY <1>1, <2>1
<1>5. CASE DrainNext
  <2> DEFINE r == Head(results)
             o == [tab |-> pending[r.id].tab, path |-> r.path, dirty |-> r.dirty,
                   crev |-> r.crev, outcome |-> r.outcome]
  <2>1. r \in ToSet(results) /\ ToSet(results') \subseteq ToSet(results)
    BY <1>0, <1>5, ElementsOf DEF DrainNext
  <2>2. Fine(o)
    BY <1>0, <2>1
  <2> HIDE DEF o, r
  <2>3. batch' = batch \/ batch' = Append(batch, o)
    BY <1>5 DEF DrainNext, session, o, r
  <2>4. ToSet(batch') \subseteq ToSet(batch) \cup {o}
    <3>1. ToSet(Append(batch, o)) = ToSet(batch) \cup {o}
      BY <1>0, ElementsOf
    <3> QED
      BY <2>3, <3>1
  <2> QED
    BY <1>0, <2>1, <2>2, <2>4 DEF ReloadsAreForClean
<1>6. CASE ApplyObservation
  <2>1. ToSet(batch') \subseteq ToSet(batch) /\ results' = results
    BY <1>0, <1>6, ElementsOf DEF ApplyObservation
  <2> QED
    BY <1>0, <2>1 DEF ReloadsAreForClean
<1> QED
  BY <1>3, <1>4, <1>5, <1>6 DEF Next, EventLoop

\* Every step of every actor keeps the inductive invariant.
LEMMA InvariantStep == IInv /\ [Next]_vars => IInv'
<1> SUFFICES ASSUME IInv, [Next]_vars PROVE IInv'
  OBVIOUS
<1>1. CASE Next
  <2>1. TypeOK'
    BY <1>1, UserTypes, RoundTypes, WorkerTypes, DrainTypes, ObservationTypes, CompletionTypes,
       OutsideTypes DEF IInv, Next, EventLoop
  <2> QED
    BY <1>1, <2>1, HandlerStep, LineageStep, ReloadStep DEF IInv
<1>2. CASE UNCHANGED vars
  BY <1>2 DEF IInv, vars, ui, session, phase, spent, TypeOK, OneHandler, RoundOnFiles,
              MonitorLineage, ReloadsAreForClean
<1> QED
  BY <1>1, <1>2

\* In every state the code can reach, every field holds what its type allows, the event
\* loop is inside one handler, a round of checks submits only tabs that have a file, and
\* the monitor's predecessor lists hold nothing but ancestors of the saved revision.
THEOREM InductiveInvariant == Spec => []IInv
BY InitInvariant, InvariantStep, PTL DEF Spec

\* A queued save or reconciliation that takes the monitor's saved revision for its own
\* baseline is right: the app's own saves led from the one to the other.
THEOREM MonitorKeepsLineage == Spec => []MonitorLineage
<1>1. IInv => MonitorLineage
  BY DEF IInv
<1> QED
  BY <1>1, InductiveInvariant, PTL

\* A step that changes a file and the queue is one of the worker.
LEMMA WorkerWrites == ASSUME [Next]_vars, disk' # disk, queue' # queue PROVE Worker
<1>1. ~ User
  BY DEF User, Edit, Undo, Save, SaveBeforeClose, SaveAs, SubmitSave, Close, OpenFile
<1>2. ~ EventLoop
  BY DEF EventLoop, SubmitChecks, SubmitCandidate, BeginDrain, DrainNext, EndDrain,
         ApplyObservation, BeginSaveResults, ApplyCompletion, EndServing
<1>3. ~ Outside
  BY DEF Outside, OutsideWrite, OutsideEcho, OutsideDelete, OutsideRename, OutsideStep
<1> QED
  BY <1>1, <1>2, <1>3 DEF Next, vars

\* A save never replaces what the outside world wrote after the save was prepared: what
\* it overwrites is its snapshot's revision or descends from it through own saves.
THEOREM SavesReplaceOnlyTheirBaseline == Spec => SaveLineage
<1>1. IInv /\ [Next]_vars =>
        (WorkerRan("save") /\ disk' # disk => Descends(disk[Head(queue).path], Head(queue).rev))
  <2> SUFFICES ASSUME IInv, [Next]_vars, WorkerRan("save"), disk' # disk
               PROVE  Descends(disk[Head(queue).path], Head(queue).rev)
    OBVIOUS
  <2> DEFINE c == Head(queue)
             p == Head(queue).path
  <2>1. queue # <<>> /\ c.op = "save" /\ queue' = Tail(queue)
    BY DEF WorkerRan, WorkerHas
  <2>2. WorkerSave
    <3>1. Len(Tail(queue)) # Len(queue)
      <4>1. queue \in Seq(Commands)
        BY DEF IInv, TypeOK
      <4> QED
        BY <2>1, <4>1, HeadTailProperties, LenProperties
    <3>2. Worker
      BY <2>1, <3>1, WorkerWrites
    <3> QED
      BY <2>1, <3>2 DEF Worker, Track, Observe, Acknowledge, WorkerHas
  <2>3. disk[p] = SaveTarget(c)
    BY <2>2 DEF WorkerSave
  <2>4. KeepsLineage(monitor[p])
    BY <2>1, HeadOfQueue DEF IInv, MonitorLineage
  <2>5. CASE SaveTarget(c) = c.rev
    BY <2>3, <2>5 DEF Descends
  <2>6. CASE c.rev # None /\ IsSavedSuccessor(monitor[p], c.rev) /\ SaveTarget(c) = monitor[p].rev
    BY <2>3, <2>4, <2>6 DEF Descends, IsSavedSuccessor, Contains, KeepsLineage
  <2> QED
    BY <2>5, <2>6 DEF SaveTarget
<1> QED
  BY <1>1, InductiveInvariant, PTL DEF Spec, SaveLineage

\* The session never believes that two tabs watch the same file.
LEMMA TrackedStep == ASSUME TypeOK, OneTabPerTrackedPath, RoundOnFiles, [Next]_vars
                     PROVE  OneTabPerTrackedPath'
<1>1. ASSUME UNCHANGED session PROVE OneTabPerTrackedPath'
  BY <1>1 DEF session, OneTabPerTrackedPath
<1>2. ASSUME NEW t \in Tabs, ForgetTab(t) PROVE OneTabPerTrackedPath'
  BY <1>2 DEF ForgetTab, OneTabPerTrackedPath, TypeOK, MaybePath
<1>3. ASSUME NEW t \in Tabs, SubmitCandidate(t) PROVE OneTabPerTrackedPath'
  <2> DEFINE p == docs[t].path
  <2>1. p \in Paths
    BY <1>3 DEF SubmitCandidate, RoundOnFiles, TypeOK, Documents, MaybePath
  <2>2. pathTab' = MappedPaths(t, p) /\ tracked' = MappedTabs(t, p)
    BY <1>3 DEF SubmitCandidate
  <2> QED
    BY <2>1, <2>2 DEF MappedPaths, MappedTabs, OneTabPerTrackedPath, TypeOK, MaybePath
<1>4. ASSUME DrainNext PROVE OneTabPerTrackedPath'
  <2> DEFINE p == Head(results).path
  <2>1. \/ UNCHANGED <<tracked, pathTab>>
        \/ /\ pathTab' = [pathTab EXCEPT ![p] = None]
           /\ tracked' = [tracked EXCEPT ![pathTab[p]] = None]
    BY <1>4 DEF DrainNext, session
  <2> QED
    BY <2>1 DEF OneTabPerTrackedPath, TypeOK, MaybePath
<1>5. CASE User
  BY <1>1, <1>2, <1>5 DEF User, Edit, Undo, Save, SaveAs, SaveBeforeClose, SubmitSave, Close, OpenFile
<1>6. CASE ApplyObservation
  <2>0. Head(batch) \in Observations
    BY <1>6, HeadTailProperties DEF ApplyObservation, TypeOK
  <2>1. Head(batch).tab \in Tabs
    BY <2>0 DEF Observations
  <2> QED
    BY <1>1, <1>2, <1>6, <2>1 DEF ApplyObservation, ApplyStale, ApplyNothing, ApplyReload,
                                  ApplyConflict, ApplyRename, ApplyDetach
<1>7. CASE ApplyCompletion
  <2>0. Head(applying) \in Completions
    BY <1>7, HeadTailProperties DEF ApplyCompletion, TypeOK
  <2>1. Head(applying).tab \in Tabs
    BY <2>0 DEF Completions
  <2> QED
    BY <1>1, <1>2, <1>7, <2>1 DEF ApplyCompletion, CompletionFailed, CompletionOfClosed,
                                  CompletionApplied
<1>8. CASE SubmitChecks \/ BeginDrain \/ EndDrain \/ BeginSaveResults \/ EndServing
  BY <1>1, <1>8 DEF SubmitChecks, BeginDrain, EndDrain, BeginSaveResults, EndServing
<1>9. CASE Worker
  BY <1>1, <1>9 DEF Worker, Track, Observe, WorkerSave, Acknowledge, ui
<1>10. CASE Outside
  BY <1>1, <1>10 DEF Outside, OutsideWrite, OutsideEcho, OutsideDelete, OutsideRename,
                     OutsideStep, ui
<1>11. CASE UNCHANGED vars
  BY <1>1, <1>11 DEF vars, ui
<1> QED
  BY <1>3, <1>4, <1>5, <1>6, <1>7, <1>8, <1>9, <1>10, <1>11 DEF Next, EventLoop

\* tracked_paths and path_to_tab agree in every reachable state.
THEOREM TrackedPathsAgree == Spec => []OneTabPerTrackedPath
<1>1. Init => OneTabPerTrackedPath
  BY DEF Init, OneTabPerTrackedPath
<1>2. IInv /\ OneTabPerTrackedPath /\ [Next]_vars => OneTabPerTrackedPath'
  BY TrackedStep DEF IInv
<1> QED
  BY <1>1, <1>2, InductiveInvariant, PTL DEF Spec

\* What following a file, detaching from one and saving leave alone: the text, its
\* revision number and whether the tab is open.
LEMMA TextKept ==
    ASSUME TypeOK, NEW t \in Tabs, NEW u \in Tabs
    PROVE  /\ \A p, rev : LET new == Rebound(t, p, rev)[u]
                          IN  new.data = docs[u].data /\ new.st = docs[u].st
           /\ LET new == Detached(t)[u] IN new.data = docs[u].data /\ new.st = docs[u].st
           /\ \A s : LET new == SavedDocument(docs[u], s)
                      IN  new.data = docs[u].data /\ new.st = docs[u].st
<1>1. docs \in [Tabs -> Documents] /\ docs[u] \in Documents
  BY DEF TypeOK
<1>2. ASSUME NEW p, NEW rev
      PROVE  Rebound(t, p, rev)[u].data = docs[u].data /\ Rebound(t, p, rev)[u].st = docs[u].st
  BY <1>1, Zenon DEF Rebound, Documents
<1>3. Detached(t)[u].data = docs[u].data /\ Detached(t)[u].st = docs[u].st
  BY <1>1, Zenon DEF Detached, Documents
<1>4. ASSUME NEW s
      PROVE  /\ SavedDocument(docs[u], s).data = docs[u].data
             /\ SavedDocument(docs[u], s).st = docs[u].st
  BY <1>1, Zenon DEF SavedDocument, Documents
<1> QED
  BY <1>2, <1>3, <1>4

\* How a step may treat one tab's document: the user may change its text, and only a
\* reload of a clean document may; a tab that has been opened is never fresh again, and
\* one that is closed stays closed.
LEMMA DocumentStep ==
    ASSUME IInv, Next, NEW t \in Tabs
    PROVE  /\ docs'[t].st = docs[t].st \/ (docs[t].st = "fresh" /\ docs'[t].st = "open")
                 \/ (docs[t].st = "open" /\ docs'[t].st = "closed")
           /\ IsOpen(t) /\ docs[t].dirty /\ docs'[t].data # docs[t].data
                 => docs'[t].crev = docs[t].crev + 1
<1> DEFINE Stays == docs'[t].st = docs[t].st
           Opens == docs[t].st = "fresh" /\ docs'[t].st = "open"
           Closes == docs[t].st = "open" /\ docs'[t].st = "closed" /\ docs'[t].data = docs[t].data
           Same == Stays /\ docs'[t].data = docs[t].data
           Goal == \/ Same \/ Opens \/ Closes
                   \/ Stays /\ (docs'[t].crev = docs[t].crev + 1 \/ ~docs[t].dirty)
<1>1. Goal => /\ Stays \/ Opens \/ (docs[t].st = "open" /\ docs'[t].st = "closed")
              /\ IsOpen(t) /\ docs[t].dirty /\ docs'[t].data # docs[t].data
                     => docs'[t].crev = docs[t].crev + 1
  BY DEF IsOpen
<1> SUFFICES Goal
  BY <1>1
<1>2. TypeOK /\ docs \in [Tabs -> Documents] /\ docs[t] \in Documents
  BY DEF IInv, TypeOK
<1>3. ASSUME docs' = docs PROVE Goal
  BY <1>3
<1>4. ASSUME NEW u \in Tabs, NEW p, NEW data, docs[u].st = "fresh",
             docs' = [docs EXCEPT ![u] = LoadedDocument(p, data)]
      PROVE  Goal
  BY <1>2, <1>4 DEF LoadedDocument
<1>5. CASE User
  <2>1. ASSUME NEW u \in Tabs, Edit(u) \/ Undo(u) PROVE Goal
    <3>1. CASE u # t
      BY <1>2, <2>1, <3>1, Zenon DEF Edit, Undo
    <3>2. CASE u = t
      <4>1. ASSUME NEW data, NEW dirty,
                   docs' = [docs EXCEPT ![t].data = data, ![t].crev = @ + 1, ![t].dirty = dirty]
            PROVE  docs'[t].st = docs[t].st /\ docs'[t].crev = docs[t].crev + 1
        BY <1>2, <4>1, Zenon DEF Documents
      <4>2. CASE Edit(u)
        <5>1. docs' = [docs EXCEPT ![t].data = nextData, ![t].crev = @ + 1, ![t].dirty = TRUE]
          BY <3>2, <4>2, Zenon DEF Edit
        <5> QED
          BY <4>1, <5>1, Zenon
      <4>3. CASE Undo(u)
        <5>1. docs' = [docs EXCEPT ![t].data = docs[t].clean, ![t].crev = @ + 1, ![t].dirty = FALSE]
          BY <3>2, <4>3, Zenon DEF Undo
        <5> QED
          BY <4>1, <5>1, Zenon
      <4> QED
        BY <2>1, <4>2, <4>3
    <3> QED
      BY <3>1, <3>2
  <2>2. ASSUME NEW u \in Tabs, Close(u) PROVE Goal
    BY <1>2, <2>2 DEF Close, IsOpen, Documents
  <2>3. ASSUME NEW u \in Tabs, NEW p \in Paths, OpenFile(u, p) PROVE Goal
    BY <1>4, <2>3 DEF OpenFile
  <2>4. ASSUME NEW u \in Tabs,
               Save(u) \/ SaveBeforeClose(u) \/ \E p \in Paths : SaveAs(u, p)
        PROVE  Goal
    BY <1>3, <2>4 DEF Save, SaveBeforeClose, SaveAs, SubmitSave
  <2> QED
    BY <1>5, <2>1, <2>2, <2>3, <2>4 DEF User
<1>6. CASE ApplyObservation
  <2> DEFINE o == Head(batch)
  <2>1. o \in Observations /\ o.tab \in Tabs /\ (o.outcome.kind = "reload" => ~o.dirty)
    <3>1. batch \in Seq(Observations) /\ batch # <<>>
      BY <1>2, <1>6 DEF ApplyObservation, TypeOK
    <3>2. o \in Observations /\ o \in ToSet(batch)
      BY <3>1, ElementsOf, HeadTailProperties
    <3> QED
      BY <3>2 DEF Observations, IInv, ReloadsAreForClean
  <2> HIDE DEF o
  <2>2. \A p, rev : docs' = Rebound(o.tab, p, rev) => Goal
    BY <1>2, <2>1, TextKept
  <2>3. CASE ApplyStale(o) \/ ApplyNothing(o)
    BY <1>3, <2>3 DEF ApplyStale, ApplyNothing
  <2>4. CASE ApplyReload(o) /\ IsCurrent(o) /\ IsOpen(o.tab)
    <3>1. CASE o.tab # t
      BY <1>2, <2>4, <3>1 DEF ApplyReload
    <3>2. CASE o.tab = t
      BY <1>2, <2>1, <2>4, <3>2 DEF ApplyReload, IsCurrent, IsOpen, LoadedDocument
    <3> QED
      BY <3>1, <3>2
  <2>5. CASE ApplyConflict(o)
    <3> DEFINE rebound == Rebound(o.tab, o.outcome.path, o.outcome.rev)
    <3>1. rebound[t].data = docs[t].data /\ rebound[t].st = docs[t].st
      BY <1>2, <2>1, TextKept
    <3>2. DOMAIN rebound = Tabs
      BY <1>2 DEF Rebound
    <3> HIDE DEF rebound
    <3>3. CASE docs' = rebound
      BY <3>1, <3>3
    <3>4. ASSUME NEW u \in Tabs, docs[u].st = "fresh",
                 docs' = [rebound EXCEPT ![u] = LoadedDocument(o.path, o.outcome.data)]
          PROVE  Goal
      BY <3>1, <3>2, <3>4 DEF LoadedDocument
    <3> QED
      BY <2>5, <3>3, <3>4 DEF ApplyConflict, rebound
  <2>6. CASE ApplyRename(o)
    BY <2>2, <2>6 DEF ApplyRename
  <2>7. CASE ApplyDetach(o)
    BY <1>2, <2>1, <2>7, TextKept DEF ApplyDetach
  <2> QED
    BY <1>6, <2>3, <2>4, <2>5, <2>6, <2>7 DEF ApplyObservation, o
<1>7. CASE ApplyCompletion
  <2> DEFINE s == Head(applying)
             saved == SavedDocument(docs[s.tab], s)
  <2>1. s.tab \in Tabs
    <3>1. s \in Completions
      BY <1>2, <1>7, HeadTailProperties DEF ApplyCompletion, TypeOK
    <3> QED
      BY <3>1 DEF Completions
  <2>2. saved.data = docs[s.tab].data /\ saved.st = docs[s.tab].st
    BY <1>2, <2>1, TextKept
  <2>3. [saved EXCEPT !.st = "closed"].data = saved.data /\ [saved EXCEPT !.st = "closed"].st = "closed"
    <3>1. saved \in Documents
      BY <1>2, <1>7, SavedDocumentType DEF ApplyCompletion
    <3> HIDE DEF saved
    <3> QED
      BY <3>1 DEF Documents
  <2> HIDE DEF s, saved
  <2>4. CASE CompletionFailed(s) \/ CompletionOfClosed(s)
    BY <1>3, <2>4 DEF CompletionFailed, CompletionOfClosed
  <2>5. CASE CompletionApplied(s)
    <3>1. docs[s.tab].st = "open"
      BY <2>5 DEF CompletionApplied, IsOpen
    <3>2. \/ docs' = [docs EXCEPT ![s.tab] = saved]
          \/ docs' = [docs EXCEPT ![s.tab] = [saved EXCEPT !.st = "closed"]]
      BY <2>5 DEF CompletionApplied, saved
    <3> QED
      BY <1>2, <2>1, <2>2, <2>3, <3>1, <3>2
  <2> QED
    BY <1>7, <2>4, <2>5 DEF ApplyCompletion, s
<1>8. CASE SubmitChecks \/ (\E u \in Tabs : SubmitCandidate(u)) \/ BeginDrain \/ DrainNext
           \/ EndDrain \/ BeginSaveResults \/ EndServing
  BY <1>3, <1>8 DEF SubmitChecks, SubmitCandidate, BeginDrain, DrainNext, EndDrain,
                    BeginSaveResults, EndServing
<1>9. CASE Worker
  BY <1>3, <1>9 DEF Worker, Track, Observe, WorkerSave, Acknowledge, ui
<1>10. CASE Outside
  BY <1>3, <1>10 DEF Outside, OutsideWrite, OutsideEcho, OutsideDelete, OutsideRename,
                     OutsideStep, ui
<1> QED
  BY <1>5, <1>6, <1>7, <1>8, <1>9, <1>10 DEF Next, EventLoop

\* No reload, rename, conflict, deletion or save completion, in whatever order they are
\* applied, changes the text of a document with unsaved edits.
THEOREM UnsavedTextIsKept == Spec => DirtyTextKept
<1>1. IInv /\ [Next]_vars =>
        \A t \in Tabs : IsOpen(t) /\ docs[t].dirty /\ docs'[t].data # docs[t].data
                        => docs'[t].crev = docs[t].crev + 1
  <2> SUFFICES ASSUME IInv, [Next]_vars, NEW t \in Tabs, IsOpen(t), docs[t].dirty,
                      docs'[t].data # docs[t].data
               PROVE  docs'[t].crev = docs[t].crev + 1
    OBVIOUS
  <2>1. Next
    BY DEF vars, ui
  <2> QED
    BY <2>1, DocumentStep
<1> QED
  BY <1>1, InductiveInvariant, PTL DEF Spec, DirtyTextKept

-----------------------------------------------------------------------------
(* Requests and saves that are waited for are under way *)

\* Every actor but the worker only adds to the queue.
LEMMA SendingKeeps ==
    ASSUME TypeOK, RoundOnFiles, User \/ EventLoop \/ Outside
    PROVE  ToSet(queue) \subseteq ToSet(queue')
<1>1. \A c : ToSet(queue) \subseteq ToSet(Append(queue, c))
  <2>1. queue \in Seq(Commands)
    BY DEF TypeOK
  <2> QED
    BY <2>1, ElementsOf
<1>2. CASE User
  BY <1>1, <1>2 DEF User, Edit, Undo, Save, SaveAs, SaveBeforeClose, SubmitSave, Close, OpenFile
<1>3. ASSUME NEW t \in Tabs, SubmitCandidate(t) PROVE ToSet(queue) \subseteq ToSet(queue')
  <2> DEFINE p == docs[t].path
             track == IF tracked[t] = p THEN <<>> ELSE <<TrackCommand(p)>>
             both == queue \o track
  <2>1. both \in Seq(Commands) /\ ToSet(queue) \subseteq ToSet(both)
    <3>1. p \in Paths
      BY <1>3 DEF SubmitCandidate, RoundOnFiles, TypeOK, Documents, MaybePath
    <3>2. queue \in Seq(Commands) /\ track \in Seq(Commands)
      BY <3>1, CommandTypes DEF TypeOK
    <3> HIDE DEF track
    <3> QED
      BY <3>2, ElementsOf
  <2>2. \/ \E c : queue' = Append(queue, c)
        \/ \E c : queue' = Append(both, c)
        \/ queue' = both
    BY <1>3 DEF SubmitCandidate
  <2> HIDE DEF both
  <2>3. \A c : ToSet(both) \subseteq ToSet(Append(both, c))
    BY <2>1, ElementsOf
  <2> QED
    BY <1>1, <2>1, <2>2, <2>3
<1>4. CASE ApplyCompletion
  <2>1. queue' = queue \/ \E c : queue' = Append(queue, c)
    BY <1>4 DEF ApplyCompletion, CompletionFailed, CompletionOfClosed, CompletionApplied
  <2> QED
    BY <1>1, <2>1
<1>5. CASE SubmitChecks \/ BeginDrain \/ DrainNext \/ EndDrain \/ ApplyObservation
           \/ BeginSaveResults \/ EndServing \/ Outside
  <2>1. queue' = queue
    BY <1>5 DEF SubmitChecks, BeginDrain, DrainNext, EndDrain, ApplyObservation, BeginSaveResults,
                EndServing, Outside, OutsideWrite, OutsideEcho, OutsideDelete, OutsideRename,
                OutsideStep
  <2> QED
    BY <2>1
<1> QED
  BY <1>2, <1>3, <1>4, <1>5 DEF EventLoop

\* The worker takes the head of the queue.
LEMMA WorkerTakes ==
    ASSUME TypeOK, Worker
    PROVE  queue # <<>> /\ ToSet(queue) = {Head(queue)} \cup ToSet(queue')
<1>1. queue # <<>> /\ queue' = Tail(queue)
  BY DEF Worker, Track, Observe, WorkerSave, Acknowledge, ObserveMissing, ObserveChanged, Report,
         WorkerHas
<1>2. queue \in Seq(Commands)
  BY DEF TypeOK
<1> QED
  BY <1>1, <1>2, ElementsOf

\* What the worker answers: an observation gets the id it was asked with.
LEMMA WorkerAnswers ==
    ASSUME TypeOK, Worker
    PROVE  /\ ToSet(results) \subseteq ToSet(results')
           /\ Head(queue).op \in {"observe", "reconcile"} =>
                 \E r \in ToSet(results') : r.kind = "observed" /\ r.id = Head(queue).id
<1>1. \A r : ToSet(Append(results, r)) = ToSet(results) \cup {r}
  <2>1. results \in Seq(Results)
    BY DEF TypeOK
  <2> QED
    BY <2>1, ElementsOf
<1>2. results' = results \/ \E r : results' = Append(results, r)
  BY DEF Worker, Track, Observe, WorkerSave, Acknowledge, ObserveMissing, ObserveChanged, Report
<1>3. ASSUME Head(queue).op \in {"observe", "reconcile"}
      PROVE  \E r \in ToSet(results') : r.kind = "observed" /\ r.id = Head(queue).id
  <2>1. Observe
    BY <1>3 DEF Worker, Track, WorkerSave, Acknowledge, WorkerHas
  <2>2. \E outcome : results' = Append(results, ObservedResult(Head(queue), outcome))
    BY <2>1 DEF Observe, ObserveMissing, ObserveChanged, Report
  <2>3. \A outcome : LET r == ObservedResult(Head(queue), outcome)
                     IN  r.kind = "observed" /\ r.id = Head(queue).id
    BY DEF ObservedResult
  <2> QED
    BY <1>1, <2>2, <2>3
<1> QED
  BY <1>1, <1>2, <1>3

\* The observation a request waits for is in the queue or in the results until the
\* session takes it, which forgets the request.
LEMMA PendingStep == ASSUME TypeOK, RoundOnFiles, PendingIsInFlight, Next PROVE PendingIsInFlight'
<1> SUFFICES ASSUME NEW id \in RequestIds, pending'[id] # None PROVE InFlight(id)'
  BY DEF PendingIsInFlight
<1>1. ASSUME ToSet(queue) \subseteq ToSet(queue'), ToSet(results) \subseteq ToSet(results'), InFlight(id)
      PROVE  InFlight(id)'
  BY <1>1 DEF InFlight
<1>2. CASE Worker
  <2>1. pending' = pending
    BY <1>2 DEF Worker, Track, Observe, WorkerSave, Acknowledge, ui, session
  <2>2. InFlight(id)
    BY <2>1 DEF PendingIsInFlight
  <2> QED
    BY <1>2, <2>2, WorkerTakes, WorkerAnswers DEF InFlight
<1>3. CASE DrainNext
  <2> DEFINE r == Head(results)
  <2>1. ToSet(results) = {r} \cup ToSet(results') /\ r \in Results
    <3>1. results \in Seq(Results) /\ results # <<>> /\ results' = Tail(results)
      BY <1>3 DEF DrainNext, TypeOK
    <3> QED
      BY <3>1, ElementsOf, HeadTailProperties
  <2>2. queue' = queue
    BY <1>3 DEF DrainNext
  <2> HIDE DEF r
  <2>3. /\ r.kind = "observed" => pending' = [pending EXCEPT ![r.id] = None]
        /\ r.kind # "observed" => pending' = pending
    BY <1>3 DEF DrainNext, r, session
  <2>4. pending[id] # None /\ (r.kind = "observed" => r.id # id)
    BY <2>3 DEF TypeOK
  <2> QED
    BY <2>1, <2>2, <2>4 DEF PendingIsInFlight, InFlight
<1>4. ASSUME User \/ EventLoop \/ Outside, results' = results, pending[id] # None
      PROVE  InFlight(id)'
  BY <1>1, <1>4, SendingKeeps DEF PendingIsInFlight
<1>5. ASSUME UNCHANGED session \/ \E t : ForgetTab(t) PROVE pending[id] # None
  BY <1>5 DEF session, ForgetTab
<1>6. ASSUME NEW t \in Tabs, SubmitCandidate(t) PROVE InFlight(id)'
  <2> DEFINE p == docs[t].path
             track == IF tracked[t] = p THEN <<>> ELSE <<TrackCommand(p)>>
  <2>1. /\ \A n : LET c == SnapshotCommand("observe", t, p, n) IN c.op = "observe" /\ c.id = n
        /\ \A n : LET c == SnapshotCommand("reconcile", t, p, n) IN c.op = "reconcile" /\ c.id = n
    BY DEF SnapshotCommand
  <2>2. CASE pending[id] # None
    <3>1. results' = results
      BY <1>6 DEF SubmitCandidate
    <3> QED
      BY <1>4, <1>6, <2>2, <3>1 DEF EventLoop
  <2>3. CASE pending[id] = None
    <3>1. PICK n \in FreeIds :
             /\ AllocateRequest(t, n)
             /\ \/ queue' = Append(queue, SnapshotCommand("reconcile", t, p, n))
                \/ queue' = Append(queue \o track, SnapshotCommand("observe", t, p, n))
      BY <1>6, <2>3 DEF SubmitCandidate, track
    <3>2. n = id
      BY <2>3, <3>1 DEF AllocateRequest, TypeOK
    <3>3. \E c \in ToSet(queue') : c.op \in {"observe", "reconcile"} /\ c.id = id
      <4>1. p \in Paths
        BY <1>6 DEF SubmitCandidate, RoundOnFiles, TypeOK, Documents, MaybePath
      <4>2. track \in Seq(Commands) /\ queue \in Seq(Commands)
        BY <4>1, CommandTypes DEF TypeOK
      <4> HIDE DEF track
      <4> DEFINE both == queue \o track
      <4>3. both \in Seq(Commands)
        BY <4>2
      <4> HIDE DEF both
      <4>4. \A c : c \in ToSet(Append(both, c)) /\ c \in ToSet(Append(queue, c))
        BY <4>2, <4>3, ElementsOf
      <4> QED
        BY <2>1, <3>1, <3>2, <4>4 DEF both
    <3> QED
      BY <3>3 DEF InFlight
  <2> QED
    BY <2>2, <2>3
<1>7. CASE User
  <2>1. results' = results /\ (UNCHANGED session \/ \E t : ForgetTab(t))
    BY <1>7 DEF User, Edit, Undo, Save, SaveAs, SaveBeforeClose, SubmitSave, Close, OpenFile
  <2> QED
    BY <1>4, <1>5, <1>7, <2>1
<1>8. CASE ApplyObservation \/ ApplyCompletion
  <2>1. results' = results /\ (UNCHANGED session \/ \E t : ForgetTab(t))
    BY <1>8 DEF ApplyObservation, ApplyStale, ApplyNothing, ApplyReload, ApplyConflict, ApplyRename,
                ApplyDetach, ApplyCompletion, CompletionFailed, CompletionOfClosed, CompletionApplied
  <2> QED
    BY <1>4, <1>5, <1>8, <2>1 DEF EventLoop
<1>9. CASE SubmitChecks \/ BeginDrain \/ EndDrain \/ BeginSaveResults \/ EndServing \/ Outside
  <2>1. results' = results /\ UNCHANGED session
    BY <1>9 DEF SubmitChecks, BeginDrain, EndDrain, BeginSaveResults, EndServing, ui,
                Outside, OutsideWrite, OutsideEcho, OutsideDelete, OutsideRename, OutsideStep
  <2> QED
    BY <1>4, <1>5, <1>9, <2>1 DEF EventLoop
<1> QED
  BY <1>2, <1>3, <1>6, <1>7, <1>8, <1>9 DEF Next, EventLoop

\* submit_candidates skips a document for which the same request is pending; that
\* request is answered some day, because its command or its result is still there.
THEOREM PendingRequestsAreInFlight == Spec => []PendingIsInFlight
<1>1. Init => PendingIsInFlight
  BY DEF Init, PendingIsInFlight
<1>2. IInv /\ PendingIsInFlight /\ [Next]_vars => PendingIsInFlight'
  <2> SUFFICES ASSUME IInv, PendingIsInFlight, [Next]_vars PROVE PendingIsInFlight'
    OBVIOUS
  <2>1. CASE Next
    BY <2>1, PendingStep DEF IInv
  <2>2. CASE UNCHANGED vars
    BY <2>2 DEF PendingIsInFlight, InFlight, vars, ui, session
  <2> QED
    BY <2>1, <2>2
<1> QED
  BY <1>1, <1>2, InductiveInvariant, PTL DEF Spec

\* A save that is under way stays so until its completion is applied.
LEMMA SaveStep ==
    ASSUME TypeOK, RoundOnFiles, OneHandler, Next, NEW t \in Tabs, SaveOutstanding(t)
    PROVE  SaveOutstanding(t)' \/ (ApplyCompletion /\ Head(applying).tab = t)
<1>0. completions \in Seq(Completions) /\ applying \in Seq(Completions)
  BY DEF TypeOK
<1>1. \A s : ToSet(Append(completions, s)) = ToSet(completions) \cup {s}
  BY <1>0, ElementsOf
<1>2. CASE Worker
  <2>1. applying' = applying
    BY <1>2 DEF Worker, Track, Observe, WorkerSave, Acknowledge, ui, phase
  <2>2. /\ ToSet(completions) \subseteq ToSet(completions')
        /\ Head(queue).op = "save" => \E s \in ToSet(completions') : s.tab = Head(queue).tab
    <3>1. CASE WorkerSave
      <4>1. \E rev : completions' = Append(completions, SaveCompletion(Head(queue), rev))
        BY <3>1 DEF WorkerSave
      <4>2. \A rev : SaveCompletion(Head(queue), rev).tab = Head(queue).tab
        BY DEF SaveCompletion
      <4> QED
        BY <1>1, <4>1, <4>2
    <3>2. CASE Track \/ Observe \/ Acknowledge
      BY <3>2 DEF Track, Observe, Acknowledge, WorkerHas
    <3> QED
      BY <1>2, <3>1, <3>2 DEF Worker
  <2> QED
    BY <1>2, <2>1, <2>2, WorkerTakes DEF SaveOutstanding
<1>4. CASE BeginSaveResults
  <2>1. applying = <<>> /\ applying' = completions /\ queue' = queue
    BY <1>4 DEF BeginSaveResults, Idle
  <2>2. ToSet(applying) = {}
    BY <2>1 DEF ToSet
  <2> QED
    BY <2>1, <2>2 DEF SaveOutstanding
<1>5. CASE ApplyCompletion
  <2>1. /\ applying # <<>> /\ applying' = Tail(applying) /\ completions' = completions
    BY <1>5 DEF ApplyCompletion
  <2>2. ToSet(applying) = {Head(applying)} \cup ToSet(applying')
    BY <1>0, <2>1, ElementsOf
  <2>3. ToSet(queue) \subseteq ToSet(queue')
    BY <1>5, SendingKeeps DEF EventLoop
  <2> QED
    BY <1>5, <2>1, <2>2, <2>3 DEF SaveOutstanding
<1>6. CASE User \/ SubmitChecks \/ (\E u \in Tabs : SubmitCandidate(u)) \/ BeginDrain \/ DrainNext
           \/ EndDrain \/ ApplyObservation \/ EndServing \/ Outside
  <2>1. UNCHANGED <<completions, applying>>
    BY <1>6 DEF User, Edit, Undo, Save, SaveAs, SaveBeforeClose, SubmitSave, Close, OpenFile,
                SubmitChecks, SubmitCandidate, BeginDrain, DrainNext, EndDrain, ApplyObservation,
                EndServing, ui, phase,
                Outside, OutsideWrite, OutsideEcho, OutsideDelete, OutsideRename, OutsideStep
  <2>2. ToSet(queue) \subseteq ToSet(queue')
    BY <1>6, SendingKeeps DEF EventLoop
  <2> QED
    BY <2>1, <2>2 DEF SaveOutstanding
<1> QED
  BY <1>2, <1>4, <1>5, <1>6 DEF Next, EventLoop

\* A tab joins pending_close_after_save together with its save, and every completion of
\* its own takes it out again or closes it.
LEMMA ClosingStep == ASSUME IInv, ClosingTabAwaitsSave, Next PROVE ClosingTabAwaitsSave'
<1>0. TypeOK /\ RoundOnFiles /\ OneHandler
  BY DEF IInv
<1> SUFFICES ASSUME NEW t \in pendingClose', docs'[t].st # "closed"
             PROVE  IsOpen(t)' /\ SaveOutstanding(t)'
  BY DEF ClosingTabAwaitsSave
<1>1. ASSUME t \in pendingClose
      PROVE  /\ t \in Tabs /\ docs[t].st = "open" /\ docs'[t].st = "open"
             /\ SaveOutstanding(t)
  <2>1. t \in Tabs
    BY <1>0, <1>1 DEF TypeOK
  <2> QED
    BY <1>1, <2>1, DocumentStep DEF ClosingTabAwaitsSave, IsOpen
<1>2. ASSUME t \in pendingClose, ~(ApplyCompletion /\ Head(applying).tab = t)
      PROVE  IsOpen(t)' /\ SaveOutstanding(t)'
  BY <1>0, <1>1, <1>2, SaveStep DEF IsOpen
<1>3. ASSUME ApplyCompletion, Head(applying).tab = t PROVE FALSE
  <2> DEFINE s == Head(applying)
  <2>1. t \in pendingClose
    BY <1>3 DEF ApplyCompletion, CompletionFailed, CompletionOfClosed, CompletionApplied
  <2>2. IsOpen(t)
    BY <1>1, <2>1 DEF IsOpen
  <2>3. pendingClose' = pendingClose \ {t}
    BY <1>3, <2>2 DEF ApplyCompletion, CompletionFailed, CompletionOfClosed, CompletionApplied
  <2> QED
    BY <2>3
<1>4. ASSUME t \notin pendingClose PROVE IsOpen(t)' /\ SaveOutstanding(t)'
  <2>1. pendingClose' # pendingClose /\ ~(pendingClose' \subseteq pendingClose)
    BY <1>4
  <2>2. User
    <3>1. CASE EventLoop
      BY <2>1, <3>1 DEF EventLoop, SubmitChecks, SubmitCandidate, BeginDrain, DrainNext, EndDrain,
            ApplyObservation, BeginSaveResults, ApplyCompletion, EndServing,
            CompletionFailed, CompletionOfClosed, CompletionApplied
    <3>2. CASE Worker
      BY <2>1, <3>2 DEF Worker, Track, Observe, WorkerSave, Acknowledge, ui
    <3>3. CASE Outside
      BY <2>1, <3>3 DEF Outside, OutsideWrite, OutsideEcho, OutsideDelete, OutsideRename,
            OutsideStep, ui
    <3> QED
      BY <3>1, <3>2, <3>3 DEF Next
  <2>3. PICK u \in Tabs : SaveBeforeClose(u)
    BY <2>1, <2>2 DEF User, Edit, Undo, Save, SaveAs, SubmitSave, Close, OpenFile
  <2>4. u = t /\ IsOpen(t) /\ docs' = docs
    BY <1>4, <2>3 DEF SaveBeforeClose, SubmitSave
  <2>5. \E c \in ToSet(queue') : c.op = "save" /\ c.tab = t
    <3>1. queue' = Append(queue, SaveCommand(t, docs[t].path))
      BY <2>3, <2>4 DEF SaveBeforeClose, SubmitSave
    <3>2. \A c : c \in ToSet(Append(queue, c))
      <4>1. queue \in Seq(Commands)
        BY <1>0 DEF TypeOK
      <4> QED
        BY <4>1, ElementsOf
    <3>3. SaveCommand(t, docs[t].path).op = "save" /\ SaveCommand(t, docs[t].path).tab = t
      BY DEF SaveCommand
    <3> QED
      BY <3>1, <3>2, <3>3
  <2> QED
    BY <2>4, <2>5 DEF SaveOutstanding, IsOpen
<1> QED
  BY <1>2, <1>3, <1>4

\* Closing a tab with "save" never leaves it marked to close without a save that will
\* settle the matter.
THEOREM ClosingTabsAwaitTheirSave == Spec => []ClosingTabAwaitsSave
<1>1. Init => ClosingTabAwaitsSave
  BY DEF Init, ClosingTabAwaitsSave
<1>2. IInv /\ ClosingTabAwaitsSave /\ [Next]_vars => ClosingTabAwaitsSave'
  <2> SUFFICES ASSUME IInv, ClosingTabAwaitsSave, [Next]_vars PROVE ClosingTabAwaitsSave'
    OBVIOUS
  <2>1. CASE Next
    BY <2>1, ClosingStep
  <2>2. CASE UNCHANGED vars
    BY <2>2 DEF ClosingTabAwaitsSave, SaveOutstanding, IsOpen, vars, ui, phase
  <2> QED
    BY <2>1, <2>2
<1> QED
  BY <1>1, <1>2, InductiveInvariant, PTL DEF Spec

=============================================================================
