# Textora and Notora: a TLA+ model of saving, editing and keeping notes

Textora is a desktop text editor, Notora a note application built from the same crates.
This directory holds TLA+ modules translated from that code, the TLC configurations that
check them on small instances, and TLAPS proofs of the most important results for every
value of the constants.

    tlc -config FS_saves.cfg MCFileSafety.tla     # one of the runs of PROJECT.json
    tlapm FileSafety_proofs.tla                   # one of the proof modules

All paths below are relative to `src/crates/`.

## 1. The system

| Component | State | Operations | Talks to |
|---|---|---|---|
| File-safety monitor and worker, `appkit-core/src/file_safety.rs` | `revisions`: path -> observed or saved `DiskRevision` with its predecessors | track, observe, reconcile a dirty snapshot, save, acknowledge a save; conflict copies, rename detection | one thread; FIFO command channel in, result channel and a wake out |
| File-safety session, `appkit-shell/src/editor_runtime/file_safety_session.rs`, `app/src/app_lifecycle.rs` | `tracked_paths`, `path_to_tab`, `pending_requests` | submit a check of every file tab, drain and filter the answers, apply them | UI thread; owns the worker |
| Document saving, `editor_runtime/document_save.rs`, `model_session.rs`, `appkit-core/src/document/model.rs`, `app/src/dispatch` | `content_revision`, `disk_revision`, `dirty`, `pending_close_after_save` | save, save as, save and close, apply a completion | the file worker (Textora) or a thread per save (Notora) |
| Atomic replacement, `core/src/file.rs`, `disk_revision.rs` | a counter of temporary names; the file system | `save_file_if_unchanged` | called by the worker or the save threads |
| Edit history, `core/src/buffer/{edit,history,text_buffer}.rs`, `appkit-core/src/edit.rs`, `app/src/{edit_transaction,commands}.rs` | undo and redo stacks, generation, merge anchor, type of the last edit | transactions, direct commands, groups, undo, redo, caret moves | `DocumentModel`, saves |
| Note commands, trash and recovery, `notora-core/src/{note_command,trash,workspace}.rs`, `catalog` | note files; SQLite rows of notes, trash entries and unfinished path operations | create, rename, move, trash, restore, delete, empty the trash; recovery at start | one workspace worker; the files |
| Scan and reconciliation, `notora-core/src/{scan,reconciliation}.rs`, `notora-app/src/workspace_controller.rs` | the watcher's events, the scan under way, paths to confirm | full, targeted and confirming scans; matching of renamed notes | the worker, the watcher, the catalog |
| Open notes, `notora-app/src/{runtime,autosave,document_registry,runtime_lru}.rs` and `runtime/` | tabs, registry, scheduler per tab, deferred moves, preview | select, edit, auto-save, save, move, trash, retry, switch, exit | save threads, workspace worker |
| Hot exit, `app/src/workspace_persistence.rs`, `appkit-core/src/{snapshot,workspace/store}.rs` | session file, one snapshot per dirty tab | persist, quit, cleanup, restore | documents, file-safety checks and saves |
| Sync control plane, `sync/src`, `app/src/sync_controller.rs` | library registry, provisioning stage, requests | provision, scan, events | Syncthing over HTTP |
| Reshape worker, library monitor, tab and pane layout, search, markdown, lsh, shaping, rendering, ui, encryption | caches, trees, frames | | the UI thread |

What is hard here: the UI thread, the file worker and the outside world (a sync tool that
writes, deletes and renames files at any moment) act concurrently; every answer is about a
document as it was when the question was asked; every file operation can fail half-way, be
interrupted by a crash, or succeed and report an error; the undo history merges, groups and
reverses edits in any order; a note's identity lives in a database and its text in a file,
and no transaction spans both. Each place where this bites is in `hazards` of PROJECT.json,
with the properties that watch it.

What makes each component correct:

- monitor, session, saving: no content written outside is replaced by a save prepared
  before it; no typed text is replaced by a reload; own saves are never taken for outside
  changes; a document is clean only when its text is in the file; every check is answered;
- atomic replacement: readers see whole files, success is durable, what the comparison
  would have caught is not overwritten;
- edit history: undo and redo lead through texts that were shown, in order;
- notes: the catalog and the files agree between two commands and after any crash the
  journal covers; no command destroys a file it was not asked to; a note that another
  program renames keeps its identity; the catalog ends up with the files there are;
- open notes: one tab per note; text that was typed is in a file, a snapshot or a tab that
  says it is unsaved; every edit is saved or its failure recorded; a note moves only with
  its text;
- hot exit: a quit gives every unsaved tab back; whatever stops the program, the session's
  unsaved tabs have their snapshots; a restored text replaces nothing nobody saw;
- sync: each request meets its own answer.

## 2. Modules

### FileSafety: saving against an outside world

`FileSafety.tla` models the first three components together: they are one pipeline whose
hazards lie between them. `disk` is the directory; `docs`, `tracked`, `pathTab`, `pending`
and `pendingClose` are the UI thread's state, `monitor` the worker's; `queue`, `results`
and `completions` are the three channels.

- *UI thread.* `EventLoop` is what the loop does of itself: a round of checks
  (`SubmitChecks`, one `SubmitCandidate` per tab), draining (one result at a time, as the
  channel is shared with the running worker), applying observations and completions. A
  handler runs to its end before the next one starts, but the worker and the outside world
  move between its steps: this is what `todo`, `draining`, `batch` and `applying` hold.
  User actions (`Edit`, `Undo`, `Save`, `SaveAs`, `SaveBeforeClose`, `Close`, `OpenFile`)
  come between handlers; posted wakes come first (`UserTurn`).
- *Worker.* One action per command, each with its whole effect: monitor entry, conflict
  copy, saved file, answer. A save here is one step; AtomicSave takes it apart.
- *Outside.* Writes, deletions, renames, restored content.

A file's content is a number. A `DiskRevision` is a record with a fresh `id` per write.
Its fields `by` and `lineage` are history: no guard reads them. They say which tab's save
wrote the file and from which revisions it descends through an unbroken run of own saves;
the properties about lost outside content are stated with them.

`Env` lists the user and outside events an instance allows, so that each run spends its
states on one question; the union over the runs is everything.

### AtomicSave: one call at a time

`AtomicSave.tla` is `save_file_if_unchanged` with one action per file-system call
(`ReadMeta`, `ReadHash`, `CreateTemp`, `WriteTemp`, `SyncTemp`, `Rename`, `SyncDirectory`,
`Cleanup`), for several threads on the same path. Any call may fail; other programs write
or delete the file between any two calls; the process may be killed (temporary files stay,
the name counter starts again) and the power cut. `entry` is the file at the path,
`survivors` what a power cut may leave there: everything the path led to since its
directory was last synced, and a torn file if a temporary file was renamed unsynced.

`SaveContract.tla` is the promise in four steps (begin, replace, settle, succeed or fail)
and `ImplementsContract` the refinement, with `Status` as the mapping.

### EditHistory: undo, redo and the dirty flag

`EditHistory.tla` has the text buffer with its undo and redo stacks. `Begin`, `Replaced`,
`ReplaceRange` and `UndoRedo` translate `edit_begin`, `edit_write`/`edit_delete`,
`replace_range_with_history` and `undo_redo` with what they do to the cursor, the
generation, the type of the last edit and the merge anchor. The loop of `undo_redo` is in
closed form (`Moved`): `GroupSize` says how many rounds it takes, `TextsBack` what the text
is after each, so that the module stays within reach of the provers. The actions are the commands
as the applications reach them: transactions of a plan (`InsertText`, `DeleteText`,
`ReplaceText`), grouped replacements (search and replace, `ReplaceGroup`), the direct
commands (`InsertChar`, `DeleteChar`), undo, redo, caret moves, and the save that completes
any time later. Texts are sequences of one-byte characters on one line, so logical
positions and offsets are the same numbers; selections are the ranges the commands take.

`TextTimeline.tla` is what the user expects: a present, the texts undo returns to and
those redo returns to. `Shown` computes both from the stacks (entries of one generation
count as one) and is the refinement mapping of `ImplementsTimeline`.

`Env = {}` leaves out a direct deletion while undone edits can still be redone: with it
(`"deleteAfterUndo"`) the code breaks the timeline, which is the finding of `EH_undo`;
`EH_edits` shows that everything else keeps it.

### NoteStore and NoteIndex: the notes of a workspace

`NoteStore.tla` is the worker's side of a Notora workspace: `disk` (the files, those below
`.notora` too: trash, delete staging and the hop of a case-only rename), `rows` and `ops`
(the catalog's tables of notes, trash entries and unfinished path operations) and `job`,
the command under way. A command is one action per file-system call or transaction
(`Rename`, `RenameMove`, `RenameMark`, `RenameCommit`, `RenameFinish`, and the way back
`RenameUndo`, `RenameRolledBack`; likewise for create, move, trash, restore and delete), each
of which may fail (`FailsUnless`), and `Crash` may come between any two. `Start` and the
`Recover...` actions are `recover_note_path_operations`, which decides by the existence of
source and target and by the row (`RolledBack`, `MovedOnly`, `Committed`), or refuses to open
the workspace. Between two names that collide (`CaseOnly`) every one of these moves takes two
hops, by way of a temporary name, with a third call that returns the file when the second
fails (`move_file_case_only`): `RenameHop`, `RenameHopped`, `RenameUnhop` for the rename,
`RenameUndoHop`, `RenameUndoHopped`, `RenameUndoUnhop` for its way back, `RecoverHop`,
`RecoverHopped`, `RecoverUnhop` for the recovery's move. The file system is one that tells the
two names apart (section 5).

`NoteIndex.tla` adds what keeps the catalog up with the disk: the watcher (`watch`,
`events`), the full scan at start and after each command, the targeted scan of a batch of
events, the confirming scan of what a scan missed (`confirm`), each reading one file at a
time (`ReadFile`), then matching (`Reconcile`: hints of the watcher first, then unique
contents) and applying (`ApplyScan`). Other programs create, edit, rename and delete files
between any two steps. A file carries the note it was born as (`doc`, history), which is
how the properties know whose file is whose. `cut` (history) are the notes whose file a fault
in a command without a journal, or another program in the middle of something, parted from
its row; `strayed` those whose file was renamed with nothing else going on.

### NoteEditing: open notes and their saves

`NoteEditing.tla` models Notora's event loop as a value `ui` (tabs, registry order,
scheduler states, deferred moves, preview, selection, phase) that each handler maps to the
next: the operators on `ui` are named after the methods (`Scheduled`, `Submitted`,
`Acknowledged`, `AutoEnds`, `Ready`, `Activated`, `Evicted`, `Rebound`), the actions are the
handlers. `saves` are threads, one per save, each with the path, text, revision and
expected file it was prepared with: two of one note may run together and complete in any
order. `jobs` and `done` are the workspace worker's queues. Draining the completions and
applying what follows from them are two phases, as in `runtime.rs`. The registry is a set of
tabs with the order in which they were used (`registered`, `before`); each selection of a
note has a number (`generation`), and a document the worker prepared is installed only if it
answers the selection there is now. The last part of every handler is `Settled`
(`reconcile_workspace_transition_saves`); `Becomes(u)` ends a handler that made `u`.

### HotExit: sessions and snapshots

`HotExit.tla` models what Textora writes so that unsaved tabs survive: a persist
(`PersistTab` per tab, then `PersistSession`), the quit, a kill between any two writes, the
start (`Start` removes the snapshots the session does not name, `Load` restores). `docs`,
`session` and `snapshots` are the tabs, the session file and the `.dirty` files, whose
names are a tab's path or an id of its own. Edits, saves with their late completions, the
checks with their four results, tabs that come and go, and other programs run around it.
Checks (one step) and saves (two) are FileSafety's in short, because what a restart brings
back matters only through what the next check and save make of it.

### Property and instance modules

The `...Props` modules hold the properties, the `MC...` modules the small sets the cfg
files use, the `..._proofs` modules the theorems. A definition commented as a mutated form
(`IsCurrentPath`, `SyncTempSkipped`, ...) is a plausible bug; no behaviour uses it. Putting
it in the place of the definition it mutates violates the property PROJECT.json pairs it
with.

## 3. Runs

| Run | Question | Result |
|---|---|---|
| `FS_saves` | a tab, and the one a conflict opens, edit, undo, save twice, save and close; a rename, deletion, write or repeated content outside: own saves recognised, no self-made conflict, nothing written outside replaced unseen, late reloads harmless; `IInv` | holds |
| `FS_live` | two tabs open, close, save as, with failing file operations, also after the rename: session maps and requests agree; under fairness every check is answered and every save-and-close ends | holds |
| `AS_saves` | two threads, outside writes, failures, kills, power cuts: torn files, durability, comparison, contract, termination | holds |
| `EH_edits` | all edits, undo, redo and a save that completes late: the timeline is refined; the stacks' invariants | holds |
| `NI_commands` | every note command, two faults at any call, kills, restarts, scans: catalog and files agree, renames can be recovered, no file is lost | holds |
| `NI_outside` | two outside changes at any moment of scans and a command: identity is kept; under fairness the catalog settles on the files there are | holds |
| `NE_notes` | two notes in three tabs: previews, auto-saves, a request of any kind, a fault, outside writes, the exit: no text lost, none replaced by an older one; `IInv` | holds |
| `NE_saves` | under fairness: every edit is saved or its failure recorded, every deferred move ends | holds |
| `HE_restart` | two tabs, two files, two starts: what a quit or kill leaves gives the tabs back; `IInv` | holds |
| `FS_reload` | does a completion clear "dirty" only for the text it saved? | violated: after a reload the content revision starts at 0 again, and a Save As queued before it cleans a text typed after it |
| `EH_dirty` | does "not dirty" mean "in the file"? | violated: undo makes a generation number be used twice |
| `EH_undo` | does redo restore what was undone? | violated: a deletion after an undo merges into the older entry |

The violated ones are disagreements between the code and what its own comments, tests or
design documents say; `findings` of PROJECT.json quotes both sides. Modelling showed others
that no run here is spent on:

- A write between loading a file and the first Track is never noticed; the first Track,
  queued between two saves, can forget the first one's baseline, so that the second fails;
  the revision a save returns is read back by path after the rename and may be another
  writer's (`model.rs:222` says it is the worker's actual write).
- Restoring a note looks for a free place and renames later: a file created in between is
  overwritten (`trash.rs:145`, against the comment of line 93); this is why
  `WorkerLosesNoFile` speaks of a workspace no other program writes to. A kill between the
  two hops of a case-only rename, of its way back or of the recovery's move leaves both source
  and target missing, and every start from then on refuses the workspace; so does a failing
  second hop whose file cannot be returned either. Such notes are `cut`, and
  `UnfinishedRenamesRecoverable` says nothing of them. The same happens after a kill in the
  rename of a note whose file another program had renamed away. An operation left open by a failed transaction is as old as
  that: when its note is recovered at a later start, what lies at its target may by then be
  another note's file, which is moved to the old source (`RecoverMoveBack`; it takes four
  faults or more, beyond the run's bound, and those notes count as `cut`).
- Notes edited while a workspace switch waits for its saves are closed unsaved, against
  `docs/plans/2026-08-13-notora-workspace-actions-and-directory-creation.md:395`. Cmd+S
  during an auto-save starts a second save with the old base, which then fails with a
  conflict of the application's own making.
- A snapshot's baseline is the file's revision at the persist, not the one its text is based
  on: an outside write that no check has seen is replaced by the next save after the
  restart, where line 239 of
  `docs/superpowers/plans/2026-07-17-syncthing-phase4-file-safety.md` wants a conflict copy.
  A tab whose file was deleted keeps a snapshot name a new tab on that path shares. If a
  quit's snapshot is older than the save that finished on the way out, every later save of
  the restored tab is refused.
- A note that is moved again before its tab heard of the first move keeps the first new path
  and the revision found there, which is none (`runtime.rs:1463`): its next save makes a file
  at the place the note has left. `TextIsKept` counts a text in such a file as kept.

**Bounds.** All cap counters that are unbounded in the program and appear in guards only.

- FS: one file with two tabs and one or two names for its conflict copies is where all path
  conflicts arise; two saves are the least in which one can be queued behind the other,
  acknowledged late or find its baseline replaced; one outside write suffices for every
  single race. `Env` lists the events an instance allows, so that each run spends its
  states on one question; two request ids let the answers of two checks be in flight
  together. `MaxQueue` keeps a round of checks from starting on a longer queue (the loop
  waits `FILE_SAFETY_CHECK_INTERVAL` between rounds). `FS_saves` has one request id, so
  that two tabs on files are not checked in the same round; `FS_live` has two, and one save.
  `NoSelfConflict` is checked without `lateError` (a save reported as failed after its rename
  is an outside write to its tab) and without `saveAs` (another program may then rename the
  tab's own new file onto the one it still is bound to). `BaselineRecognised` is checked
  without `saveAs` too: with three saves, two of them under another name and back, and a
  deletion, a check answered late moves the tab to a revision it has replaced. What the smaller instances leave
  out, `IInv`, `SaveLineage` and the maps, the proofs cover for all of them.
- AS: two savers are enough for every pairwise race; three writes give each saver its own
  and the outside world one.
- EH: three revisions are an entry, its extension and a new edit after their undo; text of
  two characters tells the places of two edits apart. The violation runs use four.
  `UndoLimit` stands for the code's 1000 and is not reached.
- NI: `NI_commands` has four places, two that differ only in case in one directory and two
  plain ones in the other, and four identities, two of them notes at the start, one in each
  directory: a rename with two hops and one with a single move, and their recoveries, all
  occur. `NI_outside` has three places, none of which collide, and six identities. Three commands
  let an operation left open by the first meet two more; two faults let the way back, or
  the recovery, fail or be cut between its hops as well. Two outside changes are the least in which one is undone or
  repeated; one command may run between them (`IdentityKept` speaks of the time before it).
- NE: three tabs for two notes, so that one is reopened; one resident tab makes every
  opening evict; two texts make a save outdated; `NE_saves` trades notes for a second
  request.
- HE: three texts (one in a file, an edit, a newer edit or outside write), two writes (a
  save and an outside one), two starts, one fault; two ids for untitled tabs.

**Deadlock** is switched off except in `AS_saves`: a user may stop working, and the bounds
stop an instance.

**Fairness.** `FS_live` assumes weak fairness of the worker and of the event loop. The
worker thread blocks on its channel and runs each command to its end. The loop is woken by
the worker after every answer (`wake` of the worker and of every save) and by itself at
every check interval (`about_to_wait`); posted wakes are delivered before further user
input on the supported platforms (native Wayland is excluded by
`docs/manual_test_protocol.md`). `AS_saves` assumes that a thread that saves goes on;
failures, kills and outside writes are free. `NI_outside` assumes that the workspace worker
goes on (it blocks on its channel, and its confirmation timer fires), that the watcher's
registration completes, and that a program that died is started again. `NE_saves` assumes
that deadlines pass, save threads and the worker run, and the loop serves what they send
(each posts a wake). Nothing is assumed of the user or of other programs.

## 4. Proofs

Every proof is of `Spec`, for any constants with the assumption of the module (which tabs,
how many savers, whichever bounds: the bounds only restrict guards).

`FileSafety_proofs`:

- `InductiveInvariant` proves `IInv`: `TypeOK`, `OneHandler` (the handler phases exclude
  each other), `RoundOnFiles` (tabs of a running round keep their file, so that a submitted
  candidate has a path), `MonitorLineage` and `ReloadsAreForClean`. Types alone are not
  inductive: the type of a queued command depends on which handler may run.
- `SavesReplaceOnlyTheirBaseline` (`SaveLineage`) follows from `MonitorLineage`: the worker
  gives a queued save another expected revision only if the monitor's entry lists the
  original one as a predecessor, and all those are ancestors through own saves.
- `TrackedPathsAgree`, `PendingRequestsAreInFlight` and `ClosingTabsAwaitTheirSave` are
  inductive relative to `IInv`; the second needs that answers carry the id they were asked
  with, the third that every completion of a tab in a queue has not been applied.
- `UnsavedTextIsKept` uses `ReloadsAreForClean` with the check in the observation handler
  that the document's revision and dirty flag are still those of the snapshot.

`AtomicSave_proofs`:

- `InductiveInvariant` proves `IInv`: names are owned by one save each (`NamesOwned`,
  `NamesHeld`), a temporary file about to be renamed is complete and synced (`TempsReady`),
  what a save has yet to place was never at the path (`NeverSeen`, which lets us tell a
  save's file from whatever it replaces), what was replaced is gone after the directory
  sync (`ReplacedIsGone`).
- `ReadersSeeWholeFiles`, `SuccessSurvivesPowerCuts` and `OnlyTheCheckedFileIsReplaced`
  follow from parts of it; `ContractIsImplemented` maps each call to a step of the
  contract or a stutter.

`EditHistory_proofs`, for any text, undo limit and number of edits:

- `StableInvariant`: the buffer is `Sound` after every step: typed, with its caret in the
  text, an entry to extend whenever `edit_begin` skips making one (`RunHasEntry`), nothing
  to redo and the right place at an anchor (`AnchorIsOnTop`; of a run of deletions one must
  also know that they added nothing, `DeletionsAddNothing`). One lemma per operation:
  `BeginIsBegun`, `ReplacedIsSound`, `ReplaceRangeIsSound`, `DirectEditIsSound`,
  `UndoRedoIsSound`. `TypesAreKept`, `ContinuationsFindNoRedo` and
  `LateCompletionsKeepNewText` follow from it.
- `InductiveInvariant` and `GroupsStayTogether` assume that no deletion directly follows an
  undo (`"deleteAfterUndo" \notin Env`, the case of `EH_undo`). Undo's stack must then be
  ordered by generations and behind the buffer's, and redo's ahead of it
  (`RedoIsAhead`): undo goes back to the generation its group began at, and the entries it
  turns round carry the generation that was left, so each stack is what the other needs.

`HotExit_proofs`, for any tabs, files, ids and bounds:

- `InductiveInvariant` proves `IInv`, the parts of which need each other. That a snapshot is
  never older than the session's entry (`KeptTextOnDisk`) is kept by a persist only if the
  tab's text is not older either (`TabsNotOlder`); that holds of an unsaved text with a file
  because a save makes a tab clean unless it was typed in since, and for this the save of a
  tab must be its only one. When the session is written the draft must still be what tabs
  and snapshots have (`PersistUnderWay`), which gives what a complete quit leaves
  (`LeftIsKept`). `RevisionsKnown` follows each revision from where it was seen through
  session and snapshots back into the tabs. Actions of the user share one lemma
  (`ShowsStep`), as do the steps that change one tab (`OneTabStep`).
- `UnsavedTextsAreOnDisk`, `SavesReplaceTheKnown` and `NothingLostByQuit` follow from it.

`NoteIndex_proofs`, for any paths, files at the start and bounds (notes included), from
`StoreAssumption` (the paths are finitely many and apart from the hidden places, each of
which is one note's for one purpose) and `IndexAssumption` (the order in which a scan
matches equal files, `Rank`, is total):

- `InductiveInvariant` proves `IInv`. `CatalogMatchesDisk` speaks of the moments between two
  commands; to get from one to the next one must know where the file of a note is at each
  step of a command, while its operation waits for a recovery, and otherwise:
  `FilePlaced`, for every note that nothing has parted from its file. It is kept only if
  what the command carries along is what the catalog says (`JobFits`), if no two rows claim
  a place (`RowsApart`), if no other note's file lies where a command or a recovery will put
  its own (`TargetIsFree`), and if no operation is open but that of the rename under way
  (`OpsSettled`): a recovery decides by the existence of two files, whoever they are. Scans
  run between the commands and drop or adopt rows: `ScanSound` says a scan misses no file
  that was there all the time and adopts none that has a note. For the files that a
  rename replaces one must know all of them, also those below `.notora`
  (`HiddenFilesKnown`) and that the way back of a failed command is free
  (`WayBackIsFree`, the one part that needs other programs to stay away).
- A recovery that moves a file by way of a temporary name is several steps, and the other
  notes must not be concerned by any of them: `RecoveryApart` says that no other row or
  operation names its source or target. `FilePlaced` says of a note in the middle of two hops
  that its file is at `HopPlace`, which only this note's moves use.
- `CatalogKnows` (`CatalogMatchesDisk`) and `RenamesRecoverable`
  (`UnfinishedRenamesRecoverable`) follow from `FilePlaced`. The second covers a rename cut
  between any two of its calls, those of its way back and of the recovery included, except
  while the file has its temporary name (`Hopping`): there the code does refuse the workspace
  (section 3). `DeletionIsExact`
  (`RemovesTheDeleted`) from it and the hidden place being the note's own; `NoFileIsLost`
  (`WorkerLosesNoFile`) from `TargetIsFree`, `HiddenFilesKnown` and `WayBackIsFree`, one
  lemma per step that renames.
- The proof is laid out by what a step can disturb: the commands share lemmas on the rename
  of one file (`Replace`) and on the row that follows it, the scan's operators have a lemma
  each (what matching by hints and by contents returns, that adopted rows get new
  identities in the order of `Rank`), and an outside change concerns only `strayed` notes.

`NoteEditing_proofs`, for any notes, tabs and bounds, whatever is in `Uses`:

- `InductiveInvariant` proves `IInv`: `TypeOK`, `OneTabPerNote` and `Registry`. That no tab
  with unsaved text is the preview (`PreviewIsClean`) is what lets previews give way and tabs
  be evicted; a tab never used has no save, read or deferred move (`FreshTabsAreUnused`), so
  that opening it meets nothing of an earlier tab; what waits for a save waits for its own
  note's tab (`DeferredFit`), and what is drained stays clean until it is applied
  (`ReadyToLeave`).
- The operators on `ui` have a lemma each (what they keep, close, register), the end of every
  handler one (`SettledGood`, `BecomesInv`), and each action one that proves `GoodStep`: the
  invariant, `MovedStep` and `UnsavedStep`. `OneTab`, `MovesLeaveClean` and
  `UnsavedTextStays` follow.

`NoteTexts_proofs`, under the hypothesis `NotesStay`: `Uses` has neither moves nor renames,
while edits, saves, retries, outside writes, trash, switch, exit and faults are all there.
Without it the two theorems need another invariant: a moved note's tab may point to a place
that it left (section 3), and a file left behind counts as kept; that case stays with
`NE_notes`, which has moves and renames.

- `KeptInvariant` proves `KeptAtHome`. `SavedIsKept` says why a clean tab's text is safe: it
  is in the note's file, and of the saves that can still replace that file
  (`CanReplace`: the base they were prepared with is the file's revision) none carries
  another text. That only a save with the current base counts is `KnownRevisions`: no
  revision that a tab, a save, a read or a loaded document knows is ahead of the file's, so
  whoever replaces it makes all the others fail. `UnsavedIsNewest` and `Numbered` order the
  texts, `SavesOfTabs` says that a save of a tab's current content revision has its text;
  `OneLoad` that an answer to the current selection is the only one and finds no tab of its
  note, or it could bring back a text older than the one a tab had saved.
- The proof goes by elements: `Fits` says the same of each tab, save, read and answer
  (`FitsParts`, `KeptParts`), so that a step is about the one that changes. Steps of the
  loop share `LoopKept` and `HandlerKept` (one tab at most changes, saves prepared from the
  tabs), those after which no tab opens `NoneOpensKept`; replacing a file is `FileNewer`,
  the way to the trash `TrashingFits`.
- `NoTextIsLost` (`TextIsKept`) and `NewerTextStays` (`NewerTextWins`) follow from it.

Only model-checked: `BaselineRecognised`, `NoSelfConflict`, `CopyHoldsText`; `ImplementsTimeline`, as what `TextsBack` computes along a stack needs
induction over data, which the installed provers cannot do; `IdentityKept`, which looks back
at what a scan saw in two steps; `TextIsKept` and `NewerTextWins` when notes are moved or
renamed; and liveness (`RequestsAnswered`, `ClosingEnds`, `SavesEnd`, `IndexSettles`,
`EditsSettle`, `DeferredEnd`), which is out of TLAPS's reach here.

## 5. What is not modelled

- In FileSafety: quit after saving, encryption of payloads, notices, menus, the switch of
  the active tab; a read of a file is one step (in the code bytes and revision are two
  reads, `file_safety.rs:598`). A failed completion is only printed
  (`app_lifecycle.rs:959`): the plan for dirty documents asks for the conflict flow there.
- In AtomicSave: a power cut leaves the names of temporary files as they are; windows
  without directory sync.
- In EditHistory: several lines, line endings, selections as state, clipboard, indentation,
  the undo limit (at 1000 entries the oldest is dropped alone, `edit.rs:531`, which splits
  a group), formatting commands.
- In NoteStore and NoteIndex: titles and their revisions, tags and stars, kinds and
  encryption of documents, opaque and legacy bindings, the check of markdown links, the
  order of recovery by row id (any order here), a second indexer when the same workspace is
  opened twice, files renamed by other programs while a confirmation or a scan is pending
  (`Quiet`).
- A file system that does not tell names apart by case. There the two names of a `CaseOnly`
  pair lead to the same file: the recovery finds both source and target
  (`note_command.rs:411`) for any case-only operation whose file has either name, and refuses
  the workspace where the model goes on (`RolledBack`, `MovedOnly`, `Committed`), so
  `UnfinishedRenamesRecoverable` is no promise for case-only renames there; and a scan that
  asks for the old name finds the renamed file.
- In NoteEditing: files outside the workspace and untitled ones, encryption, threads that
  cannot be spawned, title seeding, reload and copy after a conflict, pinned tabs, undo,
  relocations by the file manager.
- In HotExit: texts that become empty. A document without lines gets no snapshot
  (`workspace_persistence.rs:128`), and the tab of a file that the user has emptied is taken
  for a stub, so that the file is loaded over it when the tab is activated
  (`workspace_product.rs:20`): `Typed` never makes an empty text, and the properties say
  nothing of one. Nor are there snapshots of the first version (differences), unsaved lines of
  old sessions, rename detection, the second tab a conflict of the active tab opens, pinned
  tabs and view state, line endings and encoding (a restored document loses them); a check
  waits for the tab's own save.
- Everything else of the table in section 1, with the reason, is in `components` of
  PROJECT.json. Rendering, shaping, parsing, layout and widgets are data transformations of
  one step and most of the repository's lines; the sync control plane depends on Syncthing's
  answers over HTTP; the reshape worker's cache is not state that can be lost.

## 6. Plan

1. FileSafety: pipeline, properties, proofs. Done.
2. AtomicSave and SaveContract: calls, crashes, refinement, proofs. Done.
3. EditHistory and TextTimeline: modelled, checked, its invariants proved. Next: that the
   entry on top, taken back, gives the text before its edits (without recursion).
4. NoteStore and NoteIndex: modelled, checked, the safety of the commands and their
   recovery proved. Next: `IdentityKept`, which needs what a scan saw as an invariant.
5. NoteEditing: modelled, checked, its safety proved; that no text is lost only while notes
   stay where they are. Next: the same with moves and renames.
6. HotExit: modelled, checked, its safety proved. Next: the two tabs of one name, which the
   properties leave out (`doubtful`), against what the start makes of them.
7. ReshapeWorker, SyncController, PersistenceWorker, pane layout: small modules with
   invariants to prove.
8. Pure algorithms: file history, line index, search, against reference definitions.
