----------------------------- MODULE NoteStore -----------------------------
(***************************************************************************)
(* The notes of a Notora workspace: the files, and the catalog (SQLite)    *)
(* that gives every note its identity.  One worker thread owns the catalog *)
(* and carries out the commands: create, rename by title, move to another  *)
(* directory, move to the trash, restore, delete for good.  No transaction *)
(* spans both: a command is a sequence of file-system calls and catalog    *)
(* transactions, any of which may fail, and the process may die between    *)
(* any two.  Only the title rename keeps a journal (note_path_operations), *)
(* which the next start works off before it serves.                        *)
(*                                                                         *)
(* A file is its content (body) and, as history, the file it was born as   *)
(* (doc): a note created as n has doc n.  Other programs act on the files  *)
(* in NoteIndex, where the scans are, and the specification.               *)
(*                                                                         *)
(* The file system tells two names apart that differ only in case.  The    *)
(* program does not: it gives a note no name that collides with another,   *)
(* and moves a file between two colliding names by way of a third.         *)
(***************************************************************************)
EXTENDS Integers, Sequences, FiniteSets

CONSTANTS
    Paths,          \* note files of the workspace: <<directory, name>>, outside .notora
    CaseOnly,       \* the pairs of them with the same file_name_collision_key
    Renamed,        \* <<path, note>> -> renamed_restore_relative_path
    Bodies,         \* contents of a file (content_hash tells them apart)
    Blank,          \* initial_contents
    Home,           \* the path of each note the workspace starts with
    Content,        \* and its body
    None,           \* no file, no row, no operation
    Reports,        \* how the watcher reports a rename: subset of {"paired", "split"}
    MaxNotes,       \* bound: note identities and files born
    MaxCommands,    \* bound: commands carried out
    MaxFaults       \* bound: crashes, failed transactions and failed file calls

MissingScanConfirmationCount == 2

Notes == 1..MaxNotes
Directory(path) == path[1]
Name(path) == path[2]
Siblings(p, q) == p # q /\ Directory(p) = Directory(q)
Cousins(p, q) == p # q /\ Name(p) = Name(q)

\* requires_case_only_two_hop
Collide(p, q) == <<p, q>> \in CaseOnly \/ <<q, p>> \in CaseOnly

\* Below .notora a note has a directory of its own, where its file keeps its name.
\* Mutated form: one directory for all notes.
TrashPlaceByName(n, path) == <<"trash", 1, Name(path)>>
TrashPlace(n, path) == <<"trash", n, Name(path)>>
StagingPlace(n, path) == <<"delete-staging", n, Name(path)>>
HopPlace(n) == <<"relocation", n>>
Hidden == ({"trash", "delete-staging"} \X Notes \X {Name(p) : p \in Paths})
          \cup ({"relocation"} \X Notes)
Places == Paths \cup Hidden

Files == [doc : Notes, body : Bodies]
Rows == [life : {"active", "trashed"}, path : Places, origin : Paths, hash : Bodies,
         missing : 0..MissingScanConfirmationCount - 1]
Operations == [source : Paths, target : Paths, state : {"prepared", "moved"}]
Changes == [paths : SUBSET Paths, hints : SUBSET (Paths \X Paths)]

ASSUME StoreAssumption ==
    /\ IsFiniteSet(Paths) /\ Paths \cap Hidden = {}
    /\ \A pair \in CaseOnly : pair \in Paths \X Paths /\ Siblings(pair[1], pair[2])
    /\ Renamed \in [Paths \X Notes -> Paths]
    /\ MaxNotes \in Nat /\ MaxCommands \in Nat /\ MaxFaults \in Nat
    /\ Blank \in Bodies
    /\ DOMAIN Home \subseteq Notes /\ Home \in [DOMAIN Home -> Paths]
    /\ Content \in [DOMAIN Home -> Bodies]
    /\ \A m, n \in DOMAIN Home : Home[m] = Home[n] => m = n
    /\ \A m \in DOMAIN Home : \A n \in Notes : n <= m => n \in DOMAIN Home
    /\ None \notin Files \cup Rows \cup Operations \cup Places \cup Notes
    /\ Reports \subseteq {"paired", "split"}

VARIABLES
    disk,           \* place -> file or None
    rows,           \* notes and trash_entries: note -> row or None
    ops,            \* unfinished note_path_operations: note -> operation or None
    job,            \* what the worker is doing
    watch,          \* the watcher: off, registered ("ready" until the worker took that), on
    events,         \* what it saw and the worker has not taken
    nextNote,       \* NoteId::generate, and the birth number of a file
    commands,       \* commands carried out so far
    faults,         \* faults so far
    cut             \* history: notes whose file and row a fault or another program parted

storeVars == <<disk, rows, ops, job, watch, events, nextNote, commands, faults, cut>>

\* at: the call that comes next.  todo: the rest of the entries empty_trash deletes.
Resting == [at |-> "idle", note |-> None, from |-> None, to |-> None, todo |-> {}]

InitStore ==
    /\ disk = [p \in Places |->
                 IF \E n \in DOMAIN Home : Home[n] = p
                 THEN LET n == CHOOSE n \in DOMAIN Home : Home[n] = p
                      IN [doc |-> n, body |-> Content[n]]
                 ELSE None]
    /\ rows = [n \in Notes |->
                 IF n \in DOMAIN Home
                 THEN [life |-> "active", path |-> Home[n], origin |-> Home[n],
                       hash |-> Content[n], missing |-> 0]
                 ELSE None]
    /\ ops = [n \in Notes |-> None]
    /\ job = [Resting EXCEPT !.at = "down"]
    /\ watch = "off" /\ events = <<>>
    /\ nextNote = Cardinality(DOMAIN Home) + 1
    /\ commands = 0 /\ faults = 0 /\ cut = {}

-----------------------------------------------------------------------------
At(step) == job.at = step
Goto(step) == job' = [job EXCEPT !.at = step]

\* A command that succeeded is followed by index_workspace, one that failed is not.
Succeed == job' = [Resting EXCEPT !.at = "index"]
Rest == job' = Resting
Fail == Rest

\* A call works, if what it needs is there; it may also fail for no reason of its own.
Works == UNCHANGED faults
Breaks == faults < MaxFaults /\ faults' = faults + 1
FailsUnless(possible) == IF possible THEN Breaks ELSE Works

Request(step, n, from, to) ==
    /\ At("idle") /\ commands < MaxCommands /\ commands' = commands + 1
    /\ job' = [Resting EXCEPT !.at = step, !.note = n, !.from = from, !.to = to]

\* The note the worker is busy with, and the files.
InHand ==
    LET places == {p \in {job.from, job.to, HopPlace(job.note)} \cap Places : disk[p] # None}
    IN  {job.note} \cup {disk[p].doc : p \in places}

\* The notes a change at these paths concerns.
Concerned(paths) ==
    {n \in Notes : \/ rows[n] # None /\ rows[n].path \in paths
                   \/ ops[n] # None /\ {ops[n].source, ops[n].target} \cap paths # {}
                   \/ job.note = n /\ {job.from, job.to} \cap paths # {}
                   \/ \E p \in paths : disk[p] # None /\ disk[p].doc = n}

Active(n) == rows[n] # None /\ rows[n].life = "active"
Trashed(n) == rows[n] # None /\ rows[n].life = "trashed"
ActivePaths == {rows[n].path : n \in {m \in Notes : Active(m)}}

\* UNIQUE(relative_path): no other row has the path.
Unclaimed(n, path) == \A m \in Notes \ {n} : rows[m] # None => rows[m].path # path

\* The changes the watcher reports when a file goes from one place to another.
Seen(from, to, how) ==
    LET change(paths, hints) == [paths |-> paths, hints |-> hints]
    IN  IF from \in Paths /\ to \in Paths
        THEN IF how = "paired" THEN <<change({from, to}, {<<from, to>>})>>
             ELSE <<change({from}, {}), change({to}, {})>>
        ELSE IF {from, to} \cap Paths = {} THEN <<>>
        ELSE <<change({from, to} \cap Paths, {})>>

Notice(changes) == events' = IF watch = "off" THEN events ELSE events \o changes

\* fs::rename: whatever was at the destination is gone.
Replace(from, to) ==
    /\ disk[from] # None
    /\ disk' = [disk EXCEPT ![to] = disk[from], ![from] = None]
    /\ \E how \in Reports : Notice(Seen(from, to, how))

\* move_file_no_replace.
CanMoveAnyway(from, to) == disk[from] # None   \* Mutated form: it replaces.
CanMove(from, to) == disk[from] # None /\ disk[to] = None
MoveFile(from, to) == CanMove(from, to) /\ Replace(from, to)

\* No other entry of the directory, and no other note, has a name that collides.
NoneCollides(path, own) ==
    \A p \in Paths \ {own} : Collide(p, path) => disk[p] = None /\ p \notin ActivePaths

Unmoved == UNCHANGED <<disk, events>>

-----------------------------------------------------------------------------
(* create_configured_note.  The name is free on the disk and in the catalog,
   and create_new makes sure; when the catalog refuses, an encrypted file is
   removed again and a plain one is left for the next scan.                *)

CreateFile ==
    \E path \in Paths \ ActivePaths :
        /\ Request("create", nextNote, None, path)
        /\ disk[path] = None /\ NoneCollides(path, None) /\ nextNote \in Notes
        /\ disk' = [disk EXCEPT ![path] = [doc |-> nextNote, body |-> Blank]]
        /\ Notice(<<[paths |-> {path}, hints |-> {}]>>)
        /\ nextNote' = nextNote + 1
        /\ UNCHANGED <<rows, ops, watch, faults, cut>>

CreateRow ==
    /\ At("create")
    /\ \/ /\ Works /\ Unclaimed(job.note, job.to)
          /\ rows' = [rows EXCEPT ![job.note] =
                        [life |-> "active", path |-> job.to, origin |-> job.to,
                         hash |-> Blank, missing |-> 0]]
          /\ Succeed /\ Unmoved
       \/ FailsUnless(Unclaimed(job.note, job.to)) /\ Fail /\ Unmoved /\ UNCHANGED rows
       \/ /\ FailsUnless(Unclaimed(job.note, job.to)) /\ Fail /\ UNCHANGED rows
          /\ disk' = [disk EXCEPT ![job.to] = None]
          /\ Notice(<<[paths |-> {job.to}, hints |-> {}]>>)
    /\ UNCHANGED <<ops, watch, nextNote, commands, cut>>

-----------------------------------------------------------------------------
(* update_note_title of a note whose file name follows the title:
   prepare_note_path_operation, move_file_no_replace, state Moved,
   commit_title_bound_path, state Committed.                               *)

\* The new name is free; three unique indexes keep unfinished operations apart.
Rename(n, target) ==
    /\ Active(n) /\ Siblings(rows[n].path, target)
    /\ Request(IF Collide(rows[n].path, target) THEN "hop" ELSE "move",
               n, rows[n].path, target)
    /\ target \notin ActivePaths /\ disk[target] = None /\ NoneCollides(target, rows[n].path)
    /\ ops[n] = None
    /\ \A m \in Notes : ops[m] # None => ops[m].source # rows[n].path /\ ops[m].target # target
    /\ ops' = [ops EXCEPT ![n] = [source |-> rows[n].path, target |-> target,
                                  state |-> "prepared"]]
    /\ Unmoved /\ UNCHANGED <<rows, watch, nextNote, faults, cut>>

\* move_file_case_only goes by way of a temporary name, another one if it is taken: what
\* an earlier failure left under such a name is not looked at again.
RenameHop ==
    /\ At("hop")
    /\ \/ Works /\ Replace(job.from, HopPlace(job.note)) /\ Goto("hopped")
       \/ FailsUnless(disk[job.from] # None) /\ Unmoved /\ Goto("rolledback")
    /\ UNCHANGED <<rows, ops, watch, nextNote, commands, cut>>

RenameHopped ==
    /\ At("hopped")
    /\ \/ Works /\ MoveFile(HopPlace(job.note), job.to) /\ Goto("mark")
       \/ FailsUnless(CanMove(HopPlace(job.note), job.to)) /\ Unmoved /\ Goto("unhop")
    /\ UNCHANGED <<rows, ops, watch, nextNote, commands, cut>>

RenameUnhop ==
    /\ At("unhop") /\ Goto("rolledback")
    /\ \/ Works /\ MoveFile(HopPlace(job.note), job.from) /\ UNCHANGED cut
       \/ /\ FailsUnless(CanMove(HopPlace(job.note), job.from)) /\ Unmoved
          /\ cut' = cut \cup InHand
    /\ UNCHANGED <<rows, ops, watch, nextNote, commands>>

RenameMove ==
    /\ At("move")
    /\ \/ Works /\ MoveFile(job.from, job.to) /\ Goto("mark")
       \/ FailsUnless(CanMove(job.from, job.to)) /\ Unmoved /\ Goto("rolledback")
    /\ UNCHANGED <<rows, ops, watch, nextNote, commands, cut>>

WayBack == IF Collide(job.from, job.to) THEN "undohop" ELSE "undo"

RenameMark ==
    /\ At("mark") /\ Unmoved
    /\ \/ Works /\ ops' = [ops EXCEPT ![job.note].state = "moved"] /\ Goto("commit")
       \/ Breaks /\ UNCHANGED ops /\ Goto(WayBack)
    /\ UNCHANGED <<rows, watch, nextNote, commands, cut>>

RenameCommit ==
    /\ At("commit") /\ Unmoved
    /\ \/ /\ Works /\ Unclaimed(job.note, job.to)
          /\ rows' = [rows EXCEPT ![job.note].path = job.to]
          /\ Goto("finish")
       \/ FailsUnless(Unclaimed(job.note, job.to)) /\ UNCHANGED rows /\ Goto(WayBack)
    /\ UNCHANGED <<ops, watch, nextNote, commands, cut>>

\* A transaction that fails here, or in RenameRolledBack, leaves the operation open in a
\* worker that goes on.
RenameFinish ==
    /\ At("finish") /\ Unmoved
    /\ \/ Works /\ ops' = [ops EXCEPT ![job.note] = None] /\ Succeed /\ UNCHANGED cut
       \/ Breaks /\ UNCHANGED ops /\ Fail /\ cut' = cut \cup InHand
    /\ UNCHANGED <<rows, watch, nextNote, commands>>

\* rollback_title_relocation: one move, ...
RenameUndo ==
    /\ At("undo")
    /\ \/ Works /\ MoveFile(job.to, job.from) /\ Goto("rolledback") /\ UNCHANGED cut
       \/ /\ FailsUnless(CanMove(job.to, job.from)) /\ Unmoved /\ Fail
          /\ cut' = cut \cup InHand
    /\ UNCHANGED <<rows, ops, watch, nextNote, commands>>

\* ... or the two of move_file_case_only, back from the new name to the old one.
RenameUndoHop ==
    /\ At("undohop")
    /\ \/ Works /\ Replace(job.to, HopPlace(job.note)) /\ Goto("undohopped") /\ UNCHANGED cut
       \/ /\ FailsUnless(disk[job.to] # None) /\ Unmoved /\ Fail
          /\ cut' = cut \cup InHand
    /\ UNCHANGED <<rows, ops, watch, nextNote, commands>>

RenameUndoHopped ==
    /\ At("undohopped")
    /\ \/ Works /\ MoveFile(HopPlace(job.note), job.from) /\ Goto("rolledback")
       \/ FailsUnless(CanMove(HopPlace(job.note), job.from)) /\ Unmoved /\ Goto("undounhop")
    /\ UNCHANGED <<rows, ops, watch, nextNote, commands, cut>>

\* The way back has failed, whether or not the file returns to the new name.
RenameUndoUnhop ==
    /\ At("undounhop") /\ Fail /\ cut' = cut \cup InHand
    /\ \/ Works /\ MoveFile(HopPlace(job.note), job.to)
       \/ FailsUnless(CanMove(HopPlace(job.note), job.to)) /\ Unmoved
    /\ UNCHANGED <<rows, ops, watch, nextNote, commands>>

RenameRolledBack ==
    /\ At("rolledback") /\ Unmoved /\ Fail
    /\ \/ Works /\ ops' = [ops EXCEPT ![job.note] = None] /\ UNCHANGED cut
       \/ Breaks /\ UNCHANGED ops /\ cut' = cut \cup InHand
    /\ UNCHANGED <<rows, watch, nextNote, commands>>

-----------------------------------------------------------------------------
(* move_note: no journal.                                                  *)

Move(n, target) ==
    /\ Active(n) /\ Cousins(rows[n].path, target)
    /\ Request("moved", n, rows[n].path, target)
    /\ MoveFile(rows[n].path, target)
    /\ UNCHANGED <<rows, ops, watch, nextNote, faults, cut>>

MoveRow ==
    /\ At("moved") /\ Unmoved
    /\ \/ /\ Works /\ Unclaimed(job.note, job.to)
          /\ rows' = [rows EXCEPT ![job.note].path = job.to]
          /\ Succeed /\ UNCHANGED cut
       \/ /\ FailsUnless(Unclaimed(job.note, job.to)) /\ UNCHANGED rows
          /\ Fail /\ cut' = cut \cup InHand
    /\ UNCHANGED <<ops, watch, nextNote, commands>>

-----------------------------------------------------------------------------
(* The trash.  fs::rename replaces what is there.                          *)

Trash(n) ==
    /\ Active(n)
    /\ Request("trashed", n, rows[n].path, TrashPlace(n, rows[n].path))
    /\ Replace(rows[n].path, TrashPlace(n, rows[n].path))
    /\ UNCHANGED <<rows, ops, watch, nextNote, faults, cut>>

TrashRow ==
    /\ At("trashed") /\ Unmoved
    /\ \/ /\ Works /\ Succeed
          /\ rows' = [rows EXCEPT ![job.note] = [@ EXCEPT !.life = "trashed", !.path = job.to,
                                                         !.origin = job.from]]
       \/ Breaks /\ UNCHANGED rows /\ Goto("putback")
    /\ UNCHANGED <<ops, watch, nextNote, commands, cut>>

\* restore_from_trash and its variant with a new name: checked first, renamed later.
Restore(n, target) ==
    /\ Trashed(n) /\ disk[rows[n].path] # None
    /\ target \in {rows[n].origin, Renamed[<<rows[n].origin, n>>]}
    /\ disk[target] = None
    /\ Request("restore", n, rows[n].path, target)
    /\ Unmoved /\ UNCHANGED <<rows, ops, watch, nextNote, faults, cut>>

RestoreFile ==
    /\ At("restore")
    /\ \/ Works /\ Replace(job.from, job.to) /\ Goto("restored")
       \/ FailsUnless(disk[job.from] # None) /\ Unmoved /\ Fail
    /\ UNCHANGED <<rows, ops, watch, nextNote, commands, cut>>

RestoreRow ==
    /\ At("restored") /\ Unmoved
    /\ \/ /\ Works /\ Unclaimed(job.note, job.to) /\ Succeed
          /\ rows' = [rows EXCEPT ![job.note] = [@ EXCEPT !.life = "active", !.path = job.to,
                                                         !.origin = job.to]]
       \/ FailsUnless(Unclaimed(job.note, job.to)) /\ UNCHANGED rows /\ Goto("putback")
    /\ UNCHANGED <<ops, watch, nextNote, commands, cut>>

\* let _ = fs::rename(..): the error of the way back is dropped.
PutBack ==
    /\ At("putback") /\ Fail
    /\ \/ Works /\ Replace(job.to, job.from) /\ UNCHANGED cut
       \/ FailsUnless(disk[job.to] # None) /\ Unmoved /\ cut' = cut \cup InHand
    /\ UNCHANGED <<rows, ops, watch, nextNote, commands>>

-----------------------------------------------------------------------------
(* permanently_delete_trashed_note, and empty_trash, which does it for every
   entry there was and stops at the first that fails.                      *)

Delete(n) ==
    /\ Trashed(n)
    /\ Request("stage", n, rows[n].path, StagingPlace(n, rows[n].origin))
    /\ Unmoved /\ UNCHANGED <<rows, ops, watch, nextNote, faults, cut>>

EmptyTrash ==
    \E n \in {m \in Notes : Trashed(m)} :
        /\ At("idle") /\ commands < MaxCommands /\ commands' = commands + 1
        /\ job' = [Resting EXCEPT !.at = "stage", !.note = n, !.from = rows[n].path,
                                  !.to = StagingPlace(n, rows[n].origin),
                                  !.todo = {m \in Notes : Trashed(m)} \ {n}]
        /\ Unmoved /\ UNCHANGED <<rows, ops, watch, nextNote, faults, cut>>

StageFile ==
    /\ At("stage")
    /\ \/ Works /\ Replace(job.from, job.to) /\ Goto("staged")
       \/ FailsUnless(disk[job.from] # None) /\ Unmoved /\ Fail
    /\ UNCHANGED <<rows, ops, watch, nextNote, commands, cut>>

\* Deleting the row deletes the note's operations with it.
DeleteRow ==
    /\ At("staged") /\ Unmoved
    /\ \/ /\ Works /\ Goto("remove")
          /\ rows' = [rows EXCEPT ![job.note] = None]
          /\ ops' = [ops EXCEPT ![job.note] = None]
       \/ Breaks /\ UNCHANGED <<rows, ops>> /\ Goto("putback")
    /\ UNCHANGED <<watch, nextNote, commands, cut>>

RemoveFile ==
    /\ At("remove")
    /\ \/ /\ Works /\ disk' = [disk EXCEPT ![job.to] = None]
          /\ IF job.todo = {} THEN Succeed
             ELSE \E n \in job.todo :
                     job' = [Resting EXCEPT !.at = "stage", !.note = n, !.from = rows[n].path,
                                            !.to = StagingPlace(n, rows[n].origin), !.todo = job.todo \ {n}]
       \/ Breaks /\ UNCHANGED disk /\ Fail
    /\ UNCHANGED <<rows, ops, events, watch, nextNote, commands, cut>>

-----------------------------------------------------------------------------
(* The process dies; the next start runs recover_note_path_operations.     *)

\* The steps between a file call and the row that records it, without a journal.
Unjournaled == {"create", "moved", "trashed", "restored", "putback", "staged"}

\* The file has its temporary name, which the recovery does not know.
Hopping == {"hopped", "unhop", "undohopped", "undounhop", "rehopped", "reunhop"}

Crash ==
    /\ Breaks /\ ~At("down") /\ job' = [Resting EXCEPT !.at = "down"]
    /\ cut' = IF job.at \in Unjournaled \cup Hopping THEN cut \cup InHand ELSE cut
    /\ watch' = "off" /\ events' = <<>>
    /\ UNCHANGED <<disk, rows, ops, nextNote, commands>>

Start ==
    /\ job.at \in {"down", "refused"}
    /\ job' = [Resting EXCEPT !.at = "recovering"]
    /\ UNCHANGED <<disk, rows, ops, watch, events, nextNote, commands, faults, cut>>

OnDisk(path) == disk[path] # None
AtSource(n) == Active(n) /\ rows[n].path = ops[n].source
AtTarget(n) == Active(n) /\ rows[n].path = ops[n].target

\* Mutated forms: the journal's state is believed before the catalog and the disk.
MovedOnlyByState(n) == ops[n].state = "moved" /\ OnDisk(ops[n].target) /\ ~OnDisk(ops[n].source)
RolledBackByState(n) == AtSource(n) /\ OnDisk(ops[n].source) /\ ops[n].state = "prepared"

\* What decides is the catalog's path, and which of the two files is there.
RolledBack(n) == AtSource(n) /\ OnDisk(ops[n].source) /\ ~OnDisk(ops[n].target)
MovedOnly(n) == AtSource(n) /\ ~OnDisk(ops[n].source) /\ OnDisk(ops[n].target)
Committed(n) == AtTarget(n) /\ ~OnDisk(ops[n].source) /\ OnDisk(ops[n].target)
Recoverable(n) == RolledBack(n) \/ MovedOnly(n) \/ Committed(n)

\* job.note is the note whose file has just been moved back.
\* An operation that a failed transaction left open is as old as that: the file that is
\* moved back may be another note's by now.
Recovering(n) == At("recovering") /\ ops[n] # None /\ job.note \in {None, n}

MovesBack(n) ==
    /\ Recovering(n) /\ job.note = None /\ MovedOnly(n) /\ Works
    /\ cut' = IF n \in cut THEN cut \cup Concerned({ops[n].source, ops[n].target}) ELSE cut
    /\ UNCHANGED <<rows, ops, watch, nextNote, commands>>

RecoverMoveBack(n) ==
    /\ MovesBack(n) /\ ~Collide(ops[n].source, ops[n].target)
    /\ MoveFile(ops[n].target, ops[n].source)
    /\ job' = [job EXCEPT !.note = n]

\* Between two colliding names the recovery, too, goes by way of a third; if it gets no
\* further the start is refused, whether or not the file returns to the new name.
RecoverHop(n) ==
    /\ MovesBack(n) /\ Collide(ops[n].source, ops[n].target)
    /\ Replace(ops[n].target, HopPlace(n))
    /\ job' = [job EXCEPT !.at = "rehopped", !.note = n]

RecoverHopped ==
    LET hop    == HopPlace(job.note)
        source == ops[job.note].source
    IN  /\ At("rehopped")
        /\ \/ Works /\ MoveFile(hop, source) /\ Goto("recovering")
           \/ FailsUnless(CanMove(hop, source)) /\ Unmoved /\ Goto("reunhop")
        /\ UNCHANGED <<rows, ops, watch, nextNote, commands, cut>>

RecoverUnhop ==
    LET hop    == HopPlace(job.note)
        target == ops[job.note].target
    IN  /\ At("reunhop") /\ job' = [Resting EXCEPT !.at = "refused"]
        /\ \/ /\ Works /\ CanMove(hop, target) /\ UNCHANGED cut
              /\ disk' = [disk EXCEPT ![target] = disk[hop], ![hop] = None]
           \/ /\ FailsUnless(CanMove(hop, target)) /\ UNCHANGED disk
              /\ cut' = cut \cup InHand
        /\ watch' = "off" /\ events' = <<>>
        /\ UNCHANGED <<rows, ops, nextNote, commands>>

RecoverRecord(n) ==
    /\ Recovering(n) /\ (job.note = n \/ RolledBack(n) \/ Committed(n)) /\ Works
    /\ ops' = [ops EXCEPT ![n] = None]
    /\ job' = [job EXCEPT !.note = None]
    /\ UNCHANGED <<disk, rows, watch, events, nextNote, commands, cut>>

\* Ambiguous, or a call that fails: the workspace does not open.
Refuse(n) ==
    /\ Recovering(n) /\ FailsUnless(job.note = n \/ Recoverable(n))
    /\ job' = [Resting EXCEPT !.at = "refused"]
    /\ watch' = "off" /\ events' = <<>>
    /\ UNCHANGED <<disk, rows, ops, nextNote, commands, cut>>

\* index_workspace follows.
Recovered ==
    /\ At("recovering") /\ \A n \in Notes : ops[n] = None
    /\ Goto("index")
    /\ UNCHANGED <<disk, rows, ops, watch, events, nextNote, commands, faults, cut>>

-----------------------------------------------------------------------------
\* ReindexCatalog: the event loop asks for it after every save.
Reindex ==
    /\ At("idle") /\ commands < MaxCommands /\ commands' = commands + 1
    /\ Goto("index")
    /\ UNCHANGED <<disk, rows, ops, watch, events, nextNote, faults, cut>>

Commands ==
    \/ CreateFile \/ EmptyTrash \/ Reindex
    \/ \E n \in Notes : Trash(n) \/ Delete(n)
    \/ \E n \in Notes, target \in Paths : Rename(n, target) \/ Move(n, target) \/ Restore(n, target)

CommandSteps ==
    \/ CreateRow \/ MoveRow \/ TrashRow \/ RestoreFile \/ RestoreRow \/ PutBack
    \/ StageFile \/ DeleteRow \/ RemoveFile
    \/ RenameHop \/ RenameHopped \/ RenameUnhop \/ RenameMove \/ RenameMark \/ RenameCommit
    \/ RenameFinish \/ RenameRolledBack
    \/ RenameUndo \/ RenameUndoHop \/ RenameUndoHopped \/ RenameUndoUnhop

Recovery ==
    \/ Start \/ Recovered \/ RecoverHopped \/ RecoverUnhop
    \/ \E n \in Notes : RecoverMoveBack(n) \/ RecoverHop(n) \/ RecoverRecord(n) \/ Refuse(n)

=============================================================================
