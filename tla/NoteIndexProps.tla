-------------------------- MODULE NoteIndexProps --------------------------
(***************************************************************************)
(* What the note store and its index promise.                              *)
(***************************************************************************)
EXTENDS NoteIndex

Steps == {"down", "recovering", "refused", "idle", "index", "read", "relocate", "create",
          "hop", "hopped", "unhop", "move", "mark", "commit", "finish", "undo", "undohop",
          "undohopped", "undounhop", "rolledback", "rehopped", "reunhop", "moved", "trashed",
          "restore", "restored", "putback", "stage", "staged", "remove"}

Jobs == [at : Steps, note : Notes \cup {None}, from : Places \cup {None},
         to : Places \cup {None}, todo : SUBSET Notes]

Scans == [scope : SUBSET Paths, hints : SUBSET (Paths \X Paths), unread : SUBSET Paths,
          seen : [Paths -> Files \cup {None}], bad : BOOLEAN, moves : SUBSET (Notes \X Paths),
          added : SUBSET Paths, missing : SUBSET Notes]

TypeOK ==
    /\ disk \in [Places -> Files \cup {None}]
    /\ rows \in [Notes -> Rows \cup {None}]
    /\ ops \in [Notes -> Operations \cup {None}]
    /\ job \in Jobs
    /\ watch \in {"off", "ready", "on"} /\ events \in Seq(Changes)
    /\ nextNote \in 1..(MaxNotes + 1)
    /\ commands \in 0..MaxCommands /\ faults \in 0..MaxFaults /\ outside \in 0..MaxOutside
    /\ cut \subseteq Notes /\ strayed \subseteq Notes
    /\ scan \in Scans /\ confirm \subseteq Paths

-----------------------------------------------------------------------------
\* Whenever the worker is between two commands the catalog knows where a note's file is,
\* active or in the trash, unless a fault cut a command without a journal or another
\* program touched it: every command, every way back and every recovery is complete.
CatalogMatchesDisk ==
    At("idle") =>
        \A n \in Notes \ (cut \cup strayed) :
            rows[n] # None => disk[rows[n].path] # None /\ disk[rows[n].path].doc = n

\* A rename that the process's death cut between two of its calls, those of its way back and
\* of the recovery included, is one the next start can finish: it does not refuse to open the
\* workspace.  Not so for a rename between two names that differ only in case, while the file
\* has the name in between (Hopping: the note is cut); nor for a note whose file another
\* program had renamed away before.  Then neither of the two files is there.  Where the file
\* system does not tell the two names apart both seem to be there: that is not modelled.
UnfinishedRenamesRecoverable ==
    At("recovering") =>
        \A n \in Notes \ (cut \cup strayed) : ops[n] # None => job.note = n \/ Recoverable(n)

\* No step of the worker destroys a file but the ones that are meant to: the last of a
\* deletion for good, and the removal of an encrypted file whose row could not be written;
\* files parted from their note aside.  This holds as long as no other program acts: a
\* restore looks whether its place is free first and renames later.
DocsOnDisk == {disk[p].doc : p \in {q \in Places : disk[q] # None}}
MeansToRemove == At("remove") \/ At("create")

WorkerLosesNoFile ==
    [][outside' = 0 /\ ~MeansToRemove => DocsOnDisk \ cut \subseteq DocsOnDisk']_vars

\* The last step of a deletion removes the file of the note that was deleted, no other.
RemovesTheDeleted ==
    [][At("remove") /\ job.note \notin cut \cup strayed /\ outside' = outside =>
          DocsOnDisk \ DocsOnDisk' \subseteq {job.note}]_vars

\* The identity of a note, with its stars, tags and title, is not given up while its file
\* is in the workspace.
IdentityKept ==
    [][\A n \in Notes \ cut : commands = 0 /\ Active(n) /\ rows'[n] = None =>
          \A p \in Paths : disk[p] = None \/ disk[p].doc # n]_vars

\* Once the other programs rest every file of the workspace is in the catalog, and an entry
\* without a file is one a scan has missed once already: the next that looks drops it.
Indexed ==
    /\ {p \in Paths : disk[p] # None} \subseteq ActivePaths
    /\ \A n \in Notes : Active(n) /\ disk[rows[n].path] = None => rows[n].missing > 0

IndexSettles == <>[](At("refused") \/ Indexed)

-----------------------------------------------------------------------------
(* Why it holds.  A note that nothing has parted from its file has it at a
   place that the catalog, the journal and the worker's step tell together. *)

Parted == cut \cup strayed
HasFile(place, n) == disk[place] # None /\ disk[place].doc = n

\* No two rows claim a place, a row in the trash lies in the note's own directory there,
\* the identities to come are unused, and there is no operation without a row.
RowsApart ==
    /\ \A n \in Notes : rows[n] # None =>
          /\ n < nextNote
          /\ rows[n].life = "active" => rows[n].path \in Paths
          /\ rows[n].life = "trashed" => \E p \in Paths : rows[n].path = TrashPlace(n, p)
    /\ \A m, n \in Notes :
          m # n /\ rows[m] # None /\ rows[n] # None => rows[m].path # rows[n].path
    /\ \A n \in Notes : ops[n] # None => rows[n] # None

RenameSteps == {"hop", "hopped", "unhop", "move", "mark", "commit", "finish", "undo", "undohop",
                "undohopped", "undounhop", "rolledback"}
RecoverSteps == {"rehopped", "reunhop"}
Deletion == {"stage", "staged", "remove"}
CommandStates == RenameSteps \cup Deletion
                 \cup {"create", "moved", "trashed", "restore", "restored", "putback"}

\* What a command carries along is what the catalog says, at each of its steps.
RenameFits ==
    job.at \in RenameSteps =>
        /\ job.note \in Notes /\ job.from \in Paths /\ job.to \in Paths /\ job.from # job.to
        /\ Active(job.note) /\ ops[job.note] # None
        /\ ops[job.note].source = job.from /\ ops[job.note].target = job.to
        /\ rows[job.note].path = IF job.at = "finish" THEN job.to ELSE job.from

CreateFits ==
    job.at = "create" =>
        /\ job.note \in Notes /\ job.note < nextNote
        /\ rows[job.note] = None /\ ops[job.note] = None
        /\ job.to \in Paths /\ Unclaimed(job.note, job.to)

MoveFits ==
    job.at = "moved" =>
        /\ job.note \in Notes /\ job.from \in Paths /\ job.to \in Paths /\ job.from # job.to
        /\ Active(job.note) /\ rows[job.note].path = job.from

TrashFits ==
    /\ job.at = "trashed" =>
          /\ job.note \in Notes /\ Active(job.note) /\ rows[job.note].path = job.from
          /\ job.to = TrashPlace(job.note, job.from)
    /\ job.at \in {"restore", "restored"} =>
          /\ job.note \in Notes /\ Trashed(job.note) /\ rows[job.note].path = job.from
          /\ job.to \in Paths

DeletionFits ==
    /\ job.at \in Deletion =>
          /\ job.note \in Notes
          /\ \E p \in Paths : job.to = StagingPlace(job.note, p)
          /\ IF job.at = "remove" THEN rows[job.note] = None
             ELSE Trashed(job.note) /\ rows[job.note].path = job.from
          /\ \A n \in job.todo : Trashed(n) /\ n # job.note

\* The way back of a command: of the trash, of a restore, of a deletion.
PutBackFits ==
    job.at = "putback" =>
        /\ job.note \in Notes /\ rows[job.note] # None /\ rows[job.note].path = job.from
        /\ \/ Active(job.note) /\ job.to = TrashPlace(job.note, job.from)
           \/ Trashed(job.note) /\ job.to \in Paths
           \/ Trashed(job.note) /\ \E p \in Paths : job.to = StagingPlace(job.note, p)

RestFits ==
    /\ job.at \notin CommandStates \cup RecoverSteps \cup {"recovering"} => job.note = None
    /\ job.at = "recovering" /\ job.note # None => ops[job.note] # None
    /\ job.at \in RecoverSteps =>
          job.note \in Notes /\ ops[job.note] # None /\ AtSource(job.note)

JobFits == RenameFits /\ CreateFits /\ MoveFits /\ TrashFits /\ DeletionFits /\ PutBackFits /\ RestFits

\* No other note is to be found where a command or a journalled rename puts its file.
TargetIsFree ==
    /\ job.at \in CommandStates =>
          \A m \in Notes \ Parted : m # job.note /\ rows[m] # None => rows[m].path # job.to
    /\ \A n \in Notes \ cut : ops[n] # None =>
          /\ ops[n].source # ops[n].target
          /\ \A m \in Notes : m # n /\ rows[m] # None => rows[m].path # ops[n].target

\* While the recovery moves the file of a note by way of a third name, no other note lies, or
\* is being renamed, where that file comes from and goes to.
Apart(m, n) ==
    LET places == {ops[n].source, ops[n].target}
    IN  /\ rows[m] # None => rows[m].path \notin places
        /\ ops[m] # None => {ops[m].source, ops[m].target} \cap places = {}

RecoveryApart ==
    job.at \in RecoverSteps => \A m \in Notes \ Parted : m # job.note => Apart(m, job.note)

\* An operation is open while its rename goes on, and from a crash to the recovery.
OpsSettled ==
    /\ \A n \in Notes \ cut : ops[n] # None =>
          \/ job.note = n /\ job.at \in RenameSteps
          \/ job.at \in {"down", "recovering", "refused"} \cup RecoverSteps
    /\ \A m, n \in Notes \ cut : ops[m] # None /\ ops[n] # None => m = n

\* A scan misses no file that was there all the time, and adopts none that has a note.
ScanSound ==
    /\ scan.unread \subseteq scan.scope
    /\ \A p \in Paths : scan.seen[p] # None => p \in scan.scope \ scan.unread
    /\ job.at = "read" =>
          \A n \in Notes \ Parted :
              Active(n) /\ rows[n].path \in scan.scope \ scan.unread => scan.seen[rows[n].path] # None
    /\ job.at = "relocate" =>
          /\ \A x \in scan.moves : x[1] \in Parted /\ Active(x[1]) /\ x[2] \notin scan.added
          /\ \A p \in scan.added : /\ scan.seen[p] # None
                                   /\ \A n \in Notes : rows[n] # None => rows[n].path # p
          /\ \A n \in scan.missing : Active(n)

\* Where the file of a note is: at each step of its command, ...
FileInCommand(n) ==
    /\ job.at \in {"restore", "stage"} => HasFile(job.from, n)
    /\ job.at \in {"create", "moved", "trashed", "restored", "putback", "staged", "remove"} =>
          HasFile(job.to, n)
    /\ job.at \in {"hop", "move", "rolledback"} => HasFile(job.from, n) /\ disk[job.to] = None
    /\ job.at \in {"hopped", "unhop", "undohopped", "undounhop"} =>
          HasFile(HopPlace(n), n) /\ disk[job.from] = None /\ disk[job.to] = None
    /\ job.at \in {"mark", "commit", "finish", "undo", "undohop"} =>
          HasFile(job.to, n) /\ disk[job.from] = None
    /\ job.at \in RecoverSteps =>
          HasFile(HopPlace(n), n) /\ disk[ops[n].source] = None /\ disk[ops[n].target] = None
    /\ job.at = "recovering" => RolledBack(n) /\ HasFile(ops[n].source, n)

\* ... while a rename waits for the recovery, ...
FileOfOperation(n) ==
    \/ RolledBack(n) /\ HasFile(ops[n].source, n)
    \/ (MovedOnly(n) \/ Committed(n)) /\ HasFile(ops[n].target, n)

\* ... and otherwise where its row says.
Placed(n) ==
    IF job.note = n THEN FileInCommand(n)
    ELSE IF ops[n] # None THEN FileOfOperation(n)
    ELSE rows[n] # None => HasFile(rows[n].path, n)

FilePlaced == \A n \in Notes \ Parted : Placed(n)

\* Below .notora no file lies but where the row of a note in the trash says, where the
\* command under way has put it, and what is left of a note that was deleted for good.
LeftOver(q) ==
    \E n \in Notes, p \in Paths : /\ q = StagingPlace(n, p) /\ rows[n] = None /\ n < nextNote
                                  /\ At("create") => job.note # n

HiddenFilesKnown ==
    \A q \in Places \ Paths : disk[q] # None /\ disk[q].doc \notin cut =>
        \/ \E n \in Notes : rows[n] # None /\ rows[n].path = q
        \/ job.at \in Hopping /\ q = HopPlace(job.note)
        \/ job.at \in {"trashed", "putback", "staged", "remove"} /\ q = job.to
        \/ LeftOver(q)

\* The place a file came from is free for the way back, and the place of a restore as it was
\* when the restore looked, unless another program has taken it.
WayBackIsFree ==
    /\ job.at \in {"trashed", "restored", "staged", "putback"} /\ (job.from \notin Paths \/ outside = 0) =>
          disk[job.from] = None
    /\ job.at = "restore" /\ outside = 0 => disk[job.to] = None
    /\ job.at = "remove" => job.note < nextNote

IInv ==
    /\ TypeOK /\ RowsApart /\ JobFits /\ TargetIsFree /\ RecoveryApart /\ OpsSettled /\ ScanSound
    /\ FilePlaced /\ HiddenFilesKnown /\ WayBackIsFree

=============================================================================
