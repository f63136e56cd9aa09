------------------------- MODULE NoteIndex_proofs -------------------------
(***************************************************************************)
(* Proofs about the note store and its index, for every set of paths,      *)
(* every bound and everything other programs may do meanwhile.             *)
(***************************************************************************)
EXTENDS NoteIndexProps, FiniteSetTheorems, TLAPS

(***************************************************************************)
(* Places.                                                                 *)
(***************************************************************************)

\* What lies below .notora is a place, and no path of the workspace.
LEMMA HiddenPlaces ==
    ASSUME NEW n \in Notes
    PROVE  /\ HopPlace(n) \in Places \ Paths
           /\ \A p \in Paths : TrashPlace(n, p) \in Places \ Paths /\ StagingPlace(n, p) \in Places \ Paths
  BY StoreAssumption DEF HopPlace, TrashPlace, StagingPlace, Places, Hidden

\* Every note has directories of its own there, one of each kind.
LEMMA PlacesApart ==
    ASSUME NEW m \in Notes, NEW n \in Notes, NEW p \in Paths, NEW q \in Paths
    PROVE  /\ m # n => TrashPlace(m, p) # TrashPlace(n, q)
           /\ TrashPlace(m, p) # StagingPlace(n, q)
           /\ TrashPlace(m, p) # HopPlace(n) /\ StagingPlace(m, p) # HopPlace(n)
  BY DEF HopPlace, TrashPlace, StagingPlace

LEMMA NoneApart ==
    None \notin Files /\ None \notin Rows /\ None \notin Operations /\ None \notin Places /\ None \notin Notes
  BY StoreAssumption

(***************************************************************************)
(* Types.                                                                  *)
(***************************************************************************)

\* The jobs a step may leave.
LEMMA JobTypes ==
    ASSUME job \in Jobs, NEW step \in Steps, NEW n \in Notes \cup {None},
           NEW from \in Places \cup {None}, NEW to \in Places \cup {None}, NEW todo \in SUBSET Notes
    PROVE  /\ [job EXCEPT !.at = step] \in Jobs /\ [job EXCEPT !.note = n] \in Jobs
           /\ Resting \in Jobs /\ [Resting EXCEPT !.at = step] \in Jobs
           /\ [Resting EXCEPT !.at = step, !.note = n, !.from = from, !.to = to] \in Jobs
           /\ [Resting EXCEPT !.at = step, !.note = n, !.from = from, !.to = to, !.todo = todo] \in Jobs
  <1>1. "idle" \in Steps
    BY DEF Steps
  <1>2. /\ job.at \in Steps /\ job.note \in Notes \cup {None} /\ job.todo \in SUBSET Notes
        /\ job.from \in Places \cup {None} /\ job.to \in Places \cup {None}
    BY DEF Jobs
  <1>3. [job EXCEPT !.at = step] \in Jobs /\ [job EXCEPT !.note = n] \in Jobs
    BY DEF Jobs
  <1>4. Resting \in Jobs /\ [Resting EXCEPT !.at = step] \in Jobs
    BY <1>1 DEF Jobs, Resting
  <1>5. [Resting EXCEPT !.at = step, !.note = n, !.from = from, !.to = to] \in Jobs
    BY DEF Jobs, Resting
  <1>6. [Resting EXCEPT !.at = step, !.note = n, !.from = from, !.to = to, !.todo = todo] \in Jobs
    BY DEF Jobs, Resting
  <1> QED BY <1>3, <1>4, <1>5, <1>6

\* What the watcher is told is a list of changes.
LEMMA NoticeTypes ==
    ASSUME events \in Seq(Changes), NEW changes \in Seq(Changes), Notice(changes)
    PROVE  events' \in Seq(Changes)
  BY DEF Notice

LEMMA SeenTypes ==
    ASSUME NEW from, NEW to, NEW how
    PROVE  Seen(from, to, how) \in Seq(Changes)
  <1>1. from \in Paths /\ to \in Paths =>
          /\ [paths |-> {from, to}, hints |-> {<<from, to>>}] \in Changes
          /\ [paths |-> {from}, hints |-> {}] \in Changes /\ [paths |-> {to}, hints |-> {}] \in Changes
    BY DEF Changes
  <1>2. [paths |-> {from, to} \cap Paths, hints |-> {}] \in Changes
    BY DEF Changes
  <1> QED BY <1>1, <1>2 DEF Seen

\* A file that is moved is a file where it arrives.
LEMMA ReplaceTypes ==
    ASSUME TypeOK, NEW from \in Places, NEW to \in Places, Replace(from, to)
    PROVE  disk' \in [Places -> Files \cup {None}] /\ events' \in Seq(Changes)
  <1>1. disk' \in [Places -> Files \cup {None}]
    BY DEF Replace, TypeOK
  <1>2. PICK how \in Reports : Notice(Seen(from, to, how))
    BY DEF Replace
  <1>3. events' \in Seq(Changes)
    BY <1>2, SeenTypes, NoticeTypes DEF TypeOK
  <1> QED BY <1>1, <1>3

\* What TypeOK says of the state of the step.
LEMMA StepTypes ==
    ASSUME TypeOK
    PROVE  /\ job \in Jobs /\ events \in Seq(Changes)
           /\ disk \in [Places -> Files \cup {None}] /\ rows \in [Notes -> Rows \cup {None}]
           /\ ops \in [Notes -> Operations \cup {None}]
           /\ \A n \in Notes : rows[n] # None =>
                 /\ rows[n] \in Rows /\ rows[n].path \in Places /\ rows[n].origin \in Paths
           /\ \A n \in Notes : ops[n] # None =>
                 /\ ops[n] \in Operations /\ ops[n].source \in Paths /\ ops[n].target \in Paths
  BY DEF TypeOK, Rows, Operations

LEMMA InHandTypes ==
    ASSUME TypeOK, job.note \in Notes
    PROVE  InHand \subseteq Notes
  BY DEF InHand, TypeOK, Files

\* The notes and places of a command under way.
LEMMA InCommand ==
    ASSUME TypeOK, RowsApart, JobFits, job.at \in CommandStates
    PROVE  /\ job.note \in Notes /\ job.to \in Places
           /\ job.at \notin {"create", "remove"} => job.from \in Places
  <1>1. CASE job.at \in RenameSteps
    BY <1>1 DEF JobFits, RenameFits, Places, RenameSteps
  <1>2. CASE job.at = "create"
    BY <1>2 DEF JobFits, CreateFits, Places
  <1>3. CASE job.at = "moved"
    BY <1>3 DEF JobFits, MoveFits, Places
  <1>4. CASE job.at = "trashed"
    <2>1. job.note \in Notes /\ job.to = TrashPlace(job.note, job.from) /\ job.from \in Paths
      BY <1>4 DEF JobFits, TrashFits, RowsApart, Active
    <2> QED BY <1>4, <2>1, HiddenPlaces DEF Places
  <1>5. CASE job.at \in {"restore", "restored"}
    BY <1>5, StepTypes DEF JobFits, TrashFits, Places, Trashed
  <1>6. CASE job.at \in Deletion
    <2>1. job.note \in Notes /\ \E p \in Paths : job.to = StagingPlace(job.note, p)
      BY <1>6 DEF JobFits, DeletionFits
    <2>2. job.at # "remove" => job.from \in Places
      BY <1>6, StepTypes DEF JobFits, DeletionFits, Trashed
    <2> QED BY <2>1, <2>2, HiddenPlaces
  <1>7. CASE job.at = "putback"
    <2>1. job.note \in Notes /\ job.from \in Places
      BY <1>7, StepTypes DEF JobFits, PutBackFits
    <2>2. \/ job.to \in Paths \/ \E p \in Paths : job.to = StagingPlace(job.note, p)
          \/ job.from \in Paths /\ job.to = TrashPlace(job.note, job.from)
      BY <1>7 DEF JobFits, PutBackFits, RowsApart, Active
    <2> QED BY <2>1, <2>2, HiddenPlaces DEF Places
  <1> QED BY <1>1, <1>2, <1>3, <1>4, <1>5, <1>6, <1>7 DEF CommandStates

\* A command starts with a note, a place it takes a file from and one it takes it to.
LEMMA RequestTypes ==
    ASSUME TypeOK, NEW step \in Steps, NEW n \in Notes, NEW from \in Places \cup {None},
           NEW to \in Places, Request(step, n, from, to)
    PROVE  job' \in Jobs /\ commands' \in 0..MaxCommands
  <1>1. job' = [Resting EXCEPT !.at = step, !.note = n, !.from = from, !.to = to]
    BY DEF Request
  <1>2. job' \in Jobs
    BY <1>1 DEF Jobs, Resting
  <1>3. commands' \in 0..MaxCommands
    BY StoreAssumption DEF Request, TypeOK
  <1> QED BY <1>2, <1>3

LEMMA FaultTypes ==
    ASSUME TypeOK, Works \/ Breaks
    PROVE  faults' \in 0..MaxFaults
  BY StoreAssumption DEF Works, Breaks, TypeOK

(***************************************************************************)
(* TypeOK, one step per action.                                            *)
(***************************************************************************)

\* The commands themselves.
LEMMA CommandTypes ==
    ASSUME TypeOK, RowsApart, JobFits, Commands, UNCHANGED indexVars
    PROVE  TypeOK'
  <1> USE DEF indexVars
  <1>1. CASE CreateFile
    <2>1. PICK path \in Paths \ ActivePaths :
            /\ nextNote \in Notes /\ Request("create", nextNote, None, path)
            /\ disk' = [disk EXCEPT ![path] = [doc |-> nextNote, body |-> Blank]]
            /\ Notice(<<[paths |-> {path}, hints |-> {}]>>)
            /\ nextNote' = nextNote + 1
            /\ UNCHANGED <<rows, ops, watch, faults, cut>>
      BY <1>1 DEF CreateFile
    <2>2. job' \in Jobs /\ commands' \in 0..MaxCommands
      BY <2>1, RequestTypes DEF Steps, Places
    <2>3. <<[paths |-> {path}, hints |-> {}]>> \in Seq(Changes)
      BY DEF Changes
    <2>4. events' \in Seq(Changes)
      BY <2>1, <2>3, NoticeTypes, StepTypes
    <2>5. [doc |-> nextNote, body |-> Blank] \in Files
      BY <2>1, StoreAssumption DEF Files
    <2>6. disk' \in [Places -> Files \cup {None}]
      BY <2>1, <2>5 DEF TypeOK
    <2>7. nextNote' \in 1..(MaxNotes + 1)
      BY <2>1, StoreAssumption DEF Notes
    <2> QED BY <2>1, <2>2, <2>4, <2>6, <2>7 DEF TypeOK
  <1>2. CASE EmptyTrash
    <2>1. PICK n \in Notes :
            /\ Trashed(n) /\ commands < MaxCommands /\ commands' = commands + 1
            /\ job' = [Resting EXCEPT !.at = "stage", !.note = n, !.from = rows[n].path,
                                      !.to = StagingPlace(n, rows[n].origin),
                                      !.todo = {m \in Notes : Trashed(m)} \ {n}]
            /\ Unmoved /\ UNCHANGED <<rows, ops, watch, nextNote, faults, cut>>
      BY <1>2 DEF EmptyTrash
    <2>2. rows[n].path \in Places /\ StagingPlace(n, rows[n].origin) \in Places
      BY <2>1, StepTypes, HiddenPlaces DEF Trashed
    <2>3. job' \in Jobs
      BY <2>1, <2>2 DEF Jobs, Resting, Steps
    <2>4. commands' \in 0..MaxCommands
      BY <2>1, StoreAssumption DEF TypeOK
    <2> QED BY <2>1, <2>3, <2>4 DEF TypeOK, Unmoved
  <1>3. CASE Reindex
    <2>1. job' \in Jobs
      BY <1>3, StepTypes DEF Reindex, Goto, Steps, Jobs
    <2>2. commands' \in 0..MaxCommands
      BY <1>3, StoreAssumption DEF Reindex, TypeOK
    <2> QED BY <1>3, <2>1, <2>2 DEF TypeOK, Reindex
  <1>4. ASSUME NEW n \in Notes, Trash(n)
        PROVE  TypeOK'
    <2>1. rows[n].path \in Places /\ TrashPlace(n, rows[n].path) \in Places
      BY <1>4, StepTypes, HiddenPlaces DEF Trash, Active, RowsApart
    <2>2. job' \in Jobs /\ commands' \in 0..MaxCommands
      BY <1>4, <2>1, RequestTypes DEF Trash, Steps
    <2>3. disk' \in [Places -> Files \cup {None}] /\ events' \in Seq(Changes)
      BY <1>4, <2>1, ReplaceTypes DEF Trash
    <2> QED BY <1>4, <2>2, <2>3 DEF TypeOK, Trash
  <1>5. ASSUME NEW n \in Notes, Delete(n)
        PROVE  TypeOK'
    <2>1. rows[n].path \in Places /\ StagingPlace(n, rows[n].origin) \in Places
      BY <1>5, StepTypes, HiddenPlaces DEF Delete, Trashed
    <2>2. job' \in Jobs /\ commands' \in 0..MaxCommands
      BY <1>5, <2>1, RequestTypes DEF Delete, Steps
    <2> QED BY <1>5, <2>2 DEF TypeOK, Delete, Unmoved
  <1>6. ASSUME NEW n \in Notes, NEW target \in Paths, Rename(n, target)
        PROVE  TypeOK'
    <2>1. rows[n].path \in Paths /\ rows[n].path \in Places /\ target \in Places
      BY <1>6 DEF Rename, Active, RowsApart, Places
    <2>2. job' \in Jobs /\ commands' \in 0..MaxCommands
      <3>1. CASE Collide(rows[n].path, target)
        BY <1>6, <2>1, <3>1, RequestTypes DEF Rename, Steps
      <3>2. CASE ~Collide(rows[n].path, target)
        BY <1>6, <2>1, <3>2, RequestTypes DEF Rename, Steps
      <3> QED BY <3>1, <3>2
    <2>3. ops' \in [Notes -> Operations \cup {None}]
      BY <1>6, <2>1 DEF Rename, TypeOK, Operations
    <2> QED BY <1>6, <2>2, <2>3 DEF TypeOK, Rename, Unmoved
  <1>7. ASSUME NEW n \in Notes, NEW target \in Paths, Move(n, target)
        PROVE  TypeOK'
    <2>1. rows[n].path \in Places /\ target \in Places
      BY <1>7 DEF Move, Active, RowsApart, Places
    <2>2. job' \in Jobs /\ commands' \in 0..MaxCommands
      BY <1>7, <2>1, RequestTypes DEF Move, Steps
    <2>3. disk' \in [Places -> Files \cup {None}] /\ events' \in Seq(Changes)
      BY <1>7, <2>1, ReplaceTypes DEF Move, MoveFile
    <2> QED BY <1>7, <2>2, <2>3 DEF TypeOK, Move
  <1>8. ASSUME NEW n \in Notes, NEW target \in Paths, Restore(n, target)
        PROVE  TypeOK'
    <2>1. rows[n].path \in Places /\ target \in Places
      BY <1>8, StepTypes DEF Restore, Trashed, Places
    <2>2. job' \in Jobs /\ commands' \in 0..MaxCommands
      BY <1>8, <2>1, RequestTypes DEF Restore, Steps
    <2> QED BY <1>8, <2>2 DEF TypeOK, Restore, Unmoved
  <1> QED BY <1>1, <1>2, <1>3, <1>4, <1>5, <1>6, <1>7, <1>8 DEF Commands

\* Where a step of a command leads.
LEMMA GotoTypes ==
    ASSUME TypeOK
    PROVE  /\ \A step \in Steps : Goto(step) => job' \in Jobs
           /\ Rest \/ Fail \/ Succeed => job' \in Jobs
  <1>1. Resting \in Jobs /\ [Resting EXCEPT !.at = "index"] \in Jobs
    BY DEF Jobs, Resting, Steps
  <1>2. Rest \/ Fail \/ Succeed => job' \in Jobs
    BY <1>1 DEF Rest, Fail, Succeed
  <1>3. \A step \in Steps : Goto(step) => job' \in Jobs
    BY DEF Goto, TypeOK, Jobs
  <1> QED BY <1>2, <1>3

\* A step that moves the file of a command, or fails to.
LEMMA MoveTypes ==
    ASSUME TypeOK, NEW from \in Places, NEW to \in Places,
           MoveFile(from, to) \/ Replace(from, to) \/ Unmoved
    PROVE  disk' \in [Places -> Files \cup {None}] /\ events' \in Seq(Changes)
  BY ReplaceTypes DEF MoveFile, Unmoved, TypeOK

\* The steps of a rename that touch the file.
LEMMA RenameFileTypes ==
    ASSUME TypeOK, RowsApart, JobFits,
           RenameHop \/ RenameHopped \/ RenameUnhop \/ RenameMove \/ RenameUndo \/ RenameUndoHop
           \/ RenameUndoHopped \/ RenameUndoUnhop, UNCHANGED indexVars
    PROVE  TypeOK'
  <1>1. job.at \in RenameSteps
    BY DEF RenameHop, RenameHopped, RenameUnhop, RenameMove, RenameUndo, RenameUndoHop, RenameUndoHopped,
           RenameUndoUnhop, At, RenameSteps
  <1>2. job.note \in Notes /\ job.from \in Places /\ job.to \in Places /\ HopPlace(job.note) \in Places
    BY <1>1, HiddenPlaces DEF JobFits, RenameFits, Places
  <1>3. disk' \in [Places -> Files \cup {None}] /\ events' \in Seq(Changes)
    BY <1>2, MoveTypes DEF RenameHop, RenameHopped, RenameUnhop, RenameMove, RenameUndo, RenameUndoHop,
                           RenameUndoHopped, RenameUndoUnhop
  <1>4. job' \in Jobs
    BY GotoTypes DEF RenameHop, RenameHopped, RenameUnhop, RenameMove, RenameUndo, RenameUndoHop,
                     RenameUndoHopped, RenameUndoUnhop, Steps
  <1>5. faults' \in 0..MaxFaults
    BY FaultTypes DEF RenameHop, RenameHopped, RenameUnhop, RenameMove, RenameUndo, RenameUndoHop,
                      RenameUndoHopped, RenameUndoUnhop, FailsUnless
  <1>6. cut' \subseteq Notes
    BY <1>2, InHandTypes DEF RenameHop, RenameHopped, RenameUnhop, RenameMove, RenameUndo, RenameUndoHop,
                             RenameUndoHopped, RenameUndoUnhop, TypeOK
  <1>7. UNCHANGED <<rows, ops, watch, nextNote, commands>>
    BY DEF RenameHop, RenameHopped, RenameUnhop, RenameMove, RenameUndo, RenameUndoHop, RenameUndoHopped,
           RenameUndoUnhop
  <1> QED BY <1>3, <1>4, <1>5, <1>6, <1>7 DEF TypeOK, indexVars

\* The steps of a rename in the catalog.
LEMMA RenameRowTypes ==
    ASSUME TypeOK, RowsApart, JobFits,
           RenameMark \/ RenameCommit \/ RenameFinish \/ RenameRolledBack, UNCHANGED indexVars
    PROVE  TypeOK'
  <1>1. job.at \in RenameSteps
    BY DEF RenameMark, RenameCommit, RenameFinish, RenameRolledBack, At, RenameSteps
  <1>2. /\ job.note \in Notes /\ job.to \in Places
        /\ rows[job.note] # None /\ ops[job.note] # None
    BY <1>1 DEF JobFits, RenameFits, Places, Active
  <1>3. UNCHANGED <<disk, events, watch, nextNote, commands>>
    BY DEF RenameMark, RenameCommit, RenameFinish, RenameRolledBack, Unmoved
  <1>4. rows' \in [Notes -> Rows \cup {None}]
    BY <1>2, SMTT(60) DEF RenameMark, RenameCommit, RenameFinish, RenameRolledBack, TypeOK, Rows
  <1>5. ops' \in [Notes -> Operations \cup {None}]
    BY <1>2 DEF RenameMark, RenameCommit, RenameFinish, RenameRolledBack, TypeOK, Operations
  <1>6. job' \in Jobs
    BY GotoTypes DEF RenameMark, WayBack, RenameCommit, RenameFinish, RenameRolledBack, Steps
  <1>7. faults' \in 0..MaxFaults
    BY FaultTypes DEF RenameMark, RenameCommit, RenameFinish, RenameRolledBack, FailsUnless
  <1>8. cut' \subseteq Notes
    BY <1>2, InHandTypes DEF RenameMark, RenameCommit, RenameFinish, RenameRolledBack, TypeOK
  <1> QED BY <1>3, <1>4, <1>5, <1>6, <1>7, <1>8 DEF TypeOK, indexVars

\* The steps of the other commands.
LEMMA CommandStepTypes ==
    ASSUME TypeOK, RowsApart, JobFits, UNCHANGED indexVars,
           \/ CreateRow \/ MoveRow \/ TrashRow \/ RestoreFile \/ RestoreRow \/ PutBack
           \/ StageFile \/ DeleteRow \/ RemoveFile
    PROVE  TypeOK'
  <1>1. job.at \in CommandStates
    BY DEF CreateRow, MoveRow, TrashRow, RestoreFile, RestoreRow, PutBack, StageFile, DeleteRow, RemoveFile, At,
           CommandStates, Deletion
  <1>2. job.note \in Notes /\ job.to \in Places
    BY <1>1, InCommand
  <1>3. job.at \in {"restore", "putback", "stage"} => job.from \in Places
    BY <1>1, InCommand
  <1>4. UNCHANGED <<watch, nextNote, commands>>
    BY DEF CreateRow, MoveRow, TrashRow, RestoreFile, RestoreRow, PutBack, StageFile, DeleteRow, RemoveFile
  <1>5. faults' \in 0..MaxFaults
    BY FaultTypes DEF CreateRow, MoveRow, TrashRow, RestoreFile, RestoreRow, PutBack, StageFile, DeleteRow,
                      RemoveFile, FailsUnless
  <1>6. cut' \subseteq Notes
    BY <1>2, InHandTypes DEF CreateRow, MoveRow, TrashRow, RestoreFile, RestoreRow, PutBack, StageFile,
                             DeleteRow, RemoveFile, TypeOK
  <1>7. ops' \in [Notes -> Operations \cup {None}]
    BY <1>2 DEF CreateRow, MoveRow, TrashRow, RestoreFile, RestoreRow, PutBack, StageFile, DeleteRow,
                RemoveFile, TypeOK
  <1>8. disk' \in [Places -> Files \cup {None}] /\ events' \in Seq(Changes)
    <2>1. CASE CreateRow
      <3>1. CASE Unmoved
        BY <3>1, StepTypes DEF Unmoved
      <3>2. CASE /\ disk' = [disk EXCEPT ![job.to] = None]
                 /\ Notice(<<[paths |-> {job.to}, hints |-> {}]>>)
        <4>1. job.to \in Paths
          BY <2>1 DEF CreateRow, JobFits, CreateFits, At
        <4>2. <<[paths |-> {job.to}, hints |-> {}]>> \in Seq(Changes)
          BY <4>1 DEF Changes
        <4>3. events' \in Seq(Changes)
          BY <3>2, <4>2, NoticeTypes, StepTypes
        <4> QED BY <3>2, <4>3, StepTypes
      <3> QED BY <2>1, <3>1, <3>2 DEF CreateRow
    <2>2. CASE MoveRow \/ TrashRow \/ RestoreRow \/ DeleteRow
      BY <2>2, StepTypes DEF MoveRow, TrashRow, RestoreRow, DeleteRow, Unmoved
    <2>3. CASE RestoreFile \/ StageFile
      BY <2>3, <1>2, <1>3, MoveTypes DEF RestoreFile, StageFile, At
    <2>4. CASE PutBack
      BY <2>4, <1>2, <1>3, MoveTypes DEF PutBack, At
    <2>5. CASE RemoveFile
      BY <2>5, StepTypes DEF RemoveFile
    <2> QED BY <2>1, <2>2, <2>3, <2>4, <2>5
  <1>9. rows' \in [Notes -> Rows \cup {None}]
    <2>1. CASE CreateRow
      <3>1. [life |-> "active", path |-> job.to, origin |-> job.to, hash |-> Blank, missing |-> 0] \in Rows
        BY <2>1, <1>2, StoreAssumption DEF CreateRow, JobFits, CreateFits, At, Rows, MissingScanConfirmationCount
      <3> QED BY <2>1, <3>1, StepTypes DEF CreateRow
    <2>2. CASE MoveRow
      <3>1. rows[job.note] # None
        BY <2>2 DEF MoveRow, JobFits, MoveFits, At, Active
      <3> QED BY <2>2, <3>1, <1>2, SMTT(60) DEF MoveRow, TypeOK, Rows
    <2>3. CASE TrashRow
      <3>1. rows[job.note] # None /\ job.from \in Paths
        BY <2>3, <1>2 DEF TrashRow, JobFits, TrashFits, At, Active, RowsApart
      <3>2. rows[job.note] \in Rows
        BY <3>1, <1>2, StepTypes
      <3>3. [rows[job.note] EXCEPT !.life = "trashed", !.path = job.to, !.origin = job.from] \in Rows
        BY <3>1, <3>2, <1>2 DEF Rows
      <3> QED BY <2>3, <3>3, <1>2, StepTypes DEF TrashRow
    <2>4. CASE RestoreRow
      <3>1. rows[job.note] # None /\ job.to \in Paths
        BY <2>4 DEF RestoreRow, JobFits, TrashFits, At, Trashed
      <3>2. rows[job.note] \in Rows
        BY <3>1, <1>2, StepTypes
      <3>3. [rows[job.note] EXCEPT !.life = "active", !.path = job.to, !.origin = job.to] \in Rows
        BY <3>1, <3>2, <1>2 DEF Rows
      <3> QED BY <2>4, <3>3, <1>2, StepTypes DEF RestoreRow
    <2>5. CASE DeleteRow
      BY <2>5, StepTypes DEF DeleteRow
    <2>6. CASE RestoreFile \/ PutBack \/ StageFile \/ RemoveFile
      BY <2>6, StepTypes DEF RestoreFile, PutBack, StageFile, RemoveFile
    <2> QED BY <2>1, <2>2, <2>3, <2>4, <2>5, <2>6
  <1>10. job' \in Jobs
    <2>1. CASE RemoveFile
      <3>1. CASE \E n \in job.todo :
                    job' = [Resting EXCEPT !.at = "stage", !.note = n, !.from = rows[n].path,
                                           !.to = StagingPlace(n, rows[n].origin), !.todo = job.todo \ {n}]
        <4>1. PICK n \in job.todo :
                     job' = [Resting EXCEPT !.at = "stage", !.note = n, !.from = rows[n].path,
                                           !.to = StagingPlace(n, rows[n].origin), !.todo = job.todo \ {n}]
          BY <3>1
        <4>2. job.todo \subseteq Notes
          BY StepTypes DEF Jobs
        <4>3. rows[n].path \in Places /\ StagingPlace(n, rows[n].origin) \in Places
          BY <2>1, <4>2, StepTypes, HiddenPlaces DEF RemoveFile, At, JobFits, DeletionFits, Deletion, Trashed
        <4> QED BY <4>1, <4>2, <4>3 DEF Jobs, Resting, Steps
      <3>2. CASE Succeed \/ Fail
        BY <3>2, GotoTypes
      <3> QED BY <2>1, <3>1, <3>2 DEF RemoveFile
    <2>2. CASE CreateRow \/ MoveRow \/ TrashRow \/ RestoreFile \/ RestoreRow \/ PutBack
               \/ StageFile \/ DeleteRow
      BY <2>2, GotoTypes DEF CreateRow, MoveRow, TrashRow, RestoreFile, RestoreRow, PutBack, StageFile,
                             DeleteRow, Steps
    <2> QED BY <2>1, <2>2
  <1> QED BY <1>4, <1>5, <1>6, <1>7, <1>8, <1>9, <1>10 DEF TypeOK, indexVars

LEMMA ConcernedTypes ==
    ASSUME NEW paths
    PROVE  Concerned(paths) \subseteq Notes
  BY DEF Concerned

\* The recovery.
LEMMA RecoveryTypes ==
    ASSUME TypeOK, JobFits, Recovery, UNCHANGED indexVars
    PROVE  TypeOK'
  <1> USE DEF indexVars
  <1>1. CASE Start
    <2>1. job' \in Jobs
      BY <1>1 DEF Start, Jobs, Resting, Steps
    <2> QED BY <1>1, <2>1 DEF TypeOK, Start
  <1>2. CASE Recovered
    <2>1. job' \in Jobs
      BY <1>2, GotoTypes DEF Recovered, Steps
    <2> QED BY <1>2, <2>1 DEF TypeOK, Recovered
  <1>3. ASSUME NEW n \in Notes, RecoverMoveBack(n) \/ RecoverHop(n)
        PROVE  TypeOK'
    <2>1. ops[n].source \in Places /\ ops[n].target \in Places /\ HopPlace(n) \in Places
      BY <1>3, StepTypes, HiddenPlaces DEF RecoverMoveBack, RecoverHop, MovesBack, Recovering, Places
    <2>2. disk' \in [Places -> Files \cup {None}] /\ events' \in Seq(Changes)
      BY <1>3, <2>1, MoveTypes DEF RecoverMoveBack, RecoverHop
    <2>3. job' \in Jobs
      BY <1>3, StepTypes DEF RecoverMoveBack, RecoverHop, Jobs, Steps
    <2>4. cut' \subseteq Notes
      BY <1>3, ConcernedTypes DEF RecoverMoveBack, RecoverHop, MovesBack, TypeOK
    <2> QED BY <1>3, <2>2, <2>3, <2>4 DEF TypeOK, RecoverMoveBack, RecoverHop, MovesBack, Works
  <1>6. CASE RecoverHopped \/ RecoverUnhop
    <2>1. job.note \in Notes /\ ops[job.note] # None
      BY <1>6 DEF RecoverHopped, RecoverUnhop, At, JobFits, RestFits, RecoverSteps
    <2>2. ops[job.note].source \in Places /\ ops[job.note].target \in Places /\ HopPlace(job.note) \in Places
      BY <2>1, StepTypes, HiddenPlaces DEF Places
    <2>3. faults' \in 0..MaxFaults
      BY <1>6, FaultTypes DEF RecoverHopped, RecoverUnhop, FailsUnless
    <2>4. CASE RecoverHopped
      <3>1. disk' \in [Places -> Files \cup {None}] /\ events' \in Seq(Changes)
        BY <2>2, <2>4, MoveTypes DEF RecoverHopped
      <3>2. job' \in Jobs
        BY <2>4, GotoTypes DEF RecoverHopped, Steps
      <3> QED BY <2>3, <2>4, <3>1, <3>2 DEF TypeOK, RecoverHopped
    <2>5. CASE RecoverUnhop
      <3>1. disk' \in [Places -> Files \cup {None}] /\ events' \in Seq(Changes)
        BY <2>2, <2>5, StepTypes DEF RecoverUnhop
      <3>2. job' \in Jobs
        BY <2>5 DEF RecoverUnhop, Jobs, Resting, Steps
      <3>3. cut' \subseteq Notes
        BY <2>1, <2>5, InHandTypes DEF RecoverUnhop, TypeOK
      <3> QED BY <2>3, <2>5, <3>1, <3>2, <3>3 DEF TypeOK, RecoverUnhop
    <2> QED BY <1>6, <2>4, <2>5
  <1>4. ASSUME NEW n \in Notes, RecoverRecord(n)
        PROVE  TypeOK'
    <2>1. job' \in Jobs /\ ops' \in [Notes -> Operations \cup {None}]
      BY <1>4, StepTypes DEF RecoverRecord, Jobs
    <2> QED BY <1>4, <2>1 DEF TypeOK, RecoverRecord, Works
  <1>5. ASSUME NEW n \in Notes, Refuse(n)
        PROVE  TypeOK'
    <2>1. job' \in Jobs
      BY <1>5 DEF Refuse, Jobs, Resting, Steps
    <2>2. faults' \in 0..MaxFaults
      BY <1>5, FaultTypes DEF Refuse, FailsUnless
    <2>3. events' \in Seq(Changes)
      BY <1>5 DEF Refuse
    <2> QED BY <1>5, <2>1, <2>2, <2>3 DEF TypeOK, Refuse
  <1> QED BY <1>1, <1>2, <1>3, <1>4, <1>5, <1>6 DEF Recovery

\* What a scan starts with.
LEMMA ScanTypes ==
    /\ NoScan \in Scans
    /\ \A scope \in SUBSET Paths, hints \in SUBSET (Paths \X Paths) :
          [NoScan EXCEPT !.scope = scope, !.hints = hints, !.unread = scope] \in Scans
  BY DEF NoScan, Scans

LEMMA BeginTypes ==
    ASSUME NEW scope \in SUBSET Paths, NEW hints \in SUBSET (Paths \X Paths), Begin(scope, hints)
    PROVE  scan' \in Scans /\ job' \in Jobs
  <1>1. scan' \in Scans
    BY ScanTypes DEF Begin
  <1>2. job' \in Jobs
    BY DEF Begin, Jobs, Resting, Steps
  <1> QED BY <1>1, <1>2

\* The beginnings of a scan.
LEMMA IndexTypes ==
    ASSUME TypeOK, IndexWorkspace \/ IndexBatch \/ IndexConfirm
    PROVE  TypeOK'
  <1>1. CASE IndexWorkspace
    <2>1. scan' \in Scans /\ job' \in Jobs
      BY <1>1, BeginTypes DEF IndexWorkspace
    <2> QED BY <1>1, <2>1 DEF TypeOK, IndexWorkspace
  <1>2. CASE IndexBatch
    <2>1. PICK k \in 1..Len(events) :
            LET paths == UNION {events[i].paths : i \in 1..k}
            IN  /\ Begin(paths, UNION {events[i].hints : i \in 1..k})
                /\ confirm' = confirm \cup paths
                /\ events' = SubSeq(events, k + 1, Len(events))
      BY <1>2 DEF IndexBatch
    <2>2. \A i \in 1..k : events[i].paths \in SUBSET Paths /\ events[i].hints \in SUBSET (Paths \X Paths)
      <3>1. \A i \in 1..k : events[i] \in Changes
        BY StepTypes
      <3> QED BY <3>1 DEF Changes
    <2>3. /\ UNION {events[i].paths : i \in 1..k} \in SUBSET Paths
          /\ UNION {events[i].hints : i \in 1..k} \in SUBSET (Paths \X Paths)
      BY <2>2
    <2>4. scan' \in Scans /\ job' \in Jobs
      BY <2>1, <2>3, BeginTypes
    <2>5. confirm' \subseteq Paths
      BY <2>1, <2>3 DEF TypeOK
    <2>6. events' \in Seq(Changes)
      BY <2>1, StepTypes
    <2> QED BY <1>2, <2>4, <2>5, <2>6 DEF TypeOK, IndexBatch
  <1>3. CASE IndexConfirm
    <2>1. scan' \in Scans /\ job' \in Jobs
      BY <1>3, BeginTypes DEF IndexConfirm, TypeOK
    <2> QED BY <1>3, <2>1 DEF TypeOK, IndexConfirm
  <1> QED BY <1>1, <1>2, <1>3

LEMMA ReadFileTypes ==
    ASSUME TypeOK, ReadFile
    PROVE  TypeOK'
  <1>1. PICK p \in scan.unread :
          /\ \/ /\ Works /\ scan' = [scan EXCEPT !.unread = @ \ {p}, !.seen[p] = disk[p]]
                /\ UNCHANGED cut
             \/ /\ Breaks /\ scan' = [scan EXCEPT !.unread = @ \ {p}, !.bad = TRUE]
                /\ cut' = cut \cup {n \in Notes : Active(n) /\ rows[n].path = p}
    BY DEF ReadFile
  <1>2. UNCHANGED <<disk, rows, ops, job, watch, events, nextNote, commands, confirm, outside, strayed>>
    BY DEF ReadFile
  <1>3. scan \in Scans /\ p \in Paths /\ disk[p] \in Files \cup {None}
    BY StepTypes DEF TypeOK, Scans, Places
  <1>4. scan' \in Scans
    <2>1. [scan.seen EXCEPT ![p] = disk[p]] \in [Paths -> Files \cup {None}]
      BY <1>3 DEF Scans
    <2>2. CASE scan' = [scan EXCEPT !.unread = @ \ {p}, !.seen[p] = disk[p]]
      BY <2>1, <2>2, <1>3 DEF Scans
    <2>3. CASE scan' = [scan EXCEPT !.unread = @ \ {p}, !.bad = TRUE]
      BY <2>3, <1>3 DEF Scans
    <2> QED BY <1>1, <2>2, <2>3
  <1>5. faults' \in 0..MaxFaults /\ cut' \subseteq Notes
    BY <1>1, FaultTypes DEF TypeOK
  <1> QED BY <1>2, <1>4, <1>5 DEF TypeOK

LEMMA MaximalTypes ==
    ASSUME NEW candidates, NEW pairs \in MaximalIn(candidates)
    PROVE  pairs \subseteq candidates /\ OneToOne(pairs)
  BY DEF MaximalIn

\* What the reconciliation makes of a scan: a missing note that moves was in its scope,
\* has no file where its row says, and moves to a file no row of the scope has, alone.
LEMMA ReconcileMoves ==
    ASSUME TypeOK, NEW hinted \in HintedMoves, NEW hashed \in HashedMoves(hinted)
    PROVE  /\ hinted \cup hashed \subseteq (Affected \ Matched) \X Unmatched
           /\ OneToOne(hinted \cup hashed)
  <1> DEFINE late == {x \in ((Affected \ Matched) \ {z[1] : z \in hinted}) \X (Unmatched \ {y[2] : y \in hinted}) :
                        /\ \A m \in (Affected \ Matched) \ {z[1] : z \in hinted} :
                              rows[m].hash = rows[x[1]].hash => m = x[1]
                        /\ rows[x[1]].hash = scan.seen[x[2]].body}
  <1> DEFINE early == {x \in (Affected \ Matched) \X Unmatched : <<rows[x[1]].path, x[2]>> \in scan.hints}
  <1>0. hinted \in MaximalIn(early) /\ early \subseteq (Affected \ Matched) \X Unmatched
    BY DEF HintedMoves
  <1> HIDE DEF early
  <1>1. hinted \subseteq (Affected \ Matched) \X Unmatched /\ OneToOne(hinted)
    BY <1>0, MaximalTypes
  <1>2. hashed \in MaximalIn(late)
    BY DEF HashedMoves
  <1>3. hashed \subseteq late /\ OneToOne(hashed)
    BY <1>2, MaximalTypes
  <1>4. \A x \in late : /\ x \in (Affected \ Matched) \X Unmatched
                        /\ \A y \in hinted : x[1] # y[1] /\ x[2] # y[2]
    OBVIOUS
  <1> HIDE DEF late
  <1> QED BY <1>1, <1>3, <1>4 DEF OneToOne

LEMMA NoneMissing == 0 \in 0..MissingScanConfirmationCount - 1
  BY DEF MissingScanConfirmationCount

LEMMA ReconcileTypes ==
    ASSUME TypeOK, Reconcile
    PROVE  TypeOK'
  <1>1. UNCHANGED <<disk, rows, ops, watch, events, nextNote, commands, faults, cut, confirm, outside, strayed>>
    BY DEF Reconcile
  <1>2. CASE scan' = NoScan /\ Rest
    BY <1>1, <1>2, ScanTypes, GotoTypes DEF TypeOK
  <1>3. CASE \E hinted \in HintedMoves : \E hashed \in HashedMoves(hinted) :
                LET moves == hinted \cup hashed
                IN  /\ scan' = [scan EXCEPT !.moves = moves,
                                         !.added = Unmatched \ {x[2] : x \in moves},
                                         !.missing = (Affected \ Matched) \ {x[1] : x \in moves}]
                    /\ Goto("relocate")
    <2>0. PICK hinted \in HintedMoves : \E hashed \in HashedMoves(hinted) :
                LET moves == hinted \cup hashed
                IN  /\ scan' = [scan EXCEPT !.moves = moves,
                                         !.added = Unmatched \ {x[2] : x \in moves},
                                         !.missing = (Affected \ Matched) \ {x[1] : x \in moves}]
                    /\ Goto("relocate")
      BY <1>3
    <2>1. PICK hashed \in HashedMoves(hinted) :
                /\ scan' = [scan EXCEPT !.moves = hinted \cup hashed,
                                 !.added = Unmatched \ {x[2] : x \in hinted \cup hashed},
                                 !.missing = (Affected \ Matched) \ {x[1] : x \in hinted \cup hashed}]
                /\ Goto("relocate")
      BY <2>0
    <2>2. hinted \cup hashed \subseteq Notes \X Paths /\ Unmatched \subseteq Paths /\ Affected \subseteq Notes
      BY ReconcileMoves, ZenonT(60) DEF Affected, Unmatched, Discovered
    <2>3. scan' \in Scans
      BY <2>1, <2>2 DEF TypeOK, Scans
    <2>4. job' \in Jobs
      BY <2>1, GotoTypes DEF Steps
    <2> QED BY <1>1, <2>3, <2>4 DEF TypeOK
  <1> QED BY <1>2, <1>3 DEF Reconcile

LEMMA RelocateTypes ==
    ASSUME TypeOK, ScanSound, Relocate
    PROVE  TypeOK'
  <1>1. UNCHANGED <<disk, ops, watch, events, nextNote, commands, cut, confirm, outside, strayed>>
    BY DEF Relocate
  <1>2. PICK x \in scan.moves :
          \/ /\ Works
             /\ rows' = [rows EXCEPT ![x[1]] = [@ EXCEPT !.path = x[2], !.origin = x[2], !.missing = 0]]
             /\ scan' = [scan EXCEPT !.moves = @ \ {x}]
             /\ UNCHANGED job
          \/ /\ FailsUnless(Unclaimed(x[1], x[2])) /\ UNCHANGED rows
             /\ scan' = NoScan /\ Rest
    BY DEF Relocate
  <1>3. scan \in Scans /\ x[1] \in Notes /\ x[2] \in Paths /\ rows[x[1]] # None
    BY DEF TypeOK, Scans, ScanSound, Relocate, At, Active
  <1>4. rows[x[1]] \in Rows
    BY <1>3, StepTypes
  <1>5. [rows[x[1]] EXCEPT !.path = x[2], !.origin = x[2], !.missing = 0] \in Rows
    BY <1>3, <1>4, NoneMissing DEF Rows, Places
  <1>6. rows' \in [Notes -> Rows \cup {None}]
    BY <1>2, <1>3, <1>5, StepTypes
  <1>7. scan' \in Scans
    <2>1. [scan EXCEPT !.moves = @ \ {x}] \in Scans
      BY <1>3 DEF Scans
    <2> QED BY <1>2, <2>1, ScanTypes
  <1>8. job' \in Jobs
    BY <1>2, StepTypes, GotoTypes
  <1>9. faults' \in 0..MaxFaults
    BY <1>2, FaultTypes DEF FailsUnless
  <1> QED BY <1>1, <1>6, <1>7, <1>8, <1>9 DEF TypeOK

\* The identities that a scan gives out follow the last one, and nextNote follows them.
LEMMA NewIdRange ==
    ASSUME TypeOK
    PROVE  /\ Cardinality(scan.added) \in Nat
           /\ \A p \in scan.added : /\ NewId(p) \in Nat /\ NewId(p) >= nextNote
                                    /\ NewId(p) < nextNote + Cardinality(scan.added)
  <1>1. IsFiniteSet(scan.added)
    BY StoreAssumption, FS_Subset DEF TypeOK, Scans
  <1>2. nextNote \in Nat /\ Cardinality(scan.added) \in Nat
    BY <1>1, FS_CardinalityType, StoreAssumption DEF TypeOK
  <1>3. ASSUME NEW p \in scan.added
        PROVE  /\ NewId(p) \in Nat /\ NewId(p) >= nextNote
               /\ NewId(p) < nextNote + Cardinality(scan.added)
    <2> DEFINE before == {q \in scan.added : Rank[q] < Rank[p]}
    <2>1. before \subseteq scan.added /\ before # scan.added
      BY <1>3, IndexAssumption DEF TypeOK, Scans
    <2> HIDE DEF before
    <2>2. Cardinality(before) \in Nat /\ Cardinality(before) < Cardinality(scan.added)
      BY <1>1, <2>1, FS_Subset, FS_CardinalityType
    <2>3. NewId(p) = nextNote + Cardinality(before)
      BY DEF NewId, before
    <2> QED BY <1>2, <2>2, <2>3
  <1> QED BY <1>2, <1>3

LEMMA MissedTypes ==
    ASSUME NEW row \in Rows
    PROVE  Missed(row) \in Rows \cup {None}
  BY DEF Missed, Rows, MissingScanConfirmationCount

LEMMA ApplyScanTypes ==
    ASSUME TypeOK, RowsApart, ScanSound, ApplyScan
    PROVE  TypeOK'
  <1>1. UNCHANGED <<disk, watch, events, commands, confirm, outside, strayed>> /\ scan' = NoScan /\ Rest
    BY DEF ApplyScan
  <1>2. scan' \in Scans /\ job' \in Jobs /\ faults' \in 0..MaxFaults
    BY <1>1, ScanTypes, GotoTypes, FaultTypes DEF ApplyScan
  <1>3. CASE UNCHANGED <<rows, ops, nextNote, cut>>
    BY <1>1, <1>2, <1>3 DEF TypeOK
  <1>4. CASE /\ rows' = [n \in Notes |-> RowAfter(n)]
             /\ ops' = [n \in Notes |-> IF rows'[n] = None THEN None ELSE ops[n]]
             /\ nextNote' = nextNote + Cardinality(scan.added)
             /\ cut' = cut \cup NewIds
    <2>1. nextNote' \in 1..(MaxNotes + 1)
      <3>1. nextNote + Cardinality(scan.added) <= MaxNotes + 1
        BY DEF ApplyScan
      <3> QED BY <1>4, <3>1, NewIdRange, StoreAssumption DEF TypeOK
    <2>2. NewIds \subseteq Notes
      <3>1. nextNote + Cardinality(scan.added) <= MaxNotes + 1 /\ nextNote \in Nat /\ nextNote >= 1
        BY StoreAssumption DEF ApplyScan, TypeOK
      <3> QED BY <3>1, NewIdRange, StoreAssumption DEF NewIds, Notes
    <2>3. ops' \in [Notes -> Operations \cup {None}] /\ cut' \subseteq Notes
      BY <1>4, <2>2 DEF TypeOK
    <2>4. ASSUME NEW n \in Notes
          PROVE  RowAfter(n) \in Rows \cup {None}
      <3>1. CASE n \in NewIds
        <4> DEFINE path == CHOOSE p \in scan.added : NewId(p) = n
        <4>1. path \in scan.added
          BY <3>1 DEF NewIds
        <4> HIDE DEF path
        <4>2. path \in Paths /\ scan.seen[path] # None
          BY <4>1 DEF TypeOK, Scans, ScanSound, ApplyScan, At
        <4>3. scan.seen[path].body \in Bodies
          BY <4>2 DEF TypeOK, Scans, Files
        <4>4. [life |-> "active", path |-> path, origin |-> path, hash |-> scan.seen[path].body,
               missing |-> 0] \in Rows
          BY <4>2, <4>3 DEF Rows, Places, MissingScanConfirmationCount
        <4> QED BY <3>1, <4>4 DEF RowAfter, path
      <3>2. CASE n \notin NewIds /\ n \in scan.missing
        <4>1. rows[n] \in Rows
          BY <3>2, StepTypes DEF ScanSound, ApplyScan, At, Active
        <4> QED BY <3>2, <4>1, MissedTypes DEF RowAfter
      <3>3. CASE n \notin NewIds /\ n \notin scan.missing /\ n \in Affected /\ rows[n].path \in Discovered
        <4>1. rows[n] \in Rows
          BY <3>3, StepTypes DEF Affected, Active
        <4>2. scan.seen[rows[n].path].body \in Bodies
          BY <3>3 DEF TypeOK, Scans, Files, Discovered
        <4>3. Refreshed(rows[n]) \in Rows
          BY <4>1, <4>2, NoneMissing DEF Refreshed, Rows
        <4> QED BY <3>3, <4>3 DEF RowAfter
      <3>4. CASE n \notin NewIds /\ n \notin scan.missing /\ ~(n \in Affected /\ rows[n].path \in Discovered)
        BY <3>4, StepTypes DEF RowAfter
      <3> QED BY <3>1, <3>2, <3>3, <3>4
    <2>5. rows' \in [Notes -> Rows \cup {None}]
      BY <1>4, <2>4
    <2> QED BY <1>1, <1>2, <2>1, <2>3, <2>5 DEF TypeOK
  <1> QED BY <1>3, <1>4 DEF ApplyScan

\* What other programs do.
LEMMA OutsideTypes ==
    ASSUME TypeOK, OutsideCreate \/ OutsideEdit \/ OutsideRename \/ OutsideDelete
    PROVE  TypeOK'
  <1>1. /\ outside' \in 0..MaxOutside
        /\ UNCHANGED <<rows, ops, job, watch, commands, faults, scan, confirm>>
    <2>1. Interferes("create") \/ Interferes("edit") \/ Interferes("rename") \/ Interferes("delete")
      BY DEF OutsideCreate, OutsideEdit, OutsideRename, OutsideDelete
    <2>2. /\ outside < MaxOutside /\ outside' = outside + 1
          /\ UNCHANGED <<rows, ops, job, watch, commands, faults, scan, confirm>>
      BY <2>1 DEF Interferes
    <2> QED BY <2>2, IndexAssumption DEF TypeOK
  <1>2. cut' \subseteq Notes /\ strayed' \subseteq Notes
    BY ConcernedTypes DEF OutsideCreate, OutsideEdit, OutsideRename, OutsideDelete, TypeOK
  <1>3. ASSUME NEW p \in Paths, Touched(p)
        PROVE  events' \in Seq(Changes)
    <2>1. <<[paths |-> {p}, hints |-> {}]>> \in Seq(Changes)
      BY DEF Changes
    <2> QED BY <1>3, <2>1, NoticeTypes, StepTypes DEF Touched
  <1>4. /\ disk' \in [Places -> Files \cup {None}] /\ events' \in Seq(Changes)
        /\ nextNote' \in 1..(MaxNotes + 1)
    <2>1. CASE OutsideCreate
      <3>1. PICK p \in Paths, body \in Bodies :
              /\ nextNote \in Notes /\ disk' = [disk EXCEPT ![p] = [doc |-> nextNote, body |-> body]]
              /\ nextNote' = nextNote + 1 /\ Touched(p)
        BY <2>1 DEF OutsideCreate
      <3>2. [doc |-> nextNote, body |-> body] \in Files
        BY <3>1 DEF Files
      <3>3. nextNote' \in 1..(MaxNotes + 1)
        BY <3>1, StoreAssumption DEF Notes
      <3> QED BY <3>1, <3>2, <3>3, <1>3, StepTypes
    <2>2. CASE OutsideEdit
      <3>1. PICK p \in Paths, body \in Bodies :
              disk[p] # None /\ disk' = [disk EXCEPT ![p].body = body] /\ Touched(p)
        BY <2>2 DEF OutsideEdit
      <3>2. disk[p] \in Files
        BY <3>1, StepTypes DEF Places
      <3>3. [disk[p] EXCEPT !.body = body] \in Files
        BY <3>2 DEF Files
      <3> QED BY <2>2, <3>1, <3>3, <1>3, StepTypes DEF OutsideEdit, TypeOK
    <2>3. CASE OutsideRename
      <3>1. PICK p \in Paths, q \in Paths : MoveFile(p, q)
        BY <2>3 DEF OutsideRename
      <3> QED BY <2>3, <3>1, MoveTypes DEF OutsideRename, Places, TypeOK
    <2>4. CASE OutsideDelete
      <3>1. PICK p \in Paths : disk' = [disk EXCEPT ![p] = None] /\ Touched(p)
        BY <2>4 DEF OutsideDelete
      <3> QED BY <2>4, <3>1, <1>3, StepTypes DEF OutsideDelete, TypeOK
    <2> QED BY <1>1, <2>1, <2>2, <2>3, <2>4, Zenon
  <1> QED BY <1>1, <1>2, <1>4 DEF TypeOK

\* The process dies, with what it knew of the changes.
LEMMA DiesTypes ==
    ASSUME TypeOK, RowsApart, JobFits, Dies
    PROVE  TypeOK'
  <1>1. job' \in Jobs /\ scan' \in Scans
    BY ScanTypes DEF Dies, Crash, Jobs, Resting, Steps
  <1>2. job.at \in Unjournaled \cup Hopping => job.note \in Notes
    <2>1. job.at \in CommandStates => job.note \in Notes
      BY InCommand
    <2>2. job.at \in RecoverSteps => job.note \in Notes
      BY DEF JobFits, RestFits
    <2> QED BY <2>1, <2>2 DEF Unjournaled, Hopping, RecoverSteps, CommandStates, RenameSteps, Deletion
  <1>3. cut' \subseteq Notes
    BY <1>2, InHandTypes DEF Dies, Crash, TypeOK
  <1>4. faults' \in 0..MaxFaults
    BY FaultTypes DEF Dies, Crash
  <1>5. /\ watch' = "off" /\ events' = <<>> /\ confirm' = {}
        /\ UNCHANGED <<disk, rows, ops, nextNote, commands, outside, strayed>>
    BY DEF Dies, Crash
  <1> QED BY <1>1, <1>3, <1>4, <1>5 DEF TypeOK

LEMMA TypeStep ==
    ASSUME IInv, [Next]_vars
    PROVE  TypeOK'
  <1> USE DEF IInv
  <1>1. CASE CommandSteps /\ UNCHANGED indexVars
    BY <1>1, RenameFileTypes, RenameRowTypes, CommandStepTypes DEF CommandSteps
  <1>2. CASE Recovery /\ UNCHANGED indexVars
    BY <1>2, RecoveryTypes
  <1>3. CASE IndexWorkspace \/ IndexBatch \/ IndexConfirm
    BY <1>3, IndexTypes
  <1>4. CASE ReadFile \/ Reconcile \/ Relocate \/ ApplyScan
    BY <1>4, ReadFileTypes, ReconcileTypes, RelocateTypes, ApplyScanTypes
  <1>5. CASE Commands /\ UNCHANGED indexVars
    BY <1>5, CommandTypes
  <1>6. CASE Registered
    BY <1>6 DEF Registered, TypeOK, indexVars
  <1>7. CASE OutsideCreate \/ OutsideEdit \/ OutsideRename \/ OutsideDelete
    BY <1>7, OutsideTypes
  <1>8. CASE Dies
    BY <1>8, DiesTypes
  <1>9. CASE UNCHANGED vars
    BY <1>9 DEF vars, storeVars, indexVars, TypeOK
  <1> QED BY <1>1, <1>2, <1>3, <1>4, <1>5, <1>6, <1>7, <1>8, <1>9 DEF Next, Worker

(***************************************************************************)
(* RowsApart.                                                              *)
(***************************************************************************)

\* Nobody else is in a note's directory of the trash.
LEMMA TrashUnclaimed ==
    ASSUME RowsApart, TypeOK, NEW n \in Notes, NEW p \in Paths
    PROVE  Unclaimed(n, TrashPlace(n, p))
  <1>1. ASSUME NEW m \in Notes \ {n}, rows[m] # None
        PROVE  rows[m].path # TrashPlace(n, p)
    <2>1. rows[m].life \in {"active", "trashed"}
      BY <1>1, StepTypes DEF Rows
    <2>2. CASE rows[m].life = "active"
      BY <1>1, <2>2, HiddenPlaces DEF RowsApart
    <2>3. CASE rows[m].life = "trashed"
      BY <1>1, <2>3, PlacesApart DEF RowsApart
    <2> QED BY <2>1, <2>2, <2>3
  <1> QED BY <1>1 DEF Unclaimed

\* One row is written, at a place nobody else claims.
LEMMA RowPut ==
    ASSUME RowsApart, TypeOK, NEW n \in Notes, n < nextNote, nextNote' = nextNote,
           \A m \in Notes \ {n} : rows'[m] = rows[m],
           rows'[n] # None, Unclaimed(n, rows'[n].path),
           rows'[n].life = "active" => rows'[n].path \in Paths,
           rows'[n].life = "trashed" => \E p \in Paths : rows'[n].path = TrashPlace(n, p),
           \A m \in Notes : ops'[m] # None => ops[m] # None
    PROVE  RowsApart'
  <1>1. \A m \in Notes : rows'[m] # None =>
          /\ m < nextNote'
          /\ rows'[m].life = "active" => rows'[m].path \in Paths
          /\ rows'[m].life = "trashed" => \E p \in Paths : rows'[m].path = TrashPlace(m, p)
    BY DEF RowsApart
  <1>2. \A k, m \in Notes :
          k # m /\ rows'[k] # None /\ rows'[m] # None => rows'[k].path # rows'[m].path
    BY DEF RowsApart, Unclaimed
  <1>3. \A m \in Notes : ops'[m] # None => rows'[m] # None
    BY DEF RowsApart
  <1> QED BY <1>1, <1>2, <1>3 DEF RowsApart

LEMMA RowsKept ==
    ASSUME RowsApart, TypeOK, UNCHANGED rows, nextNote' \in Nat, nextNote' >= nextNote,
           \A n \in Notes : ops'[n] # None => ops[n] # None \/ rows[n] # None
    PROVE  RowsApart'
  <1>1. \A n \in Notes : rows'[n] # None => n < nextNote'
    BY StoreAssumption DEF RowsApart, TypeOK, Notes
  <1> QED BY <1>1 DEF RowsApart

\* The steps of the commands that write a row.
LEMMA RowStepApart ==
    ASSUME IInv, CreateRow \/ MoveRow \/ TrashRow \/ RestoreRow \/ RenameCommit \/ DeleteRow
    PROVE  RowsApart'
  <1> USE DEF IInv
  <1>1. nextNote' = nextNote /\ nextNote \in Nat
    BY StoreAssumption DEF CreateRow, MoveRow, TrashRow, RestoreRow, RenameCommit, DeleteRow, TypeOK
  <1>2. CASE UNCHANGED <<rows, ops>>
    BY <1>1, <1>2, RowsKept
  <1>3. CASE DeleteRow /\ ~UNCHANGED <<rows, ops>>
    <2>1. job.note \in Notes
      BY <1>3, InCommand DEF DeleteRow, At, CommandStates, Deletion
    <2>2. /\ \A m \in Notes \ {job.note} : rows'[m] = rows[m] /\ ops'[m] = ops[m]
          /\ rows'[job.note] = None /\ ops'[job.note] = None
      BY <1>3, <2>1, StepTypes DEF DeleteRow
    <2> QED BY <1>1, <2>1, <2>2 DEF RowsApart
  <1>4. CASE (CreateRow \/ MoveRow \/ TrashRow \/ RestoreRow \/ RenameCommit) /\ rows' # rows
    <2>1. job.note \in Notes /\ job.at \in CommandStates
      BY <1>4, InCommand DEF CreateRow, MoveRow, TrashRow, RestoreRow, RenameCommit, At, CommandStates,
                             RenameSteps
    <2>2. UNCHANGED ops
      BY <1>4 DEF CreateRow, MoveRow, TrashRow, RestoreRow, RenameCommit
    <2>3. \A m \in Notes \ {job.note} : rows'[m] = rows[m]
      BY <1>4, StepTypes DEF CreateRow, MoveRow, TrashRow, RestoreRow, RenameCommit
    <2>4. rows[job.note] # None => rows[job.note] \in Rows
      BY <2>1, StepTypes
    <2>5. CASE CreateRow
      <3>1. /\ rows'[job.note] = [life |-> "active", path |-> job.to, origin |-> job.to,
                                  hash |-> Blank, missing |-> 0]
            /\ Unclaimed(job.note, job.to)
        BY <1>4, <2>1, <2>5, StepTypes DEF CreateRow
      <3>2. job.to \in Paths /\ job.note < nextNote
        BY <2>5 DEF CreateRow, At, JobFits, CreateFits
      <3>3. rows'[job.note] # None /\ rows'[job.note].path = job.to /\ rows'[job.note].life = "active"
        <4>1. rows'[job.note] \in Rows
          BY <3>1, <3>2, NoneMissing, StoreAssumption DEF Rows, Places
        <4> QED BY <3>1, <4>1, NoneApart
      <3> QED BY <1>1, <2>1, <2>2, <2>3, <3>1, <3>2, <3>3, RowPut
    <2>6. CASE MoveRow \/ RenameCommit
      <3>1. /\ rows' = [rows EXCEPT ![job.note].path = job.to]
            /\ Unclaimed(job.note, job.to)
        BY <1>4, <2>6 DEF MoveRow, RenameCommit
      <3>2. job.to \in Paths /\ Active(job.note)
        BY <2>6 DEF MoveRow, RenameCommit, At, JobFits, MoveFits, RenameFits, RenameSteps
      <3>3. rows'[job.note] = [rows[job.note] EXCEPT !.path = job.to]
        BY <2>1, <3>1, StepTypes
      <3>4. rows'[job.note] # None /\ rows'[job.note].path = job.to /\ rows'[job.note].life = "active"
        <4>1. rows'[job.note] \in Rows /\ rows'[job.note].path = job.to /\ rows'[job.note].life = "active"
          BY <2>4, <3>2, <3>3 DEF Rows, Places, Active
        <4> QED BY <4>1, NoneApart
      <3>5. job.note < nextNote
        BY <2>1, <3>2 DEF RowsApart, Active
      <3> QED BY <1>1, <2>1, <2>2, <2>3, <3>1, <3>2, <3>4, <3>5, RowPut
    <2>7. CASE TrashRow
      <3>1. rows' = [rows EXCEPT ![job.note] = [@ EXCEPT !.life = "trashed", !.path = job.to,
                                                         !.origin = job.from]]
        BY <1>4, <2>7 DEF TrashRow
      <3>2. /\ Active(job.note) /\ rows[job.note].path = job.from /\ job.from \in Paths
            /\ job.to = TrashPlace(job.note, job.from)
        BY <2>7 DEF TrashRow, At, JobFits, TrashFits, RowsApart, Active
      <3>3. rows'[job.note] = [rows[job.note] EXCEPT !.life = "trashed", !.path = job.to, !.origin = job.from]
        BY <2>1, <3>1, StepTypes
      <3>4. rows'[job.note] # None /\ rows'[job.note].path = job.to /\ rows'[job.note].life = "trashed"
        <4>1. job.to \in Places
          BY <2>1, <3>2, HiddenPlaces
        <4>2. rows'[job.note] \in Rows /\ rows'[job.note].path = job.to /\ rows'[job.note].life = "trashed"
          BY <2>4, <3>2, <3>3, <4>1 DEF Rows, Active
        <4> QED BY <4>2, NoneApart
      <3>5. job.note < nextNote
        BY <2>1, <3>2 DEF RowsApart, Active
      <3>6. Unclaimed(job.note, job.to)
        BY <2>1, <3>2, TrashUnclaimed
      <3> QED BY <1>1, <2>1, <2>2, <2>3, <3>2, <3>4, <3>5, <3>6, RowPut
    <2>8. CASE RestoreRow
      <3>1. /\ rows' = [rows EXCEPT ![job.note] = [@ EXCEPT !.life = "active", !.path = job.to,
                                                            !.origin = job.to]]
            /\ Unclaimed(job.note, job.to)
        BY <1>4, <2>8 DEF RestoreRow
      <3>2. Trashed(job.note) /\ job.to \in Paths
        BY <2>8 DEF RestoreRow, At, JobFits, TrashFits
      <3>3. rows'[job.note] = [rows[job.note] EXCEPT !.life = "active", !.path = job.to, !.origin = job.to]
        BY <2>1, <3>1, StepTypes
      <3>4. rows'[job.note] # None /\ rows'[job.note].path = job.to /\ rows'[job.note].life = "active"
        <4>1. rows'[job.note] \in Rows /\ rows'[job.note].path = job.to /\ rows'[job.note].life = "active"
          BY <2>4, <3>2, <3>3 DEF Rows, Places, Trashed
        <4> QED BY <4>1, NoneApart
      <3>5. job.note < nextNote
        BY <2>1, <3>2 DEF RowsApart, Trashed
      <3> QED BY <1>1, <2>1, <2>2, <2>3, <3>1, <3>2, <3>4, <3>5, RowPut
    <2> QED BY <1>4, <2>5, <2>6, <2>7, <2>8
  <1>5. CASE ~DeleteRow
    BY <1>2, <1>4, <1>5 DEF CreateRow, MoveRow, TrashRow, RestoreRow, RenameCommit
  <1>6. CASE DeleteRow
    BY <1>2, <1>3, <1>6
  <1> QED BY <1>5, <1>6

\* A note that moves takes a path of the workspace that no row claims.
LEMMA RelocateApart ==
    ASSUME IInv, Relocate
    PROVE  RowsApart'
  <1> USE DEF IInv
  <1>1. PICK x \in scan.moves :
          \/ /\ Unclaimed(x[1], x[2])
             /\ rows' = [rows EXCEPT ![x[1]] = [@ EXCEPT !.path = x[2], !.origin = x[2], !.missing = 0]]
          \/ UNCHANGED rows
    BY DEF Relocate
  <1>2. UNCHANGED <<ops, nextNote>> /\ nextNote \in Nat
    BY StoreAssumption DEF Relocate, TypeOK
  <1>3. CASE UNCHANGED rows
    BY <1>2, <1>3, RowsKept
  <1>4. CASE /\ Unclaimed(x[1], x[2])
             /\ rows' = [rows EXCEPT ![x[1]] = [@ EXCEPT !.path = x[2], !.origin = x[2], !.missing = 0]]
    <2>1. x[1] \in Notes /\ x[2] \in Paths /\ Active(x[1])
      BY DEF TypeOK, Scans, ScanSound, Relocate, At
    <2>2. \A m \in Notes \ {x[1]} : rows'[m] = rows[m]
      BY <1>4, StepTypes
    <2>3. rows[x[1]] \in Rows /\ rows[x[1]].life = "active"
      BY <2>1, StepTypes DEF Active
    <2>4. rows'[x[1]] = [rows[x[1]] EXCEPT !.path = x[2], !.origin = x[2], !.missing = 0]
      BY <1>4, <2>1, StepTypes
    <2>5. rows'[x[1]] \in Rows /\ rows'[x[1]].path = x[2] /\ rows'[x[1]].life = "active"
      BY <2>1, <2>3, <2>4, NoneMissing DEF Rows, Places
    <2>6. x[1] < nextNote /\ rows'[x[1]] # None
      BY <2>1, <2>5, NoneApart DEF RowsApart, Active
    <2> QED BY <1>2, <1>4, <2>1, <2>2, <2>5, <2>6, RowPut
  <1> QED BY <1>1, <1>3, <1>4

\* What the scan makes of the rows: it adds notes at files nobody claimed, with identities
\* nobody had, and changes no path.
LEMMA RowsAfterScan ==
    ASSUME IInv, At("relocate"), NEW n \in Notes, RowAfter(n) # None
    PROVE  \/ /\ n \in NewIds /\ rows[n] = None /\ n < nextNote + Cardinality(scan.added)
              /\ RowAfter(n).life = "active"
              /\ RowAfter(n).path \in scan.added /\ NewId(RowAfter(n).path) = n
           \/ /\ n \notin NewIds /\ rows[n] # None
              /\ RowAfter(n).life = rows[n].life /\ RowAfter(n).path = rows[n].path
  <1> USE DEF IInv
  <1>1. CASE n \in NewIds
    <2> DEFINE path == CHOOSE p \in scan.added : NewId(p) = n
    <2>1. path \in scan.added /\ NewId(path) = n
      BY <1>1 DEF NewIds
    <2>2. RowAfter(n) = [life |-> "active", path |-> path, origin |-> path,
                         hash |-> scan.seen[path].body, missing |-> 0]
      BY <1>1 DEF RowAfter
    <2> HIDE DEF path
    <2>3. RowAfter(n).life = "active" /\ RowAfter(n).path = path
      BY <2>2
    <2>4. n >= nextNote /\ n < nextNote + Cardinality(scan.added)
      BY <2>1, NewIdRange
    <2>5. rows[n] = None
      BY <2>4, StoreAssumption DEF RowsApart, TypeOK, Notes
    <2> QED BY <1>1, <2>1, <2>3, <2>4, <2>5
  <1>2. CASE n \notin NewIds /\ n \in scan.missing
    <2>1. rows[n] # None /\ rows[n] \in Rows
      BY <1>2, StepTypes DEF ScanSound, At, Active
    <2>2. RowAfter(n) = Missed(rows[n])
      BY <1>2 DEF RowAfter
    <2>3. RowAfter(n) \in {rows[n], [rows[n] EXCEPT !.missing = @ + 1]}
      BY <2>2 DEF Missed
    <2>4. RowAfter(n).life = rows[n].life /\ RowAfter(n).path = rows[n].path
      BY <2>1, <2>3 DEF Rows
    <2> QED BY <1>2, <2>1, <2>4
  <1>3. CASE n \notin NewIds /\ n \notin scan.missing /\ n \in Affected /\ rows[n].path \in Discovered
    <2>1. rows[n] # None /\ rows[n] \in Rows
      BY <1>3, StepTypes DEF Affected, Active
    <2>2. RowAfter(n) = Refreshed(rows[n])
      BY <1>3 DEF RowAfter
    <2>3. RowAfter(n).life = rows[n].life /\ RowAfter(n).path = rows[n].path
      BY <2>1, <2>2 DEF Refreshed, Rows
    <2> QED BY <1>3, <2>1, <2>3
  <1>4. CASE n \notin NewIds /\ n \notin scan.missing /\ ~(n \in Affected /\ rows[n].path \in Discovered)
    BY <1>4 DEF RowAfter
  <1> QED BY <1>1, <1>2, <1>3, <1>4

LEMMA ApplyScanApart ==
    ASSUME IInv, ApplyScan
    PROVE  RowsApart'
  <1> USE DEF IInv
  <1>1. CASE UNCHANGED <<rows, ops, nextNote, cut>>
    BY <1>1, RowsKept, StoreAssumption DEF TypeOK
  <1>2. CASE /\ rows' = [n \in Notes |-> RowAfter(n)]
             /\ ops' = [n \in Notes |-> IF rows'[n] = None THEN None ELSE ops[n]]
             /\ nextNote' = nextNote + Cardinality(scan.added)
             /\ cut' = cut \cup NewIds
    <2>1. \A n \in Notes : rows'[n] # None =>
            \/ /\ n \in NewIds /\ rows[n] = None /\ n < nextNote'
               /\ rows'[n].life = "active"
               /\ rows'[n].path \in scan.added /\ NewId(rows'[n].path) = n
            \/ /\ n \notin NewIds /\ rows[n] # None
               /\ rows'[n].life = rows[n].life /\ rows'[n].path = rows[n].path
      BY <1>2, RowsAfterScan DEF ApplyScan
    <2>2. /\ \A p \in scan.added : p \in Paths /\ \A n \in Notes : rows[n] # None => rows[n].path # p
          /\ nextNote' >= nextNote /\ nextNote' \in Nat /\ nextNote \in Nat
      BY <1>2, NewIdRange, StoreAssumption DEF TypeOK, Scans, ScanSound, ApplyScan, At
    <2>3. \A n \in Notes : rows'[n] # None =>
            /\ n < nextNote'
            /\ rows'[n].life = "active" => rows'[n].path \in Paths
            /\ rows'[n].life = "trashed" => \E p \in Paths : rows'[n].path = TrashPlace(n, p)
      BY <2>1, <2>2, StoreAssumption DEF RowsApart, Notes
    <2>4. \A m, n \in Notes :
            m # n /\ rows'[m] # None /\ rows'[n] # None => rows'[m].path # rows'[n].path
      BY <2>1, <2>2 DEF RowsApart
    <2>5. \A n \in Notes : ops'[n] # None => rows'[n] # None
      BY <1>2
    <2> QED BY <2>3, <2>4, <2>5 DEF RowsApart
  <1> QED BY <1>1, <1>2 DEF ApplyScan

LEMMA RowsApartStep ==
    ASSUME IInv, [Next]_vars
    PROVE  RowsApart'
  <1> USE DEF IInv
  <1>0. nextNote \in Nat
    BY StoreAssumption DEF TypeOK
  <1>1. CASE CommandSteps /\ UNCHANGED indexVars
    <2>1. CASE CreateRow \/ MoveRow \/ TrashRow \/ RestoreRow \/ RenameCommit \/ DeleteRow
      BY <2>1, RowStepApart
    <2>2. CASE RenameMark \/ RenameFinish \/ RenameRolledBack
      <3>1. UNCHANGED <<rows, nextNote>>
        BY <2>2 DEF RenameMark, RenameFinish, RenameRolledBack
      <3>2. \A n \in Notes : ops'[n] # None => ops[n] # None
        BY <2>2, StepTypes DEF RenameMark, RenameFinish, RenameRolledBack, At, JobFits, RenameFits, RenameSteps
      <3> QED BY <1>0, <3>1, <3>2, RowsKept
    <2>3. CASE RestoreFile \/ PutBack \/ StageFile \/ RemoveFile
               \/ RenameHop \/ RenameHopped \/ RenameUnhop \/ RenameMove \/ RenameUndo
               \/ RenameUndoHop \/ RenameUndoHopped \/ RenameUndoUnhop
      <3>1. UNCHANGED <<rows, ops, nextNote>>
        BY <2>3 DEF RestoreFile, PutBack, StageFile, RemoveFile, RenameHop, RenameHopped, RenameUnhop,
                    RenameMove, RenameUndo, RenameUndoHop, RenameUndoHopped, RenameUndoUnhop
      <3> QED BY <1>0, <3>1, RowsKept
    <2> QED BY <1>1, <2>1, <2>2, <2>3 DEF CommandSteps
  <1>2. CASE Recovery
    <2>1. UNCHANGED <<rows, nextNote>>
      BY <1>2 DEF Recovery, Start, Recovered, RecoverHopped, RecoverUnhop, MovesBack, RecoverMoveBack,
                  RecoverHop, RecoverRecord, Refuse
    <2>2. \A n \in Notes : ops'[n] # None => ops[n] # None
      BY <1>2, StepTypes DEF Recovery, Start, Recovered, RecoverHopped, RecoverUnhop, MovesBack,
                             RecoverMoveBack, RecoverHop, RecoverRecord, Refuse
    <2> QED BY <1>0, <2>1, <2>2, RowsKept
  <1>3. CASE IndexWorkspace \/ IndexBatch \/ IndexConfirm \/ ReadFile \/ Reconcile \/ Registered
    <2>1. UNCHANGED <<rows, ops, nextNote>>
      BY <1>3 DEF IndexWorkspace, IndexBatch, IndexConfirm, ReadFile, Reconcile, Registered
    <2> QED BY <1>0, <2>1, RowsKept
  <1>4. CASE Relocate \/ ApplyScan
    BY <1>4, RelocateApart, ApplyScanApart
  <1>5. CASE Commands
    <2>1. UNCHANGED rows /\ nextNote' \in {nextNote, nextNote + 1}
      BY <1>5 DEF Commands, CreateFile, EmptyTrash, Reindex, Trash, Delete, Rename, Move, Restore
    <2>2. \A n \in Notes : ops'[n] # None => ops[n] # None \/ rows[n] # None
      BY <1>5, StepTypes DEF Commands, CreateFile, EmptyTrash, Reindex, Trash, Delete, Rename, Move, Restore,
                             Active
    <2> QED BY <1>0, <2>1, <2>2, RowsKept
  <1>6. CASE OutsideCreate \/ OutsideEdit \/ OutsideRename \/ OutsideDelete
    <2>1. UNCHANGED <<rows, ops>> /\ nextNote' \in {nextNote, nextNote + 1}
      BY <1>6 DEF OutsideCreate, OutsideEdit, OutsideRename, OutsideDelete, Interferes
    <2> QED BY <1>0, <2>1, RowsKept
  <1>7. CASE Dies \/ UNCHANGED vars
    <2>1. UNCHANGED <<rows, ops, nextNote>>
      BY <1>7 DEF Dies, Crash, vars, storeVars
    <2> QED BY <1>0, <2>1, RowsKept
  <1> QED BY <1>1, <1>2, <1>3, <1>4, <1>5, <1>6, <1>7 DEF Next, Worker

(***************************************************************************)
(* JobFits.                                                                *)
(***************************************************************************)

\* Where a step leads, field by field.
LEMMA Goes ==
    ASSUME TypeOK
    PROVE  /\ \A step : Goto(step) => /\ job'.at = step /\ job'.note = job.note /\ job'.from = job.from
                                     /\ job'.to = job.to /\ job'.todo = job.todo
           /\ Rest \/ Fail => job'.at = "idle" /\ job'.note = None
           /\ Succeed => job'.at = "index" /\ job'.note = None
  <1>1. \A step : Goto(step) => /\ job'.at = step /\ job'.note = job.note /\ job'.from = job.from
                               /\ job'.to = job.to /\ job'.todo = job.todo
    BY DEF Goto, TypeOK, Jobs
  <1>2. Rest \/ Fail => job'.at = "idle" /\ job'.note = None
    BY DEF Rest, Fail, Resting
  <1>3. Succeed => job'.at = "index" /\ job'.note = None
    BY DEF Succeed, Resting
  <1> QED BY <1>1, <1>2, <1>3

LEMMA RequestGoes ==
    ASSUME NEW step, NEW n, NEW from, NEW to, Request(step, n, from, to)
    PROVE  /\ job'.at = step /\ job'.note = n /\ job'.from = from /\ job'.to = to /\ job'.todo = {}
           /\ job.at = "idle"
  BY DEF Request, Resting, At

\* Nothing is carried along between two commands.
LEMMA RestKept ==
    ASSUME job'.note = None, job'.at \notin CommandStates \cup RecoverSteps
    PROVE  JobFits'
  <1>1. job'.at \notin RenameSteps \cup Deletion \cup {"create", "moved", "trashed", "restore", "restored", "putback"}
    BY DEF CommandStates
  <1> QED BY <1>1 DEF JobFits, RenameFits, CreateFits, MoveFits, TrashFits, DeletionFits, PutBackFits, RestFits

LEMMA JobKept ==
    ASSUME IInv, UNCHANGED <<job, rows, ops>>, nextNote' \in Nat, nextNote' >= nextNote
    PROVE  JobFits'
  <1>1. CreateFits'
    BY StoreAssumption DEF IInv, TypeOK, JobFits, CreateFits, Unclaimed, Notes
  <1> QED BY <1>1 DEF IInv, JobFits, RenameFits, MoveFits, TrashFits, DeletionFits, PutBackFits, RestFits,
                      Active, Trashed, AtSource

\* A rename goes from one of its steps to the next.
LEMMA RenameGoes ==
    ASSUME IInv, job.at \in RenameSteps, job.at # "finish",
           NEW step \in RenameSteps, Goto(step),
           \A n \in Notes : /\ ops[n] # None => /\ ops'[n] # None /\ ops'[n].source = ops[n].source
                                                /\ ops'[n].target = ops[n].target
                            /\ rows[n] # None => rows'[n] # None /\ rows'[n].life = rows[n].life,
           rows'[job.note].path = IF step = "finish" THEN job.to ELSE rows[job.note].path
    PROVE  JobFits'
  <1>1. /\ job'.at = step /\ job'.note = job.note /\ job'.from = job.from
        /\ job'.to = job.to
    BY Goes DEF IInv
  <1>2. RenameFits'
    BY <1>1 DEF IInv, JobFits, RenameFits, Active
  <1>3. /\ job'.at \notin {"create", "moved", "trashed", "restore", "restored", "putback", "recovering"}
        /\ job'.at \notin Deletion /\ job'.at \in CommandStates /\ job'.at \notin RecoverSteps
    BY <1>1 DEF RenameSteps, Deletion, CommandStates, RecoverSteps
  <1> QED BY <1>2, <1>3 DEF JobFits, CreateFits, MoveFits, TrashFits, DeletionFits, PutBackFits, RestFits

LEMMA RenameStepFits ==
    ASSUME IInv,
           \/ RenameHop \/ RenameHopped \/ RenameUnhop \/ RenameMove \/ RenameMark \/ RenameCommit
           \/ RenameFinish \/ RenameUndo \/ RenameUndoHop \/ RenameUndoHopped \/ RenameUndoUnhop
           \/ RenameRolledBack
    PROVE  JobFits'
  <1> USE DEF IInv
  <1>1. CASE Fail \/ Succeed
    BY <1>1, Goes, RestKept DEF CommandStates, RecoverSteps, RenameSteps, Deletion
  <1>0. WayBack \in RenameSteps \ {"finish"}
    BY DEF WayBack, RenameSteps
  <1>2. CASE RenameHop \/ RenameHopped \/ RenameUnhop \/ RenameMove \/ RenameUndo \/ RenameUndoHop
             \/ RenameUndoHopped \/ RenameUndoUnhop
    <2>1. UNCHANGED <<rows, ops>> /\ job.at \in RenameSteps \ {"finish"}
      BY <1>2 DEF RenameHop, RenameHopped, RenameUnhop, RenameMove, RenameUndo, RenameUndoHop, RenameUndoHopped,
                  RenameUndoUnhop, At, RenameSteps
    <2>2. Fail \/ \E step \in {"hopped", "rolledback", "mark", "unhop", "undohopped", "undounhop"} : Goto(step)
      BY <1>2 DEF RenameHop, RenameHopped, RenameUnhop, RenameMove, RenameUndo, RenameUndoHop, RenameUndoHopped,
                  RenameUndoUnhop
    <2> QED BY <1>1, <2>1, <2>2, RenameGoes DEF RenameSteps
  <1>3. CASE RenameMark
    <2>1. UNCHANGED rows /\ job.at \in RenameSteps \ {"finish"} /\ (Goto("commit") \/ Goto(WayBack))
      BY <1>3 DEF RenameMark, At, RenameSteps
    <2>2. \A n \in Notes : ops[n] # None => /\ ops'[n] # None /\ ops'[n].source = ops[n].source
                                           /\ ops'[n].target = ops[n].target
      <3>1. CASE UNCHANGED ops
        BY <3>1
      <3>2. CASE ops' = [ops EXCEPT ![job.note].state = "moved"]
        <4> SUFFICES ASSUME NEW n \in Notes, ops[n] # None
                     PROVE  ops'[n] # None /\ ops'[n].source = ops[n].source /\ ops'[n].target = ops[n].target
          OBVIOUS
        <4>1. ops[n] \in Operations /\ ops'[n] \in {ops[n], [ops[n] EXCEPT !.state = "moved"]}
          BY <3>2, StepTypes
        <4>2. ops'[n] \in Operations /\ ops'[n].source = ops[n].source /\ ops'[n].target = ops[n].target
          BY <4>1 DEF Operations
        <4> QED BY <4>2, NoneApart
      <3> QED BY <1>3, <3>1, <3>2 DEF RenameMark
    <2> QED BY <1>0, <2>1, <2>2, RenameGoes DEF RenameSteps
  <1>4. CASE RenameCommit
    <2>1. UNCHANGED ops /\ job.at \in RenameSteps \ {"finish"}
      BY <1>4 DEF RenameCommit, At, RenameSteps
    <2>2. CASE UNCHANGED rows /\ Goto(WayBack)
      BY <1>0, <2>1, <2>2, RenameGoes
    <2>3. CASE rows' = [rows EXCEPT ![job.note].path = job.to] /\ Goto("finish")
      <3>1. job.note \in Notes /\ rows[job.note] # None /\ job.to \in Paths
        BY <2>1 DEF JobFits, RenameFits, Active
      <3>2. rows[job.note] \in Rows /\ rows'[job.note] = [rows[job.note] EXCEPT !.path = job.to]
        BY <2>3, <3>1, StepTypes
      <3>3. /\ rows'[job.note] # None /\ rows'[job.note].life = rows[job.note].life
            /\ rows'[job.note].path = job.to
        <4>1. rows'[job.note] \in Rows /\ rows'[job.note].life = rows[job.note].life
              /\ rows'[job.note].path = job.to
          BY <3>1, <3>2 DEF Rows, Places
        <4> QED BY <4>1, NoneApart
      <3>4. \A n \in Notes : rows[n] # None => rows'[n] # None /\ rows'[n].life = rows[n].life
        BY <2>3, <3>1, <3>3, StepTypes
      <3> QED BY <2>1, <2>3, <3>3, <3>4, RenameGoes DEF RenameSteps
    <2> QED BY <1>4, <2>2, <2>3 DEF RenameCommit
  <1>5. CASE RenameFinish \/ RenameRolledBack
    BY <1>1, <1>5 DEF RenameFinish, RenameRolledBack
  <1> QED BY <1>2, <1>3, <1>4, <1>5

\* The way back starts where the command failed.
LEMMA PutBackGoes ==
    ASSUME IInv, UNCHANGED rows, Goto("putback"), job.at \in {"trashed", "restored", "staged"}
    PROVE  JobFits'
  <1> USE DEF IInv
  <1>1. job'.at = "putback" /\ job'.note = job.note /\ job'.from = job.from /\ job'.to = job.to
    BY Goes
  <1>2. PutBackFits'
    <2>1. CASE job.at = "trashed"
      BY <1>1, <2>1 DEF JobFits, TrashFits, PutBackFits, Active
    <2>2. CASE job.at = "restored"
      BY <1>1, <2>2 DEF JobFits, TrashFits, PutBackFits, Trashed
    <2>3. CASE job.at = "staged"
      BY <1>1, <2>3 DEF JobFits, DeletionFits, Deletion, PutBackFits, Trashed
    <2> QED BY <2>1, <2>2, <2>3
  <1>3. /\ job'.at \notin RenameSteps /\ job'.at \notin Deletion /\ job'.at \in CommandStates
        /\ job'.at \notin RecoverSteps
    BY <1>1 DEF RenameSteps, Deletion, CommandStates, RecoverSteps
  <1> QED BY <1>1, <1>2, <1>3 DEF JobFits, RenameFits, CreateFits, MoveFits, TrashFits, DeletionFits, RestFits

LEMMA CommandStepFits ==
    ASSUME IInv,
           \/ CreateRow \/ MoveRow \/ TrashRow \/ RestoreFile \/ RestoreRow \/ PutBack
           \/ StageFile \/ DeleteRow \/ RemoveFile
    PROVE  JobFits'
  <1> USE DEF IInv
  <1>1. CASE Fail \/ Succeed
    BY <1>1, Goes, RestKept DEF CommandStates, RecoverSteps, RenameSteps, Deletion
  <1>2. CASE CreateRow \/ MoveRow \/ PutBack
    BY <1>1, <1>2 DEF CreateRow, MoveRow, PutBack
  <1>3. CASE TrashRow \/ RestoreRow
    <2>1. CASE Succeed
      BY <1>1, <2>1
    <2>2. CASE UNCHANGED rows /\ Goto("putback")
      BY <1>3, <2>2, PutBackGoes DEF TrashRow, RestoreRow, At
    <2> QED BY <1>3, <2>1, <2>2 DEF TrashRow, RestoreRow
  <1>4. CASE RestoreFile
    <2>1. CASE Goto("restored")
      <3>1. /\ job'.at = "restored" /\ job'.note = job.note /\ job'.from = job.from /\ job'.to = job.to
            /\ job.at = "restore" /\ UNCHANGED rows
        BY <1>4, <2>1, Goes DEF RestoreFile, At
      <3>2. TrashFits'
        BY <3>1 DEF JobFits, TrashFits, Trashed, Active
      <3>3. job'.at \notin RenameSteps /\ job'.at \notin Deletion /\ job'.at \in CommandStates
        BY <3>1 DEF RenameSteps, Deletion, CommandStates
      <3> QED BY <3>1, <3>2, <3>3 DEF JobFits, RenameFits, CreateFits, MoveFits, DeletionFits, PutBackFits,
                                      RestFits, RecoverSteps
    <2> QED BY <1>1, <1>4, <2>1 DEF RestoreFile
  <1>5. CASE StageFile
    <2>1. CASE Goto("staged")
      <3>1. /\ job'.at = "staged" /\ job'.note = job.note /\ job'.from = job.from /\ job'.to = job.to
            /\ job'.todo = job.todo /\ job.at = "stage" /\ UNCHANGED rows
        BY <1>5, <2>1, Goes DEF StageFile, At
      <3>2. DeletionFits'
        BY <3>1 DEF JobFits, DeletionFits, Deletion, Trashed
      <3>3. job'.at \notin RenameSteps /\ job'.at \in CommandStates
        BY <3>1 DEF RenameSteps, Deletion, CommandStates
      <3> QED BY <3>1, <3>2, <3>3 DEF JobFits, RenameFits, CreateFits, MoveFits, TrashFits, PutBackFits,
                                      RestFits, RecoverSteps
    <2> QED BY <1>1, <1>5, <2>1 DEF StageFile
  <1>6. CASE DeleteRow
    <2>1. CASE UNCHANGED <<rows, ops>> /\ Goto("putback")
      BY <1>6, <2>1, PutBackGoes DEF DeleteRow, At
    <2>2. CASE rows' = [rows EXCEPT ![job.note] = None] /\ Goto("remove")
      <3>1. /\ job'.at = "remove" /\ job'.note = job.note /\ job'.to = job.to
            /\ job'.todo = job.todo /\ job.at = "staged"
        BY <1>6, <2>2, Goes DEF DeleteRow, At
      <3>2. job.note \in Notes /\ rows'[job.note] = None /\ \A n \in Notes \ {job.note} : rows'[n] = rows[n]
        BY <2>2, <3>1, StepTypes DEF JobFits, DeletionFits, Deletion
      <3>3. \A n \in job.todo : n \in Notes \ {job.note} /\ Trashed(n)
        BY <3>1 DEF TypeOK, Jobs, JobFits, DeletionFits, Deletion
      <3>4. DeletionFits'
        BY <3>1, <3>2, <3>3 DEF JobFits, DeletionFits, Deletion, Trashed
      <3>5. job'.at \notin RenameSteps /\ job'.at \in CommandStates
        BY <3>1 DEF RenameSteps, Deletion, CommandStates
      <3> QED BY <3>1, <3>4, <3>5 DEF JobFits, RenameFits, CreateFits, MoveFits, TrashFits, PutBackFits,
                                      RestFits, RecoverSteps
    <2> QED BY <1>6, <2>1, <2>2 DEF DeleteRow
  <1>7. CASE RemoveFile
    <2>1. CASE \E n \in job.todo :
                  job' = [Resting EXCEPT !.at = "stage", !.note = n, !.from = rows[n].path,
                                         !.to = StagingPlace(n, rows[n].origin), !.todo = job.todo \ {n}]
      <3>1. PICK n \in job.todo :
                  job' = [Resting EXCEPT !.at = "stage", !.note = n, !.from = rows[n].path,
                                         !.to = StagingPlace(n, rows[n].origin), !.todo = job.todo \ {n}]
        BY <2>1
      <3>2. /\ job'.at = "stage" /\ job'.note = n /\ job'.from = rows[n].path
            /\ job'.to = StagingPlace(n, rows[n].origin) /\ job'.todo = job.todo \ {n} /\ UNCHANGED rows
        BY <1>7, <3>1 DEF Resting, RemoveFile
      <3>3. n \in Notes /\ \A m \in job.todo : Trashed(m)
        BY <1>7 DEF RemoveFile, At, TypeOK, Jobs, JobFits, DeletionFits, Deletion
      <3>4. rows[n].origin \in Paths
        BY <3>3, StepTypes DEF Trashed
      <3>5. DeletionFits'
        BY <3>2, <3>3, <3>4 DEF DeletionFits, Trashed
      <3>6. job'.at \notin RenameSteps /\ job'.at \in CommandStates
        BY <3>2 DEF RenameSteps, Deletion, CommandStates
      <3> QED BY <3>2, <3>5, <3>6 DEF JobFits, RenameFits, CreateFits, MoveFits, TrashFits, PutBackFits,
                                      RestFits, RecoverSteps
    <2> QED BY <1>1, <1>7, <2>1 DEF RemoveFile
  <1> QED BY <1>2, <1>3, <1>4, <1>5, <1>6, <1>7

\* Every command starts with what the catalog says.
LEMMA CommandFits ==
    ASSUME IInv, Commands
    PROVE  JobFits'
  <1> USE DEF IInv
  <1>1. CASE CreateFile
    <2>1. PICK path \in Paths \ ActivePaths :
            /\ nextNote \in Notes /\ Request("create", nextNote, None, path)
            /\ nextNote' = nextNote + 1 /\ UNCHANGED <<rows, ops>>
      BY <1>1 DEF CreateFile
    <2>2. job'.at = "create" /\ job'.note = nextNote /\ job'.to = path
      BY <2>1, RequestGoes
    <2>3. nextNote < nextNote' /\ rows[nextNote] = None /\ ops[nextNote] = None
      BY <2>1, StoreAssumption DEF RowsApart, TypeOK
    <2>4. Unclaimed(nextNote, path)
      <3>1. ASSUME NEW m \in Notes, rows[m] # None
            PROVE  rows[m].path # path
        <4>1. CASE rows[m].life = "active"
          BY <3>1, <4>1 DEF ActivePaths, Active
        <4>2. CASE rows[m].life = "trashed"
          BY <3>1, <4>2, HiddenPlaces DEF RowsApart
        <4> QED BY <3>1, <4>1, <4>2, StepTypes DEF Rows
      <3> QED BY <3>1 DEF Unclaimed
    <2>5. CreateFits'
      BY <2>1, <2>2, <2>3, <2>4 DEF CreateFits, Unclaimed
    <2>6. job'.at \notin RenameSteps /\ job'.at \notin Deletion /\ job'.at \in CommandStates
      BY <2>2 DEF RenameSteps, Deletion, CommandStates
    <2> QED BY <2>2, <2>5, <2>6 DEF JobFits, RenameFits, MoveFits, TrashFits, DeletionFits, PutBackFits,
                                    RestFits, RecoverSteps
  <1>2. CASE Reindex
    BY <1>2, Goes, RestKept DEF Reindex, At, JobFits, RestFits, CommandStates, RecoverSteps, RenameSteps,
                                Deletion
  <1>3. ASSUME NEW n \in Notes, Trashed(n), rows[n].origin \in Paths, UNCHANGED rows, job'.at = "stage", job'.note = n,
               job'.from = rows[n].path, job'.to = StagingPlace(n, rows[n].origin),
               job'.todo \subseteq {m \in Notes : Trashed(m)} \ {n}
        PROVE  JobFits'
    <2>1. DeletionFits'
      BY <1>3 DEF DeletionFits, Trashed
    <2>2. job'.at \notin RenameSteps /\ job'.at \in CommandStates
      BY <1>3 DEF RenameSteps, Deletion, CommandStates
    <2> QED BY <1>3, <2>1, <2>2 DEF JobFits, RenameFits, CreateFits, MoveFits, TrashFits, PutBackFits, RestFits,
                                    RecoverSteps
  <1>4. CASE EmptyTrash
    <2>1. PICK n \in Notes :
            /\ Trashed(n)
            /\ job' = [Resting EXCEPT !.at = "stage", !.note = n, !.from = rows[n].path,
                                      !.to = StagingPlace(n, rows[n].origin),
                                      !.todo = {m \in Notes : Trashed(m)} \ {n}]
            /\ UNCHANGED rows
      BY <1>4 DEF EmptyTrash
    <2>2. rows[n].origin \in Paths
      BY <2>1, StepTypes DEF Trashed
    <2> QED BY <1>3, <2>1, <2>2 DEF Resting
  <1>5. ASSUME NEW n \in Notes, Delete(n)
        PROVE  JobFits'
    <2>1. /\ Trashed(n) /\ Request("stage", n, rows[n].path, StagingPlace(n, rows[n].origin)) /\ UNCHANGED rows
      BY <1>5 DEF Delete
    <2>2. rows[n].origin \in Paths
      BY <2>1, StepTypes DEF Trashed
    <2> QED BY <1>3, <2>1, <2>2, RequestGoes
  <1>6. ASSUME NEW n \in Notes, Trash(n)
        PROVE  JobFits'
    <2>1. /\ job'.at = "trashed" /\ job'.note = n /\ job'.from = rows[n].path
          /\ job'.to = TrashPlace(n, rows[n].path) /\ Active(n) /\ UNCHANGED rows
      BY <1>6, RequestGoes DEF Trash
    <2>2. TrashFits'
      BY <2>1 DEF TrashFits, Active, Trashed
    <2>3. job'.at \notin RenameSteps /\ job'.at \notin Deletion /\ job'.at \in CommandStates
      BY <2>1 DEF RenameSteps, Deletion, CommandStates
    <2> QED BY <2>1, <2>2, <2>3 DEF JobFits, RenameFits, CreateFits, MoveFits, DeletionFits, PutBackFits,
                                    RestFits, RecoverSteps
  <1>7. ASSUME NEW n \in Notes, NEW target \in Paths, Rename(n, target)
        PROVE  JobFits'
    <2>1. /\ Active(n) /\ rows[n].path # target /\ UNCHANGED rows
          /\ ops' = [ops EXCEPT ![n] = [source |-> rows[n].path, target |-> target, state |-> "prepared"]]
      BY <1>7 DEF Rename, Siblings
    <2>2. /\ job'.at \in {"hop", "move"} /\ job'.note = n /\ job'.from = rows[n].path /\ job'.to = target
      <3>1. \E step \in {"hop", "move"} : Request(step, n, rows[n].path, target)
        BY <1>7 DEF Rename
      <3> QED BY <3>1, RequestGoes
    <2>3. ops'[n] # None /\ ops'[n].source = rows[n].path /\ ops'[n].target = target
      <3>1. rows[n].path \in Paths
        BY <2>1 DEF Active, RowsApart
      <3>2. ops'[n] = [source |-> rows[n].path, target |-> target, state |-> "prepared"]
        BY <2>1, StepTypes
      <3>3. ops'[n] \in Operations
        BY <3>1, <3>2 DEF Operations
      <3> QED BY <3>2, <3>3, NoneApart
    <2>4. RenameFits'
      BY <2>1, <2>2, <2>3 DEF RenameFits, Active, RowsApart
    <2>5. /\ job'.at \notin Deletion /\ job'.at \in CommandStates
      BY <2>2 DEF RenameSteps, Deletion, CommandStates
    <2> QED BY <2>2, <2>4, <2>5 DEF JobFits, CreateFits, MoveFits, TrashFits, DeletionFits, PutBackFits,
                                    RestFits, RecoverSteps
  <1>8. ASSUME NEW n \in Notes, NEW target \in Paths, Move(n, target)
        PROVE  JobFits'
    <2>1. /\ Active(n) /\ rows[n].path # target /\ UNCHANGED rows
          /\ job'.at = "moved" /\ job'.note = n /\ job'.from = rows[n].path /\ job'.to = target
      BY <1>8, RequestGoes DEF Move, Cousins
    <2>2. MoveFits'
      BY <2>1 DEF MoveFits, Active, RowsApart
    <2>3. job'.at \notin RenameSteps /\ job'.at \notin Deletion /\ job'.at \in CommandStates
      BY <2>1 DEF RenameSteps, Deletion, CommandStates
    <2> QED BY <2>1, <2>2, <2>3 DEF JobFits, RenameFits, CreateFits, TrashFits, DeletionFits, PutBackFits,
                                    RestFits, RecoverSteps
  <1>9. ASSUME NEW n \in Notes, NEW target \in Paths, Restore(n, target)
        PROVE  JobFits'
    <2>1. /\ Trashed(n) /\ UNCHANGED rows
          /\ job'.at = "restore" /\ job'.note = n /\ job'.from = rows[n].path /\ job'.to = target
      BY <1>9, RequestGoes DEF Restore
    <2>2. TrashFits'
      BY <2>1 DEF TrashFits, Active, Trashed
    <2>3. job'.at \notin RenameSteps /\ job'.at \notin Deletion /\ job'.at \in CommandStates
      BY <2>1 DEF RenameSteps, Deletion, CommandStates
    <2> QED BY <2>1, <2>2, <2>3 DEF JobFits, RenameFits, CreateFits, MoveFits, DeletionFits, PutBackFits,
                                    RestFits, RecoverSteps
  <1> QED BY <1>1, <1>2, <1>4, <1>5, <1>6, <1>7, <1>8, <1>9 DEF Commands

\* The recovery moves the file of one note, by way of a third name or not.
LEMMA RecoverGoes ==
    ASSUME NEW n \in Notes, ops[n] # None, AtSource(n), UNCHANGED <<rows, ops>>,
           job'.at \in {"recovering", "rehopped", "reunhop"}, job'.note = n
    PROVE  JobFits'
  <1>1. /\ job'.at \notin CommandStates \cup RenameSteps \cup Deletion
        /\ job'.at \notin {"create", "moved", "trashed", "restore", "restored", "putback"}
    BY DEF CommandStates, RenameSteps, Deletion
  <1>2. RestFits'
    BY <1>1 DEF RestFits, RecoverSteps, AtSource, Active
  <1> QED BY <1>1, <1>2 DEF JobFits, RenameFits, CreateFits, MoveFits, TrashFits, DeletionFits, PutBackFits

LEMMA JobFitsStep ==
    ASSUME IInv, [Next]_vars
    PROVE  JobFits'
  <1> USE DEF IInv
  <1>0. nextNote \in Nat
    BY StoreAssumption DEF TypeOK
  <1>1. CASE CommandSteps
    BY <1>1, RenameStepFits, CommandStepFits DEF CommandSteps
  <1>2. CASE Commands
    BY <1>2, CommandFits
  <1>3. CASE Recovery
    <2>1. CASE Start \/ \E n \in Notes : Refuse(n)
      <3>1. job'.note = None /\ job'.at \in {"recovering", "refused"}
        BY <2>1 DEF Start, Refuse, Resting
      <3> QED BY <3>1, RestKept DEF CommandStates, RecoverSteps, RenameSteps, Deletion
    <2>2. CASE Recovered
      <3>1. job'.at = "index" /\ job'.note = job.note /\ job.note = None
        BY <2>2, Goes DEF Recovered, At, JobFits, RestFits, TypeOK, Jobs
      <3> QED BY <3>1, RestKept DEF CommandStates, RecoverSteps, RenameSteps, Deletion
    <2>3. ASSUME NEW n \in Notes, RecoverMoveBack(n) \/ RecoverHop(n)
          PROVE  JobFits'
      <3>1. /\ job'.at \in {"recovering", "rehopped"} /\ job'.note = n /\ ops[n] # None /\ UNCHANGED <<rows, ops>>
            /\ AtSource(n)
        BY <2>3, StepTypes DEF RecoverMoveBack, RecoverHop, MovesBack, MovedOnly, Recovering, At, Jobs
      <3> QED BY <3>1, RecoverGoes
    <2>5. CASE RecoverHopped
      <3>1. /\ job.at = "rehopped" /\ job'.at \in {"recovering", "reunhop"} /\ job'.note = job.note
            /\ UNCHANGED <<rows, ops>>
        BY <2>5, Goes DEF RecoverHopped, At
      <3> QED BY <3>1, RecoverGoes DEF JobFits, RestFits, RecoverSteps
    <2>6. CASE RecoverUnhop
      <3>1. job'.at = "refused" /\ job'.note = None
        BY <2>6 DEF RecoverUnhop, Resting
      <3> QED BY <3>1, RestKept DEF CommandStates, RecoverSteps, RenameSteps, Deletion
    <2>4. ASSUME NEW n \in Notes, RecoverRecord(n)
          PROVE  JobFits'
      <3>1. job'.at = "recovering" /\ job'.note = None
        BY <2>4, StepTypes DEF RecoverRecord, Recovering, At, Jobs
      <3> QED BY <3>1, RestKept DEF CommandStates, RecoverSteps, RenameSteps, Deletion
    <2> QED BY <1>3, <2>1, <2>2, <2>3, <2>4, <2>5, <2>6 DEF Recovery
  <1>4. CASE IndexWorkspace \/ IndexBatch \/ IndexConfirm
    <2>1. job' = [Resting EXCEPT !.at = "read"]
      BY <1>4 DEF IndexWorkspace, IndexBatch, IndexConfirm, Begin
    <2>2. job'.at = "read" /\ job'.note = None
      BY <2>1 DEF Resting
    <2> QED BY <2>2, RestKept DEF CommandStates, RecoverSteps, RenameSteps, Deletion
  <1>5. CASE Reconcile \/ Relocate \/ ApplyScan
    <2>1. job.note = None
      BY <1>5 DEF Reconcile, Relocate, ApplyScan, At, JobFits, RestFits, CommandStates, RecoverSteps,
                  RenameSteps, Deletion
    <2>2. Rest \/ Goto("relocate") \/ (UNCHANGED job /\ job.at = "relocate")
      BY <1>5 DEF Reconcile, Relocate, ApplyScan, At
    <2>3. job'.at \in {"idle", "relocate"} /\ job'.note = None
      BY <2>1, <2>2, Goes
    <2> QED BY <2>3, RestKept DEF CommandStates, RecoverSteps, RenameSteps, Deletion
  <1>6. CASE ReadFile \/ Registered \/ UNCHANGED vars
    <2>1. UNCHANGED <<job, rows, ops, nextNote>>
      BY <1>6 DEF ReadFile, Registered, vars, storeVars
    <2> QED BY <1>0, <2>1, JobKept
  <1>7. CASE OutsideCreate \/ OutsideEdit \/ OutsideRename \/ OutsideDelete
    <2>1. UNCHANGED <<job, rows, ops>> /\ nextNote' \in {nextNote, nextNote + 1}
      BY <1>7 DEF OutsideCreate, OutsideEdit, OutsideRename, OutsideDelete, Interferes
    <2> QED BY <1>0, <2>1, JobKept
  <1>8. CASE Dies
    <2>1. job'.at = "down" /\ job'.note = None
      BY <1>8 DEF Dies, Crash, Resting
    <2> QED BY <2>1, RestKept DEF CommandStates, RecoverSteps, RenameSteps, Deletion
  <1> QED BY <1>1, <1>2, <1>3, <1>4, <1>5, <1>6, <1>7, <1>8 DEF Next, Worker

(***************************************************************************)
(* OpsSettled.                                                             *)
(***************************************************************************)

\* A note that a fault or another program has parted from its file stays marked.
LEMMA PartedGrows ==
    ASSUME [Next]_vars
    PROVE  cut \subseteq cut' /\ strayed \subseteq strayed'
  <1>1. CASE CommandSteps /\ UNCHANGED indexVars
    BY <1>1 DEF CommandSteps, CreateRow, MoveRow, TrashRow, RestoreFile, RestoreRow, PutBack, StageFile,
                DeleteRow, RemoveFile, RenameHop, RenameHopped, RenameUnhop, RenameMove, RenameMark,
                RenameCommit, RenameFinish, RenameUndo, RenameUndoHop, RenameUndoHopped, RenameUndoUnhop,
                RenameRolledBack, indexVars
  <1>2. CASE Recovery /\ UNCHANGED indexVars
    BY <1>2 DEF Recovery, Start, Recovered, RecoverHopped, RecoverUnhop, MovesBack, RecoverMoveBack, RecoverHop,
                RecoverRecord, Refuse, indexVars
  <1>3. CASE IndexWorkspace \/ IndexBatch \/ IndexConfirm \/ ReadFile \/ Reconcile \/ Relocate \/ ApplyScan
    BY <1>3 DEF IndexWorkspace, IndexBatch, IndexConfirm, ReadFile, Reconcile, Relocate, ApplyScan
  <1>4. CASE Commands /\ UNCHANGED indexVars
    BY <1>4 DEF Commands, CreateFile, EmptyTrash, Reindex, Trash, Delete, Rename, Move, Restore, indexVars
  <1>5. CASE OutsideCreate \/ OutsideEdit \/ OutsideRename \/ OutsideDelete
    BY <1>5 DEF OutsideCreate, OutsideEdit, OutsideRename, OutsideDelete
  <1>6. CASE Registered \/ Dies \/ UNCHANGED vars
    BY <1>6 DEF Registered, Dies, Crash, vars, storeVars, indexVars
  <1> QED BY <1>1, <1>2, <1>3, <1>4, <1>5, <1>6 DEF Next, Worker

\* No operation is begun, and every open one that is left has an excuse.
LEMMA OpsKept ==
    ASSUME OpsSettled, cut \subseteq cut',
           \A n \in Notes : ops'[n] # None => ops[n] # None,
           \A n \in Notes \ cut' : ops'[n] # None =>
              \/ job'.note = n /\ job'.at \in RenameSteps
              \/ job'.at \in {"down", "recovering", "refused"} \cup RecoverSteps
    PROVE  OpsSettled'
  BY DEF OpsSettled

\* In the states between there is none.
LEMMA NoOps ==
    ASSUME OpsSettled, job.at \notin RenameSteps \cup {"down", "recovering", "refused"} \cup RecoverSteps, cut \subseteq cut',
           \A n \in Notes : ops'[n] # None => ops[n] # None
    PROVE  OpsSettled'
  BY DEF OpsSettled

LEMMA CommandsIdle ==
    ASSUME Commands
    PROVE  job.at = "idle"
  <1>1. At("idle") \/ \E step, n, from, to : Request(step, n, from, to)
    <2>1. CreateFile => \E step, n, from, to : Request(step, n, from, to)
      BY DEF CreateFile
    <2>2. EmptyTrash \/ Reindex => At("idle")
      BY DEF EmptyTrash, Reindex
    <2>3. \A n \in Notes : Trash(n) \/ Delete(n) => \E step, m, from, to : Request(step, m, from, to)
      BY DEF Trash, Delete
    <2>4. \A n \in Notes, target \in Paths : Rename(n, target) \/ Move(n, target) \/ Restore(n, target) =>
            \E step, m, from, to : Request(step, m, from, to)
      BY DEF Rename, Move, Restore
    <2> QED BY <2>1, <2>2, <2>3, <2>4 DEF Commands
  <1> QED BY <1>1, RequestGoes DEF At

LEMMA OpsSettledStep ==
    ASSUME IInv, [Next]_vars
    PROVE  OpsSettled'
  <1> USE DEF IInv
  <1>0. cut \subseteq cut'
    BY PartedGrows
  <1>1. CASE CreateRow \/ MoveRow \/ TrashRow \/ RestoreFile \/ RestoreRow \/ PutBack
             \/ StageFile \/ DeleteRow \/ RemoveFile
    <2>1. job.at \notin RenameSteps \cup {"down", "recovering", "refused"} \cup RecoverSteps
      BY <1>1 DEF CreateRow, MoveRow, TrashRow, RestoreFile, RestoreRow, PutBack, StageFile, DeleteRow,
                  RemoveFile, At, RenameSteps, RecoverSteps
    <2>2. \A n \in Notes : ops'[n] # None => ops[n] # None
      BY <1>1, StepTypes DEF CreateRow, MoveRow, TrashRow, RestoreFile, RestoreRow, PutBack, StageFile,
                             DeleteRow, RemoveFile
    <2> QED BY <1>0, <2>1, <2>2, NoOps
  <1>2. CASE RenameHop \/ RenameHopped \/ RenameUnhop \/ RenameMove \/ RenameMark \/ RenameCommit
             \/ RenameFinish \/ RenameUndo \/ RenameUndoHop \/ RenameUndoHopped \/ RenameUndoUnhop
             \/ RenameRolledBack
    <2>1. job.at \in RenameSteps
      BY <1>2 DEF RenameHop, RenameHopped, RenameUnhop, RenameMove, RenameMark, RenameCommit, RenameFinish,
                  RenameUndo, RenameUndoHop, RenameUndoHopped, RenameUndoUnhop, RenameRolledBack, At,
                  RenameSteps
    <2>2. job.note \in Notes /\ ops[job.note] # None
      BY <2>1 DEF JobFits, RenameFits
    <2>3. \A n \in Notes \ cut : ops[n] # None => n = job.note
      BY <2>1 DEF OpsSettled, RenameSteps, RecoverSteps
    <2>4. \A n \in Notes : ops'[n] # None => ops[n] # None
      BY <1>2, <2>2, StepTypes DEF RenameHop, RenameHopped, RenameUnhop, RenameMove, RenameMark, RenameCommit,
                                   RenameFinish, RenameUndo, RenameUndoHop, RenameUndoHopped, RenameUndoUnhop,
                                   RenameRolledBack
    <2>5. CASE \E step \in RenameSteps : Goto(step)
      <3>1. job'.note = job.note /\ job'.at \in RenameSteps
        BY <2>5, Goes
      <3> QED BY <1>0, <2>3, <2>4, <3>1, OpsKept
    <2>6. CASE job.note \in cut'
      BY <1>0, <2>3, <2>4, <2>6, OpsKept
    <2>7. CASE ops'[job.note] = None
      BY <1>0, <2>3, <2>4, <2>7, OpsKept
    <2>8. \/ \E step \in RenameSteps : Goto(step)
          \/ cut' = cut \cup InHand
          \/ ops' = [ops EXCEPT ![job.note] = None]
      BY <1>2 DEF RenameHop, RenameHopped, RenameUnhop, RenameMove, RenameMark, RenameCommit, RenameFinish,
                  RenameUndo, RenameUndoHop, RenameUndoHopped, RenameUndoUnhop, RenameRolledBack, WayBack,
                  RenameSteps
    <2>9. job.note \in InHand
      BY DEF InHand
    <2> QED BY <2>2, <2>5, <2>6, <2>7, <2>8, <2>9, StepTypes
  <1>3. CASE Recovery
    <2>1. CASE Start \/ \E n \in Notes : Refuse(n)
      <3>1. UNCHANGED ops /\ job'.at \in {"recovering", "refused"}
        BY <2>1 DEF Start, Refuse, Resting
      <3> QED BY <1>0, <3>1, OpsKept
    <2>2. CASE Recovered
      <3>1. \A n \in Notes : ops'[n] = None
        BY <2>2 DEF Recovered
      <3> QED BY <1>0, <3>1, OpsKept
    <2>3. CASE \E n \in Notes : RecoverMoveBack(n) \/ RecoverHop(n) \/ RecoverRecord(n)
      <3>1. job'.at \in {"recovering", "rehopped"}
        BY <2>3, StepTypes DEF RecoverMoveBack, RecoverHop, RecoverRecord, MovesBack, Recovering, At, Jobs
      <3>2. \A n \in Notes : ops'[n] # None => ops[n] # None
        BY <2>3, StepTypes DEF RecoverMoveBack, RecoverHop, MovesBack, RecoverRecord
      <3> QED BY <1>0, <3>1, <3>2, OpsKept DEF RecoverSteps
    <2>4. CASE RecoverHopped \/ RecoverUnhop
      <3>1. UNCHANGED ops /\ job'.at \in {"recovering", "reunhop", "refused"}
        BY <2>4, Goes DEF RecoverHopped, RecoverUnhop, Resting
      <3> QED BY <1>0, <3>1, OpsKept DEF RecoverSteps
    <2> QED BY <1>3, <2>1, <2>2, <2>3, <2>4 DEF Recovery
  <1>4. CASE Reconcile \/ Relocate \/ ApplyScan \/ IndexBatch \/ IndexConfirm \/ IndexWorkspace
    <2>1. job.at \notin RenameSteps \cup {"down", "recovering", "refused"} \cup RecoverSteps
      BY <1>4 DEF Reconcile, Relocate, ApplyScan, IndexBatch, IndexConfirm, IndexWorkspace, At, RenameSteps,
                  RecoverSteps
    <2>2. \A n \in Notes : ops'[n] # None => ops[n] # None
      BY <1>4 DEF Reconcile, Relocate, ApplyScan, IndexBatch, IndexConfirm, IndexWorkspace
    <2> QED BY <1>0, <2>1, <2>2, NoOps
  <1>5. CASE ReadFile \/ Registered \/ UNCHANGED vars
    <2>1. UNCHANGED <<job, ops>>
      BY <1>5 DEF ReadFile, Registered, vars, storeVars
    <2> QED BY <1>0, <2>1 DEF OpsSettled
  <1>6. CASE OutsideCreate \/ OutsideEdit \/ OutsideRename \/ OutsideDelete
    <2>1. UNCHANGED <<job, ops>>
      BY <1>6 DEF OutsideCreate, OutsideEdit, OutsideRename, OutsideDelete, Interferes
    <2> QED BY <1>0, <2>1 DEF OpsSettled
  <1>7. CASE Dies
    <2>1. UNCHANGED ops /\ job'.at = "down"
      BY <1>7 DEF Dies, Crash, Resting
    <2> QED BY <1>0, <2>1, OpsKept
  <1>8. CASE Commands
    <2>1. job.at \notin RenameSteps \cup {"down", "recovering", "refused"} \cup RecoverSteps
      BY <1>8, CommandsIdle DEF RenameSteps, RecoverSteps
    <2>2. CASE UNCHANGED ops
      BY <1>0, <2>1, <2>2, NoOps
    <2>3. ASSUME NEW n \in Notes, NEW target \in Paths, Rename(n, target)
          PROVE  OpsSettled'
      <3>1. job'.note = n /\ job'.at \in RenameSteps
        <4>1. \E step \in {"hop", "move"} : Request(step, n, rows[n].path, target)
          BY <2>3 DEF Rename
        <4> QED BY <4>1, RequestGoes DEF RenameSteps
      <3>2. \A m \in Notes \ cut : ops[m] = None
        BY <2>1 DEF OpsSettled
      <3>3. \A m \in Notes \ {n} : ops'[m] = ops[m]
        BY <2>3, StepTypes DEF Rename
      <3> QED BY <1>0, <3>1, <3>2, <3>3 DEF OpsSettled
    <2>4. UNCHANGED ops \/ \E n \in Notes, target \in Paths : Rename(n, target)
      BY <1>8 DEF Commands, CreateFile, EmptyTrash, Reindex, Trash, Delete, Move, Restore
    <2> QED BY <2>2, <2>3, <2>4
  <1> QED BY <1>1, <1>2, <1>3, <1>4, <1>5, <1>6, <1>7, <1>8 DEF Next, Worker, CommandSteps

(***************************************************************************)
(* ScanSound.                                                              *)
(***************************************************************************)

\* No scan is under way, or the one that ended has been forgotten.
LEMMA NoScanSound ==
    ASSUME IInv, UNCHANGED scan \/ scan' = NoScan, job'.at \notin {"read", "relocate"}
    PROVE  ScanSound'
  BY DEF IInv, ScanSound, NoScan

LEMMA BeginSound ==
    ASSUME NEW scope, NEW hints, Begin(scope, hints)
    PROVE  ScanSound'
  <1>1. job'.at = "read"
    BY DEF Begin, Resting
  <1>2. /\ \A p \in Paths : scan'.seen[p] = None
        /\ scan'.scope = scope /\ scan'.unread = scope
    BY DEF Begin, NoScan
  <1> QED BY <1>1, <1>2 DEF ScanSound

\* A file that was read and found missing had been moved or deleted, or could not be read.
LEMMA ReadFileSound ==
    ASSUME IInv, ReadFile
    PROVE  ScanSound'
  <1> USE DEF IInv
  <1>1. PICK p \in scan.unread :
          /\ \/ scan' = [scan EXCEPT !.unread = @ \ {p}, !.seen[p] = disk[p]] /\ UNCHANGED cut
             \/ /\ scan' = [scan EXCEPT !.unread = @ \ {p}, !.bad = TRUE]
                /\ cut' = cut \cup {n \in Notes : Active(n) /\ rows[n].path = p}
          /\ job.at = "read"
    BY DEF ReadFile, At
  <1>2. UNCHANGED <<rows, ops, job, strayed>>
    BY DEF ReadFile
  <1>3. scan \in Scans /\ p \in Paths
    BY DEF TypeOK, Scans
  <1>4. /\ scan'.scope = scan.scope /\ scan'.unread = scan.unread \ {p}
        /\ \A q \in Paths \ {p} : scan'.seen[q] = scan.seen[q]
    BY <1>1, <1>3, ZenonT(60) DEF Scans
  <1>5. scan'.unread \subseteq scan'.scope
    BY <1>4 DEF ScanSound
  <1>6. CASE scan' = [scan EXCEPT !.unread = @ \ {p}, !.seen[p] = disk[p]] /\ UNCHANGED cut
    <2>1. scan'.seen[p] = disk[p]
      BY <1>3, <1>6 DEF Scans
    <2>2. \A q \in Paths : scan'.seen[q] # None => q \in scan'.scope \ scan'.unread
      <3>1. p \in scan.scope
        BY <1>1 DEF ScanSound
      <3> QED BY <1>4, <3>1 DEF ScanSound
    <2>3. ASSUME NEW n \in Notes \ Parted', Active(n)', rows'[n].path \in scan'.scope \ scan'.unread
          PROVE  scan'.seen[rows'[n].path] # None
      <3>1. n \notin Parted /\ Active(n) /\ rows'[n].path = rows[n].path /\ rows[n].path \in Paths
        BY <1>2, <1>6, <2>3 DEF Parted, Active, RowsApart
      <3>2. CASE rows[n].path # p
        BY <1>1, <1>4, <2>3, <3>1, <3>2 DEF ScanSound
      <3>3. CASE rows[n].path = p
        <4>1. HasFile(p, n)
          <5>1. job.note = None
            BY <1>1 DEF JobFits, RestFits, CommandStates, RecoverSteps, RenameSteps, Deletion
          <5>2. ops[n] = None
            BY <1>1, <3>1 DEF OpsSettled, RenameSteps, RecoverSteps, Parted
          <5> QED BY <3>1, <3>3, <5>1, <5>2, NoneApart DEF FilePlaced, Placed, Active
        <4> QED BY <2>1, <3>1, <3>3, <4>1 DEF HasFile
      <3> QED BY <3>2, <3>3
    <2> QED BY <1>1, <1>2, <1>5, <2>2, <2>3 DEF ScanSound
  <1>7. CASE /\ scan' = [scan EXCEPT !.unread = @ \ {p}, !.bad = TRUE]
             /\ cut' = cut \cup {n \in Notes : Active(n) /\ rows[n].path = p}
    <2>1. scan'.seen = scan.seen
      BY <1>3, <1>7 DEF Scans
    <2>2. \A q \in Paths : scan'.seen[q] # None => q \in scan'.scope \ scan'.unread
      BY <1>1, <1>4, <2>1 DEF ScanSound
    <2>3. ASSUME NEW n \in Notes \ Parted', Active(n)', rows'[n].path \in scan'.scope \ scan'.unread
          PROVE  scan'.seen[rows'[n].path] # None
      <3>1. n \notin Parted /\ Active(n) /\ rows'[n].path = rows[n].path /\ rows[n].path # p
        BY <1>2, <1>7, <2>3 DEF Parted, Active
      <3> QED BY <1>1, <1>4, <2>1, <2>3, <3>1 DEF ScanSound
    <2> QED BY <1>1, <1>2, <1>5, <2>2, <2>3 DEF ScanSound
  <1> QED BY <1>1, <1>6, <1>7

\* What is taken for a moved file belongs to a note that was parted from it, and what is
\* taken for a new one to no note.
LEMMA ReconcileSound ==
    ASSUME IInv, Reconcile
    PROVE  ScanSound'
  <1> USE DEF IInv
  <1>1. CASE scan' = NoScan /\ Rest
    BY <1>1, Goes, NoScanSound
  <1>2. CASE \E hinted \in HintedMoves : \E hashed \in HashedMoves(hinted) :
                LET moves == hinted \cup hashed
                IN  /\ scan' = [scan EXCEPT !.moves = moves,
                                         !.added = Unmatched \ {x[2] : x \in moves},
                                         !.missing = (Affected \ Matched) \ {x[1] : x \in moves}]
                    /\ Goto("relocate")
    <2>1. PICK hinted \in HintedMoves : \E hashed \in HashedMoves(hinted) :
                LET moves == hinted \cup hashed
                IN  /\ scan' = [scan EXCEPT !.moves = moves,
                                         !.added = Unmatched \ {x[2] : x \in moves},
                                         !.missing = (Affected \ Matched) \ {x[1] : x \in moves}]
                    /\ Goto("relocate")
      BY <1>2
    <2>2. PICK hashed \in HashedMoves(hinted) :
                /\ scan' = [scan EXCEPT !.moves = hinted \cup hashed,
                                 !.added = Unmatched \ {x[2] : x \in hinted \cup hashed},
                                 !.missing = (Affected \ Matched) \ {x[1] : x \in hinted \cup hashed}]
                /\ Goto("relocate")
      BY <2>1
    <2>3. PICK moves : /\ moves = hinted \cup hashed /\ moves \subseteq (Affected \ Matched) \X Unmatched
      BY ReconcileMoves
    <2>4. /\ scan'.scope = scan.scope /\ scan'.unread = scan.unread /\ scan'.seen = scan.seen
          /\ scan'.moves = moves /\ scan'.added = Unmatched \ {x[2] : x \in moves}
          /\ scan'.missing = (Affected \ Matched) \ {x[1] : x \in moves}
      BY <2>2, <2>3 DEF TypeOK, Scans
    <2>5. /\ job.at = "read" /\ scan.unread = {} /\ UNCHANGED <<rows, cut, strayed>> /\ job'.at = "relocate"
      BY <2>2, Goes DEF Reconcile, At
    <2>6. \A n \in Affected \ Matched : Active(n) /\ n \in Parted
      <3> TAKE n \in Affected \ Matched
      <3>1. n \in Notes /\ Active(n) /\ rows[n].path \in scan.scope /\ rows[n].path \in Paths
        BY DEF Affected, RowsApart, Active
      <3>2. scan.seen[rows[n].path] = None
        BY <3>1 DEF Matched, Discovered
      <3> QED BY <2>5, <3>1, <3>2 DEF ScanSound
    <2>7. \A p \in Unmatched : scan.seen[p] # None /\ \A n \in Notes : rows[n] # None => rows[n].path # p
      <3> SUFFICES ASSUME NEW p \in Unmatched
                   PROVE  scan.seen[p] # None /\ \A n \in Notes : rows[n] # None => rows[n].path # p
        OBVIOUS
      <3>1. p \in Paths /\ scan.seen[p] # None /\ p \in scan.scope
        BY DEF Unmatched, Discovered, ScanSound
      <3>2. ASSUME NEW n \in Notes, rows[n] # None, rows[n].path = p
            PROVE  FALSE
        <4>1. rows[n].life \in {"active", "trashed"}
          BY <3>2, StepTypes DEF Rows
        <4>2. rows[n].life # "trashed"
          BY <3>1, <3>2, HiddenPlaces DEF RowsApart
        <4>3. n \in Matched
          BY <3>1, <3>2, <4>1, <4>2 DEF Matched, Affected, Discovered, Active
        <4> QED BY <3>2, <4>3 DEF Unmatched
      <3> QED BY <3>1, <3>2
    <2>8. /\ scan'.unread \subseteq scan'.scope
          /\ \A q \in Paths : scan'.seen[q] # None => q \in scan'.scope \ scan'.unread
      BY <2>4 DEF ScanSound
    <2>9. \A x \in scan'.moves : x[1] \in Parted' /\ Active(x[1])' /\ x[2] \notin scan'.added
      BY <2>3, <2>4, <2>5, <2>6 DEF Parted, Active
    <2>10. \A p \in scan'.added : /\ scan'.seen[p] # None
                                  /\ \A n \in Notes : rows'[n] # None => rows'[n].path # p
      BY <2>4, <2>5, <2>7
    <2>11. \A n \in scan'.missing : Active(n)'
      BY <2>4, <2>5, <2>6 DEF Active
    <2> QED BY <2>5, <2>8, <2>9, <2>10, <2>11 DEF ScanSound
  <1> QED BY <1>1, <1>2 DEF Reconcile

LEMMA RelocateSound ==
    ASSUME IInv, Relocate
    PROVE  ScanSound'
  <1> USE DEF IInv
  <1>1. PICK x \in scan.moves :
          \/ /\ rows' = [rows EXCEPT ![x[1]] = [@ EXCEPT !.path = x[2], !.origin = x[2], !.missing = 0]]
             /\ scan' = [scan EXCEPT !.moves = @ \ {x}]
             /\ UNCHANGED job
          \/ scan' = NoScan /\ Rest
    BY DEF Relocate
  <1>2. CASE scan' = NoScan /\ Rest
    BY <1>2, Goes, NoScanSound
  <1>3. CASE /\ rows' = [rows EXCEPT ![x[1]] = [@ EXCEPT !.path = x[2], !.origin = x[2], !.missing = 0]]
             /\ scan' = [scan EXCEPT !.moves = @ \ {x}]
             /\ UNCHANGED job
    <2>1. job.at = "relocate" /\ UNCHANGED <<cut, strayed>> /\ job'.at = "relocate"
      BY <1>3 DEF Relocate, At
    <2>2. x[1] \in Notes /\ x[2] \in Paths /\ Active(x[1]) /\ x[2] \notin scan.added
      BY <2>1 DEF TypeOK, Scans, ScanSound
    <2>3. /\ scan'.scope = scan.scope /\ scan'.unread = scan.unread /\ scan'.seen = scan.seen
          /\ scan'.moves = scan.moves \ {x} /\ scan'.added = scan.added /\ scan'.missing = scan.missing
      BY <1>3 DEF TypeOK, Scans
    <2>4. \A n \in Notes \ {x[1]} : rows'[n] = rows[n]
      BY <1>3, StepTypes
    <2>5. rows'[x[1]] # None /\ rows'[x[1]].life = "active" /\ rows'[x[1]].path = x[2]
      <3>1. rows[x[1]] \in Rows /\ rows[x[1]].life = "active"
        BY <2>2, StepTypes DEF Active
      <3>2. rows'[x[1]] = [rows[x[1]] EXCEPT !.path = x[2], !.origin = x[2], !.missing = 0]
        BY <1>3, <2>2, StepTypes
      <3>3. rows'[x[1]] \in Rows /\ rows'[x[1]].life = "active" /\ rows'[x[1]].path = x[2]
        BY <2>2, <3>1, <3>2, NoneMissing DEF Rows, Places
      <3> QED BY <3>3, NoneApart
    <2>6. \A n \in Notes : Active(n) => Active(n)'
      BY <2>4, <2>5 DEF Active
    <2>7. /\ scan'.unread \subseteq scan'.scope
          /\ \A q \in Paths : scan'.seen[q] # None => q \in scan'.scope \ scan'.unread
      BY <2>3 DEF ScanSound
    <2>8. \A z \in scan'.moves : z[1] \in Parted' /\ Active(z[1])' /\ z[2] \notin scan'.added
      <3> TAKE z \in scan'.moves
      <3>1. z \in scan.moves /\ z[1] \in Notes
        BY <2>3 DEF TypeOK, Scans
      <3>2. z[1] \in Parted /\ Active(z[1]) /\ z[2] \notin scan.added
        BY <2>1, <3>1 DEF ScanSound
      <3> QED BY <2>1, <2>3, <2>6, <3>1, <3>2 DEF Parted
    <2>9. \A p \in scan'.added : /\ scan'.seen[p] # None
                                 /\ \A n \in Notes : rows'[n] # None => rows'[n].path # p
      <3> TAKE p \in scan'.added
      <3>1. /\ p \in scan.added /\ scan.seen[p] # None
            /\ \A n \in Notes : rows[n] # None => rows[n].path # p
        BY <2>1, <2>3 DEF ScanSound
      <3> QED BY <2>2, <2>3, <2>4, <2>5, <3>1
    <2>10. \A n \in scan'.missing : Active(n)'
      <3> TAKE n \in scan'.missing
      <3>1. n \in Notes /\ Active(n)
        BY <2>1, <2>3 DEF ScanSound, TypeOK, Scans
      <3> QED BY <2>6, <3>1
    <2> QED BY <2>1, <2>7, <2>8, <2>9, <2>10 DEF ScanSound
  <1> QED BY <1>1, <1>2, <1>3

LEMMA ScanSoundStep ==
    ASSUME IInv, [Next]_vars
    PROVE  ScanSound'
  <1> USE DEF IInv
  <1>1. CASE CommandSteps /\ UNCHANGED indexVars
    <2>1. Rest \/ Succeed \/ job'.at \notin {"read", "relocate"}
      <3>1. CASE Rest \/ Fail \/ Succeed
        BY <3>1 DEF Fail
      <3>2. CASE \E step \in CommandStates : Goto(step)
        BY <3>2, Goes DEF CommandStates, RenameSteps, Deletion
      <3>3. CASE RemoveFile
        BY <3>1, <3>3 DEF RemoveFile, Resting
      <3>4. CASE CreateRow \/ MoveRow \/ TrashRow \/ RestoreFile \/ RestoreRow \/ PutBack \/ StageFile \/ DeleteRow
        BY <3>1, <3>2, <3>4 DEF CreateRow, MoveRow, TrashRow, RestoreFile, RestoreRow, PutBack, StageFile,
                                DeleteRow, CommandStates, Deletion
      <3>5. CASE \/ RenameHop \/ RenameHopped \/ RenameUnhop \/ RenameMove \/ RenameMark \/ RenameCommit
                 \/ RenameFinish \/ RenameUndo \/ RenameUndoHop \/ RenameUndoHopped
                 \/ RenameUndoUnhop \/ RenameRolledBack
        BY <3>1, <3>2, <3>5 DEF RenameHop, RenameHopped, RenameUnhop, RenameMove, RenameMark, RenameCommit,
                                RenameFinish, RenameUndo, RenameUndoHop, RenameUndoHopped, RenameUndoUnhop,
                                RenameRolledBack, WayBack, CommandStates, RenameSteps
      <3> QED BY <1>1, <3>3, <3>4, <3>5 DEF CommandSteps
    <2>2. job'.at \notin {"read", "relocate"}
      BY <2>1, Goes
    <2> QED BY <1>1, <2>2, NoScanSound DEF indexVars
  <1>2. CASE Recovery /\ UNCHANGED indexVars
    <2>1. job'.at \in {"recovering", "rehopped", "reunhop", "refused", "index"}
      <3>1. CASE Start \/ \E n \in Notes : Refuse(n)
        BY <3>1 DEF Start, Refuse, Resting
      <3>2. CASE Recovered
        BY <3>2, Goes DEF Recovered
      <3>3. CASE \E n \in Notes : RecoverMoveBack(n) \/ RecoverHop(n) \/ RecoverRecord(n)
        BY <3>3, StepTypes DEF RecoverMoveBack, RecoverHop, RecoverRecord, MovesBack, Recovering, At, Jobs
      <3>4. CASE RecoverHopped \/ RecoverUnhop
        BY <3>4, Goes DEF RecoverHopped, RecoverUnhop, Resting
      <3> QED BY <1>2, <3>1, <3>2, <3>3, <3>4 DEF Recovery
    <2> QED BY <1>2, <2>1, NoScanSound DEF indexVars
  <1>3. CASE IndexWorkspace \/ IndexBatch \/ IndexConfirm
    <2>1. \E scope, hints : Begin(scope, hints)
      BY <1>3 DEF IndexWorkspace, IndexBatch, IndexConfirm
    <2> QED BY <2>1, BeginSound
  <1>4. CASE ReadFile \/ Reconcile \/ Relocate
    BY <1>4, ReadFileSound, ReconcileSound, RelocateSound
  <1>5. CASE ApplyScan \/ Dies
    <2>1. scan' = NoScan /\ job'.at \in {"idle", "down"}
      BY <1>5, Goes DEF ApplyScan, Dies, Crash, Resting
    <2> QED BY <2>1, NoScanSound
  <1>6. CASE Commands /\ UNCHANGED indexVars
    <2>1. job'.at \notin {"read", "relocate"}
      <3>1. \/ \E step \in CommandStates : \E n, from, to : Request(step, n, from, to)
            \/ EmptyTrash \/ Reindex
        <4>1. CreateFile => \E n, from, to : Request("create", n, from, to)
          BY DEF CreateFile
        <4>2. \A n \in Notes : /\ Trash(n) => \E m, from, to : Request("trashed", m, from, to)
                               /\ Delete(n) => \E m, from, to : Request("stage", m, from, to)
          BY DEF Trash, Delete
        <4>3. \A n \in Notes, target \in Paths :
                /\ Rename(n, target) => \E step \in {"hop", "move"} : \E m, from, to : Request(step, m, from, to)
                /\ Move(n, target) => \E m, from, to : Request("moved", m, from, to)
                /\ Restore(n, target) => \E m, from, to : Request("restore", m, from, to)
          BY DEF Rename, Move, Restore
        <4> QED BY <1>6, <4>1, <4>2, <4>3 DEF Commands, CommandStates, RenameSteps, Deletion
      <3>2. CASE EmptyTrash
        BY <3>2 DEF EmptyTrash, Resting
      <3>3. CASE Reindex
        BY <3>3, Goes DEF Reindex
      <3> QED BY <3>1, <3>2, <3>3, RequestGoes DEF CommandStates, RenameSteps, Deletion
    <2> QED BY <1>6, <2>1, NoScanSound DEF indexVars
  <1>7. CASE Registered \/ OutsideCreate \/ OutsideEdit \/ OutsideRename \/ OutsideDelete \/ UNCHANGED vars
    <2>1. UNCHANGED <<scan, job, rows>>
      BY <1>7 DEF Registered, OutsideCreate, OutsideEdit, OutsideRename, OutsideDelete, Interferes, vars,
                  storeVars, indexVars
    <2>2. Parted \subseteq Parted'
      BY PartedGrows DEF Parted
    <2>3. \A n \in Notes : Active(n)' <=> Active(n)
      BY <2>1 DEF Active
    <2> QED BY <2>1, <2>2, <2>3 DEF ScanSound, TypeOK, Scans
  <1> QED BY <1>1, <1>2, <1>3, <1>4, <1>5, <1>6, <1>7 DEF Next, Worker

(***************************************************************************)
(* TargetIsFree.                                                           *)
(***************************************************************************)

\* While the worker serves, a note it is not busy with is where its row says.
LEMMA RowPlaced ==
    ASSUME IInv, NEW m \in Notes \ Parted, rows[m] # None, job.note # m,
           job.at \notin {"down", "recovering", "refused"} \cup RecoverSteps
    PROVE  ops[m] = None /\ HasFile(rows[m].path, m)
  <1>1. ops[m] = None
    BY DEF IInv, OpsSettled, Parted
  <1> QED BY <1>1 DEF IInv, FilePlaced, Placed

\* No row lies where files wait for their deletion, or hop.
LEMMA StagingUnclaimed ==
    ASSUME TypeOK, RowsApart, NEW m \in Notes, rows[m] # None, NEW n \in Notes
    PROVE  rows[m].path # HopPlace(n) /\ \A p \in Paths : rows[m].path # StagingPlace(n, p)
  <1>1. rows[m].life \in {"active", "trashed"}
    BY StepTypes DEF Rows
  <1>2. CASE rows[m].life = "active"
    BY <1>2, HiddenPlaces DEF RowsApart
  <1>3. CASE rows[m].life = "trashed"
    BY <1>3, PlacesApart DEF RowsApart
  <1> QED BY <1>1, <1>2, <1>3

\* The two halves of the invariant.
JobTargetIsFree ==
    job.at \in CommandStates =>
        \A m \in Notes \ Parted : m # job.note /\ rows[m] # None => rows[m].path # job.to

OpTargetsAreFree ==
    \A n \in Notes \ cut : ops[n] # None =>
        /\ ops[n].source # ops[n].target
        /\ \A m \in Notes : m # n /\ rows[m] # None => rows[m].path # ops[n].target

LEMMA TargetHalves == TargetIsFree <=> JobTargetIsFree /\ OpTargetsAreFree
  BY DEF TargetIsFree, JobTargetIsFree, OpTargetsAreFree

LEMMA TargetHalvesNext == JobTargetIsFree' /\ OpTargetsAreFree' => TargetIsFree'
  BY DEF TargetIsFree, JobTargetIsFree, OpTargetsAreFree

\* The step goes on with the same command, and leaves the other rows alone.
LEMMA JobTargetKept ==
    ASSUME IInv, [Next]_vars, job.at \in CommandStates, job'.note = job.note, job'.to = job.to,
           \A m \in Notes \ {job.note} : rows'[m] = rows[m]
    PROVE  JobTargetIsFree'
  <1>1. Parted \subseteq Parted'
    BY PartedGrows DEF Parted
  <1> QED BY <1>1, TargetHalves DEF IInv, JobTargetIsFree

\* No command is under way.
LEMMA NoJobTarget ==
    ASSUME job'.at \notin CommandStates
    PROVE  JobTargetIsFree'
  BY DEF JobTargetIsFree

LEMMA CommandStepTarget ==
    ASSUME IInv, CommandSteps, [Next]_vars
    PROVE  JobTargetIsFree'
  <1> USE DEF IInv
  <1>1. job.at \in CommandStates
    <2>1. CASE CreateRow \/ MoveRow \/ TrashRow \/ RestoreFile \/ RestoreRow \/ PutBack \/ StageFile
               \/ DeleteRow \/ RemoveFile
      BY <2>1 DEF CreateRow, MoveRow, TrashRow, RestoreFile, RestoreRow, PutBack, StageFile, DeleteRow,
                  RemoveFile, At, CommandStates, Deletion
    <2>2. CASE RenameHop \/ RenameHopped \/ RenameUnhop \/ RenameMove \/ RenameMark \/ RenameCommit
               \/ RenameFinish \/ RenameUndo \/ RenameUndoHop \/ RenameUndoHopped
               \/ RenameUndoUnhop \/ RenameRolledBack
      BY <2>2 DEF RenameHop, RenameHopped, RenameUnhop, RenameMove, RenameMark, RenameCommit, RenameFinish,
                  RenameUndo, RenameUndoHop, RenameUndoHopped, RenameUndoUnhop, RenameRolledBack, At,
                  CommandStates, RenameSteps
    <2> QED BY <2>1, <2>2 DEF CommandSteps
  <1>2. job.note \in Notes
    BY <1>1, InCommand
  <1>3. CASE Fail \/ Succeed
    BY <1>3, Goes, NoJobTarget DEF CommandStates, RenameSteps, Deletion
  <1>4. \A m \in Notes \ {job.note} : rows'[m] = rows[m]
    <2>1. CASE CreateRow \/ MoveRow \/ TrashRow \/ RestoreFile \/ RestoreRow \/ PutBack \/ StageFile
               \/ DeleteRow \/ RemoveFile
      BY <2>1, StepTypes DEF CreateRow, MoveRow, TrashRow, RestoreFile, RestoreRow, PutBack, StageFile,
                             DeleteRow, RemoveFile
    <2>2. CASE RenameHop \/ RenameHopped \/ RenameUnhop \/ RenameMove \/ RenameMark \/ RenameCommit
               \/ RenameFinish \/ RenameUndo \/ RenameUndoHop \/ RenameUndoHopped
               \/ RenameUndoUnhop \/ RenameRolledBack
      BY <2>2, StepTypes DEF RenameHop, RenameHopped, RenameUnhop, RenameMove, RenameMark, RenameCommit,
                             RenameFinish, RenameUndo, RenameUndoHop, RenameUndoHopped, RenameUndoUnhop,
                             RenameRolledBack
    <2> QED BY <2>1, <2>2 DEF CommandSteps
  <1>5. CASE \E step : Goto(step)
    BY <1>1, <1>4, <1>5, Goes, JobTargetKept
  <1>6. CASE RemoveFile
    <2>1. CASE \E n \in job.todo :
                  job' = [Resting EXCEPT !.at = "stage", !.note = n, !.from = rows[n].path,
                                         !.to = StagingPlace(n, rows[n].origin), !.todo = job.todo \ {n}]
      <3>1. PICK n \in job.todo :
                  job' = [Resting EXCEPT !.at = "stage", !.note = n, !.from = rows[n].path,
                                         !.to = StagingPlace(n, rows[n].origin), !.todo = job.todo \ {n}]
        BY <2>1
      <3>2. job'.to = StagingPlace(n, rows[n].origin) /\ UNCHANGED rows
        BY <1>6, <3>1 DEF Resting, RemoveFile
      <3>3. n \in Notes /\ rows[n].origin \in Paths
        BY <1>6, StepTypes DEF RemoveFile, At, TypeOK, Jobs, JobFits, DeletionFits, Deletion, Trashed
      <3> QED BY <3>2, <3>3, StagingUnclaimed DEF JobTargetIsFree
    <2> QED BY <1>3, <1>6, <2>1 DEF RemoveFile
  <1>7. Fail \/ Succeed \/ (\E step : Goto(step)) \/ RemoveFile
    <2>1. CASE CreateRow \/ MoveRow \/ TrashRow \/ RestoreFile \/ RestoreRow \/ PutBack \/ StageFile \/ DeleteRow
      BY <2>1 DEF CreateRow, MoveRow, TrashRow, RestoreFile, RestoreRow, PutBack, StageFile, DeleteRow
    <2>2. CASE RenameHop \/ RenameHopped \/ RenameUnhop \/ RenameMove \/ RenameMark \/ RenameCommit
               \/ RenameFinish \/ RenameUndo \/ RenameUndoHop \/ RenameUndoHopped
               \/ RenameUndoUnhop \/ RenameRolledBack
      BY <2>2 DEF RenameHop, RenameHopped, RenameUnhop, RenameMove, RenameMark, RenameCommit, RenameFinish,
                  RenameUndo, RenameUndoHop, RenameUndoHopped, RenameUndoUnhop, RenameRolledBack
    <2> QED BY <2>1, <2>2 DEF CommandSteps
  <1> QED BY <1>3, <1>5, <1>6, <1>7

\* A command starts only where it sees no file, in the trash, or under a new title: where
\* nobody else is.
LEMMA CommandTarget ==
    ASSUME IInv, Commands, [Next]_vars
    PROVE  JobTargetIsFree'
  <1> USE DEF IInv
  <1>1. job.at = "idle" /\ job.note = None
    BY CommandsIdle DEF JobFits, RestFits, CommandStates, RecoverSteps, RenameSteps, Deletion
  <1>2. UNCHANGED rows
    BY DEF Commands, CreateFile, EmptyTrash, Reindex, Trash, Delete, Rename, Move, Restore
  <1>3. Parted \subseteq Parted'
    BY PartedGrows DEF Parted
  <1>4. ASSUME NEW path \in Paths, disk[path] = None, job'.to = path
        PROVE  JobTargetIsFree'
    <2>1. ASSUME NEW m \in Notes \ Parted, rows[m] # None
          PROVE  rows[m].path # path
      <3>1. job.note # m
        BY <1>1, NoneApart
      <3>2. HasFile(rows[m].path, m)
        BY <1>1, <2>1, <3>1, RowPlaced DEF RecoverSteps
      <3> QED BY <1>4, <3>2 DEF HasFile
    <2> QED BY <1>2, <1>3, <1>4, <2>1 DEF JobTargetIsFree
  <1>5. CASE CreateFile
    BY <1>4, <1>5, RequestGoes DEF CreateFile
  <1>6. CASE EmptyTrash
    <2>1. PICK n \in Notes : Trashed(n) /\ job'.to = StagingPlace(n, rows[n].origin)
      BY <1>6 DEF EmptyTrash, Resting
    <2>2. rows[n].origin \in Paths
      BY <2>1, StepTypes DEF Trashed
    <2> QED BY <1>2, <2>1, <2>2, StagingUnclaimed DEF JobTargetIsFree
  <1>7. CASE Reindex
    BY <1>7, Goes, NoJobTarget DEF Reindex, CommandStates, RenameSteps, Deletion
  <1>8. ASSUME NEW n \in Notes, Trash(n)
        PROVE  JobTargetIsFree'
    <2>1. rows[n].path \in Paths /\ job'.note = n /\ job'.to = TrashPlace(n, rows[n].path)
      BY <1>8, RequestGoes DEF Trash, RowsApart, Active
    <2>2. Unclaimed(n, TrashPlace(n, rows[n].path))
      BY <2>1, TrashUnclaimed
    <2> QED BY <1>2, <2>1, <2>2 DEF JobTargetIsFree, Unclaimed
  <1>9. ASSUME NEW n \in Notes, Delete(n)
        PROVE  JobTargetIsFree'
    <2>1. Trashed(n) /\ job'.to = StagingPlace(n, rows[n].origin)
      BY <1>9, RequestGoes DEF Delete
    <2>2. rows[n].origin \in Paths
      BY <2>1, StepTypes DEF Trashed
    <2> QED BY <1>2, <2>1, <2>2, StagingUnclaimed DEF JobTargetIsFree
  <1>10. ASSUME NEW n \in Notes, NEW target \in Paths, Rename(n, target) \/ Move(n, target) \/ Restore(n, target)
         PROVE  JobTargetIsFree'
    <2>1. disk[target] = None
      BY <1>10 DEF Rename, Move, Restore, MoveFile, CanMove
    <2>2. \E step, from : Request(step, n, from, target)
      BY <1>10 DEF Rename, Move, Restore
    <2> QED BY <1>4, <2>1, <2>2, RequestGoes
  <1> QED BY <1>5, <1>6, <1>7, <1>8, <1>9, <1>10 DEF Commands

LEMMA JobTargetStep ==
    ASSUME IInv, [Next]_vars
    PROVE  JobTargetIsFree'
  <1> USE DEF IInv
  <1>1. CASE CommandSteps
    BY <1>1, CommandStepTarget
  <1>2. CASE Commands
    BY <1>2, CommandTarget
  <1>3. CASE Recovery
    <2>1. job'.at \in {"recovering", "rehopped", "reunhop", "refused", "index"}
      <3>1. CASE Start \/ \E n \in Notes : Refuse(n)
        BY <3>1 DEF Start, Refuse, Resting
      <3>2. CASE Recovered
        BY <3>2, Goes DEF Recovered
      <3>3. CASE \E n \in Notes : RecoverMoveBack(n) \/ RecoverHop(n) \/ RecoverRecord(n)
        BY <3>3, StepTypes DEF RecoverMoveBack, RecoverHop, RecoverRecord, MovesBack, Recovering, At, Jobs
      <3>4. CASE RecoverHopped \/ RecoverUnhop
        BY <3>4, Goes DEF RecoverHopped, RecoverUnhop, Resting
      <3> QED BY <1>3, <3>1, <3>2, <3>3, <3>4 DEF Recovery
    <2> QED BY <2>1, NoJobTarget DEF CommandStates, RenameSteps, Deletion
  <1>4. CASE IndexWorkspace \/ IndexBatch \/ IndexConfirm
    <2>1. job' = [Resting EXCEPT !.at = "read"]
      BY <1>4 DEF IndexWorkspace, IndexBatch, IndexConfirm, Begin
    <2>2. job'.at = "read"
      BY <2>1 DEF Resting
    <2> QED BY <2>2, NoJobTarget DEF CommandStates, RenameSteps, Deletion
  <1>5. CASE ReadFile \/ Reconcile \/ Relocate \/ ApplyScan \/ Dies
    <2>1. Rest \/ Goto("relocate") \/ (UNCHANGED job /\ job.at \in {"read", "relocate"}) \/ job'.at = "down"
      BY <1>5 DEF ReadFile, Reconcile, Relocate, ApplyScan, Dies, Crash, At, Resting
    <2>2. job'.at \in {"idle", "relocate", "read", "down"}
      BY <2>1, Goes
    <2> QED BY <2>2, NoJobTarget DEF CommandStates, RenameSteps, Deletion
  <1>6. CASE Registered \/ OutsideCreate \/ OutsideEdit \/ OutsideRename \/ OutsideDelete \/ UNCHANGED vars
    <2>1. UNCHANGED <<job, rows>>
      BY <1>6 DEF Registered, OutsideCreate, OutsideEdit, OutsideRename, OutsideDelete, Interferes, vars, storeVars
    <2>2. Parted \subseteq Parted'
      BY PartedGrows DEF Parted
    <2> QED BY <2>1, <2>2, TargetHalves DEF JobTargetIsFree
  <1> QED BY <1>1, <1>2, <1>3, <1>4, <1>5, <1>6 DEF Next, Worker

\* Operations that stay open keep their two paths, and the other rows theirs.
LEMMA OpTargetsKept ==
    ASSUME IInv, cut \subseteq cut',
           \A n \in Notes \ cut' : ops'[n] # None =>
              /\ ops[n] # None /\ ops'[n].source = ops[n].source /\ ops'[n].target = ops[n].target
              /\ \A m \in Notes \ {n} : rows'[m] = rows[m]
    PROVE  OpTargetsAreFree'
  BY TargetHalves DEF IInv, OpTargetsAreFree

LEMMA OpTargetStep ==
    ASSUME IInv, [Next]_vars
    PROVE  OpTargetsAreFree'
  <1> USE DEF IInv
  <1>0. cut \subseteq cut'
    BY PartedGrows
  <1>1. CASE UNCHANGED <<rows, ops>>
    BY <1>0, <1>1, OpTargetsKept
  <1>2. ASSUME job.at \notin RenameSteps \cup {"down", "recovering", "refused"} \cup RecoverSteps,
               \A n \in Notes : ops'[n] # None => ops[n] # None
        PROVE  OpTargetsAreFree'
    <2>1. \A n \in Notes \ cut' : ops'[n] = None
      BY <1>0, <1>2 DEF OpsSettled
    <2> QED BY <2>1 DEF OpTargetsAreFree
  <1>3. CASE CreateRow \/ MoveRow \/ TrashRow \/ RestoreFile \/ RestoreRow \/ PutBack
             \/ StageFile \/ DeleteRow \/ RemoveFile
    <2>1. job.at \notin RenameSteps \cup {"down", "recovering", "refused"} \cup RecoverSteps
      BY <1>3 DEF CreateRow, MoveRow, TrashRow, RestoreFile, RestoreRow, PutBack, StageFile, DeleteRow,
                  RemoveFile, At, RenameSteps, RecoverSteps
    <2>2. \A n \in Notes : ops'[n] # None => ops[n] # None
      BY <1>3, StepTypes DEF CreateRow, MoveRow, TrashRow, RestoreFile, RestoreRow, PutBack, StageFile,
                             DeleteRow, RemoveFile
    <2> QED BY <1>2, <2>1, <2>2
  <1>4. CASE RenameHop \/ RenameHopped \/ RenameUnhop \/ RenameMove \/ RenameUndo \/ RenameUndoHop
             \/ RenameUndoHopped \/ RenameUndoUnhop
    BY <1>1, <1>4 DEF RenameHop, RenameHopped, RenameUnhop, RenameMove, RenameUndo, RenameUndoHop,
                      RenameUndoHopped, RenameUndoUnhop
  <1>5. CASE RenameMark \/ RenameFinish \/ RenameRolledBack
    <2>1. UNCHANGED rows /\ job.note \in Notes /\ ops[job.note] # None
      BY <1>5 DEF RenameMark, RenameFinish, RenameRolledBack, At, JobFits, RenameFits, RenameSteps
    <2>2. /\ UNCHANGED ops \/ ops' = [ops EXCEPT ![job.note].state = "moved"] \/ ops' = [ops EXCEPT ![job.note] = None]
          /\ ops[job.note] \in Operations
      BY <1>5, <2>1, StepTypes DEF RenameMark, RenameFinish, RenameRolledBack
    <2>3. \A n \in Notes : ops'[n] # None =>
              ops[n] # None /\ ops'[n].source = ops[n].source /\ ops'[n].target = ops[n].target
      <3>1. CASE UNCHANGED ops
        BY <3>1
      <3>2. CASE ops' = [ops EXCEPT ![job.note].state = "moved"]
        <4>1. [ops[job.note] EXCEPT !.state = "moved"].source = ops[job.note].source
          BY <2>2 DEF Operations
        <4>2. [ops[job.note] EXCEPT !.state = "moved"].target = ops[job.note].target
          BY <2>2 DEF Operations
        <4>3. ops'[job.note] = [ops[job.note] EXCEPT !.state = "moved"]
          BY <3>2, <2>1, StepTypes
        <4>4. \A n \in Notes \ {job.note} : ops'[n] = ops[n]
          BY <3>2, StepTypes
        <4> QED BY <2>1, <4>1, <4>2, <4>3, <4>4
      <3>3. CASE ops' = [ops EXCEPT ![job.note] = None]
        BY <3>3, <2>1, StepTypes
      <3> QED BY <2>2, <3>1, <3>2, <3>3
    <2> QED BY <1>0, <2>1, <2>3, OpTargetsKept
  <1>6. CASE RenameCommit
    <2>1. /\ UNCHANGED ops /\ job.at = "commit" /\ job.note \in Notes
          /\ \A m \in Notes \ {job.note} : rows'[m] = rows[m]
      BY <1>6, StepTypes DEF RenameCommit, At, JobFits, RenameFits, RenameSteps
    <2>2. \A n \in Notes \ cut : ops[n] # None => n = job.note
      BY <2>1 DEF OpsSettled, RecoverSteps
    <2> QED BY <1>0, <2>1, <2>2, OpTargetsKept
  <1>7. CASE Recovery
    <2>1. UNCHANGED rows
      BY <1>7 DEF Recovery, Start, Recovered, RecoverHopped, RecoverUnhop, MovesBack, RecoverMoveBack,
                  RecoverHop, RecoverRecord, Refuse
    <2>2. \A n \in Notes : ops'[n] # None => ops'[n] = ops[n]
      BY <1>7, StepTypes DEF Recovery, Start, Recovered, RecoverHopped, RecoverUnhop, MovesBack,
                             RecoverMoveBack, RecoverHop, RecoverRecord, Refuse
    <2> QED BY <1>0, <2>1, <2>2, OpTargetsKept
  <1>8. CASE Reconcile \/ Relocate \/ ApplyScan \/ IndexBatch \/ IndexConfirm \/ IndexWorkspace
    <2>1. job.at \notin RenameSteps \cup {"down", "recovering", "refused"} \cup RecoverSteps
      BY <1>8 DEF Reconcile, Relocate, ApplyScan, IndexBatch, IndexConfirm, IndexWorkspace, At, RenameSteps,
                  RecoverSteps
    <2>2. \A n \in Notes : ops'[n] # None => ops[n] # None
      BY <1>8 DEF Reconcile, Relocate, ApplyScan, IndexBatch, IndexConfirm, IndexWorkspace
    <2> QED BY <1>2, <2>1, <2>2
  <1>9. CASE ReadFile \/ Registered \/ UNCHANGED vars
    BY <1>1, <1>9 DEF ReadFile, Registered, vars, storeVars
  <1>10. CASE OutsideCreate \/ OutsideEdit \/ OutsideRename \/ OutsideDelete \/ Dies
    BY <1>1, <1>10 DEF OutsideCreate, OutsideEdit, OutsideRename, OutsideDelete, Interferes, Dies, Crash
  <1>11. CASE Commands
    <2>1. job.at = "idle" /\ UNCHANGED rows
      BY <1>11, CommandsIdle DEF Commands, CreateFile, EmptyTrash, Reindex, Trash, Delete, Rename, Move, Restore
    <2>2. CASE UNCHANGED ops
      BY <1>1, <2>1, <2>2
    <2>3. ASSUME NEW n \in Notes, NEW target \in Paths, Rename(n, target)
          PROVE  OpTargetsAreFree'
      <3>1. /\ Active(n) /\ rows[n].path # target /\ target \notin ActivePaths
            /\ ops' = [ops EXCEPT ![n] = [source |-> rows[n].path, target |-> target, state |-> "prepared"]]
        BY <2>3 DEF Rename, Siblings
      <3>2. \A m \in Notes \ cut : ops[m] = None
        BY <2>1 DEF OpsSettled, RenameSteps, RecoverSteps
      <3>3. \A m \in Notes \ {n} : ops'[m] = ops[m]
        BY <3>1, StepTypes
      <3>4. ops'[n].source = rows[n].path /\ ops'[n].target = target
        <4>1. ops'[n] = [source |-> rows[n].path, target |-> target, state |-> "prepared"]
          BY <3>1, StepTypes
        <4> QED BY <4>1
      <3>5. ASSUME NEW m \in Notes, rows[m] # None
            PROVE  rows[m].path # target
        <4>1. rows[m].life \in {"active", "trashed"}
          BY <3>5, StepTypes DEF Rows
        <4>2. CASE rows[m].life = "active"
          BY <3>1, <3>5, <4>2 DEF ActivePaths, Active
        <4>3. CASE rows[m].life = "trashed"
          BY <3>5, <4>3, HiddenPlaces DEF RowsApart
        <4> QED BY <4>1, <4>2, <4>3
      <3> QED BY <1>0, <2>1, <3>1, <3>2, <3>3, <3>4, <3>5 DEF OpTargetsAreFree
    <2>4. UNCHANGED ops \/ \E n \in Notes, target \in Paths : Rename(n, target)
      BY <1>11 DEF Commands, CreateFile, EmptyTrash, Reindex, Trash, Delete, Move, Restore
    <2> QED BY <2>2, <2>3, <2>4
  <1> QED BY <1>3, <1>4, <1>5, <1>6, <1>7, <1>8, <1>9, <1>10, <1>11 DEF Next, Worker, CommandSteps

(***************************************************************************)
(* FilePlaced: the steps that are not the worker's commands.               *)
(***************************************************************************)

\* The places where the file of a note may be.
LEMMA PlacesOfNote ==
    ASSUME IInv, NEW n \in Notes
    PROVE  /\ rows[n] # None => rows[n].path \in Places
           /\ ops[n] # None => ops[n].source \in Places /\ ops[n].target \in Places
           /\ HopPlace(n) \in Places \ Paths
           /\ job.at \in CommandStates => job.to \in Places
           /\ job.at \in CommandStates \ {"create", "remove"} => job.from \in Places
  BY StepTypes, HiddenPlaces, InCommand DEF IInv, Places

\* The file at a place is the one that was there, if any, whatever has become of its content.
SameFile(q) == (disk'[q] = None <=> disk[q] = None) /\ (disk[q] # None => disk'[q].doc = disk[q].doc)

\* A note the worker is not busy with, and whose places nothing is done to, keeps its file.
LEMMA KeepsPlace ==
    ASSUME IInv, UNCHANGED <<rows, ops>>, NEW n \in Notes \ Parted, job.note # n, job'.note # n,
           rows[n] # None => SameFile(rows[n].path),
           ops[n] # None => SameFile(ops[n].source) /\ SameFile(ops[n].target)
    PROVE  Placed(n)'
  <1>1. Placed(n)
    BY DEF IInv, FilePlaced
  <1>2. CASE ops[n] # None
    <2>1. FileOfOperation(n)'
      BY <1>1, <1>2 DEF Placed, FileOfOperation, SameFile, HasFile, RolledBack, MovedOnly, Committed, AtSource,
                        AtTarget, OnDisk, Active
    <2> QED BY <1>2, <2>1 DEF Placed
  <1>3. CASE ops[n] = None
    BY <1>1, <1>3 DEF Placed, SameFile, HasFile
  <1> QED BY <1>2, <1>3

\* A note that what happens at these paths does not concern keeps its file.
LEMMA NotConcerned ==
    ASSUME IInv, UNCHANGED <<rows, ops>>, NEW P \in SUBSET Paths,
           \A q \in Places \ P : SameFile(q),
           NEW n \in Notes \ Parted, n \notin Concerned(P),
           UNCHANGED job \/ (job.note # n /\ job'.note # n)
    PROVE  Placed(n)'
  <1> USE DEF IInv
  <1>1. Placed(n)
    BY DEF FilePlaced
  <1>2. /\ rows[n] # None => SameFile(rows[n].path)
        /\ ops[n] # None => SameFile(ops[n].source) /\ SameFile(ops[n].target)
        /\ SameFile(HopPlace(n))
    BY PlacesOfNote DEF Concerned
  <1>3. CASE job.note = n
    <2>1. /\ job.at \in CommandStates => SameFile(job.to)
          /\ job.at \in CommandStates \ {"create", "remove"} => SameFile(job.from)
      BY <1>3, PlacesOfNote DEF Concerned
    <2> UNCHANGED job
      BY <1>3
    <2>2. CASE job.at \in RenameSteps
      <3>1. FileInCommand(n)'
        BY <1>1, <1>2, <1>3, <2>1, <2>2 DEF Placed, FileInCommand, SameFile, HasFile, RenameSteps,
                                            CommandStates, RecoverSteps
      <3> QED BY <1>3, <3>1 DEF Placed
    <2>3. CASE job.at \in CommandStates \ RenameSteps
      <3>1. FileInCommand(n)'
        BY <1>1, <1>2, <1>3, <2>1, <2>3 DEF Placed, FileInCommand, SameFile, HasFile, RenameSteps, RecoverSteps,
                                            Deletion, CommandStates
      <3> QED BY <1>3, <3>1 DEF Placed
    <2>4. CASE job.at \notin CommandStates
      <3>1. job.at \in RecoverSteps \cup {"recovering"} /\ ops[n] # None
        BY <1>3, <2>4, NoneApart DEF JobFits, RestFits
      <3>2. FileInCommand(n)'
        BY <1>1, <1>2, <1>3, <3>1 DEF Placed, FileInCommand, SameFile, HasFile, RolledBack, AtSource, OnDisk,
                                      Active, RecoverSteps
      <3> QED BY <1>3, <3>2 DEF Placed
    <2> QED BY <2>2, <2>3, <2>4
  <1>4. CASE job.note # n
    BY <1>2, <1>4, KeepsPlace
  <1> QED BY <1>3, <1>4

\* A note the worker is not busy with, before or after, and whose file, row and operation
\* stay.
LEMMA LeftAlone ==
    ASSUME IInv, NEW n \in Notes \ Parted, job.note # n, job'.note # n,
           UNCHANGED disk, rows'[n] = rows[n], ops'[n] = ops[n]
    PROVE  Placed(n)'
  <1>1. Placed(n)
    BY DEF IInv, FilePlaced
  <1>2. CASE ops[n] = None
    BY <1>1, <1>2 DEF Placed, HasFile
  <1>3. CASE ops[n] # None
    BY <1>1, <1>3 DEF Placed, FileOfOperation, HasFile, RolledBack, MovedOnly, Committed, AtSource, AtTarget,
                      OnDisk, Active
  <1> QED BY <1>2, <1>3

LEMMA OutsidePlaced ==
    ASSUME IInv, [Next]_vars, OutsideCreate \/ OutsideEdit \/ OutsideRename \/ OutsideDelete
    PROVE  FilePlaced'
  <1> USE DEF IInv
  <1>1. UNCHANGED <<rows, ops, job>>
    BY DEF OutsideCreate, OutsideEdit, OutsideRename, OutsideDelete, Interferes
  <1>2. Parted \subseteq Parted'
    BY PartedGrows DEF Parted
  <1>3. ASSUME NEW P \in SUBSET Paths, \A q \in Places \ P : SameFile(q), Concerned(P) \subseteq Parted'
        PROVE  FilePlaced'
    BY <1>1, <1>2, <1>3, NotConcerned DEF FilePlaced, Notes
  <1>4. CASE OutsideCreate
    <2>1. PICK p \in Paths, body \in Bodies :
            disk' = [disk EXCEPT ![p] = [doc |-> nextNote, body |-> body]] /\ cut' = cut \cup Concerned({p})
      BY <1>4 DEF OutsideCreate
    <2>2. \A q \in Places \ {p} : SameFile(q)
      BY <2>1, StepTypes DEF SameFile
    <2>3. Concerned({p}) \subseteq Parted'
      BY <2>1 DEF Parted
    <2> QED BY <1>3, <2>2, <2>3
  <1>5. CASE OutsideRename
    <2>1. PICK p \in Paths, q \in Paths :
            /\ disk' = [disk EXCEPT ![q] = disk[p], ![p] = None]
            /\ cut' = cut \cup Concerned({p, q}) \/ strayed' = strayed \cup Concerned({p, q})
      BY <1>5 DEF OutsideRename, MoveFile, Replace
    <2>2. \A r \in Places \ {p, q} : SameFile(r)
      BY <2>1, StepTypes DEF SameFile
    <2>3. Concerned({p, q}) \subseteq Parted'
      BY <2>1 DEF Parted
    <2> QED BY <1>3, <2>2, <2>3
  <1>6. CASE OutsideDelete
    <2>1. PICK p \in Paths : disk' = [disk EXCEPT ![p] = None] /\ cut' = cut \cup Concerned({p})
      BY <1>6 DEF OutsideDelete
    <2>2. \A q \in Places \ {p} : SameFile(q)
      BY <2>1, StepTypes DEF SameFile
    <2>3. Concerned({p}) \subseteq Parted'
      BY <2>1 DEF Parted
    <2> QED BY <1>3, <2>2, <2>3
  <1>7. CASE OutsideEdit
    <2>1. PICK p \in Paths, body \in Bodies : disk[p] # None /\ disk' = [disk EXCEPT ![p].body = body]
      BY <1>7 DEF OutsideEdit
    <2>2. disk[p] \in Files /\ disk'[p] = [disk[p] EXCEPT !.body = body]
      BY <2>1, StepTypes DEF Places
    <2>3. disk'[p] \in Files /\ disk'[p].doc = disk[p].doc
      BY <2>2 DEF Files
    <2>4. \A q \in Places : SameFile(q)
      BY <2>1, <2>3, NoneApart, StepTypes DEF SameFile
    <2>5. Concerned({}) = {}
      BY DEF Concerned
    <2>6. {} \in SUBSET Paths /\ (\A q \in Places \ {} : SameFile(q)) /\ Concerned({}) \subseteq Parted'
      BY <2>4, <2>5
    <2> QED BY <1>3, <2>6
  <1> QED BY <1>4, <1>5, <1>6, <1>7

\* A step that leaves files, rows and operations alone, with no command under way.
LEMMA IndexPlaced ==
    ASSUME IInv, [Next]_vars, UNCHANGED <<disk, rows, ops>>,
           UNCHANGED job \/ (job.note = None /\ job'.note = None)
    PROVE  FilePlaced'
  <1>1. SUFFICES ASSUME NEW n \in Notes \ Parted'
                 PROVE  Placed(n)'
    BY DEF FilePlaced, Notes
  <1>2. n \in Notes \ Parted
    BY PartedGrows DEF Parted
  <1>3. CASE job.note = None /\ job'.note = None
    BY <1>2, <1>3, NoneApart, LeftAlone
  <1>4. CASE UNCHANGED job
    <2>1. Concerned({}) = {}
      BY DEF Concerned
    <2>2. \A q \in Places \ {} : SameFile(q)
      BY DEF SameFile
    <2> QED BY <1>2, <1>4, <2>1, <2>2, NotConcerned
  <1> QED BY <1>3, <1>4

\* The process dies, or gives up the recovery: what a journalled rename had reached is one
\* of the three states the recovery knows.
LEMMA DroppedPlaced ==
    ASSUME IInv, [Next]_vars, UNCHANGED <<disk, rows, ops>>, job'.note = None,
           job.at \in Unjournaled \cup Hopping => InHand \subseteq cut'
    PROVE  FilePlaced'
  <1> USE DEF IInv
  <1>1. SUFFICES ASSUME NEW n \in Notes \ Parted'
                 PROVE  Placed(n)'
    BY DEF FilePlaced, Notes
  <1>2. n \in Notes \ Parted /\ job'.note # n
    BY PartedGrows, NoneApart DEF Parted
  <1>3. CASE job.note # n
    BY <1>2, <1>3, LeftAlone
  <1>4. CASE job.note = n
    <2>1. job.at \notin Unjournaled \cup Hopping
      BY <1>1, <1>4 DEF InHand, Parted
    <2>2. FileInCommand(n)
      BY <1>2, <1>4 DEF FilePlaced, Placed
    <2>3. CASE job.at \in {"hop", "move", "rolledback"}
      <3>1. ops[n] # None /\ RolledBack(n) /\ HasFile(ops[n].source, n)
        BY <1>4, <2>2, <2>3 DEF FileInCommand, JobFits, RenameFits, RenameSteps, RolledBack, AtSource, OnDisk, HasFile
      <3>2. FileOfOperation(n)'
        BY <3>1 DEF FileOfOperation, RolledBack, AtSource, OnDisk, HasFile, Active
      <3> QED BY <1>2, <3>1, <3>2 DEF Placed
    <2>4. CASE job.at \in {"mark", "commit", "undo", "undohop", "finish"}
      <3>1. ops[n] # None /\ (MovedOnly(n) \/ Committed(n)) /\ HasFile(ops[n].target, n)
        BY <1>4, <2>2, <2>4 DEF FileInCommand, JobFits, RenameFits, RenameSteps, MovedOnly, Committed, AtSource,
                                AtTarget, OnDisk, HasFile
      <3>2. FileOfOperation(n)'
        BY <3>1 DEF FileOfOperation, MovedOnly, Committed, AtSource, AtTarget, OnDisk, HasFile, Active
      <3> QED BY <1>2, <3>1, <3>2 DEF Placed
    <2>5. CASE job.at \in {"restore", "stage"}
      <3>1. ops[n] = None
        BY <1>2, <2>5 DEF OpsSettled, RenameSteps, RecoverSteps, Parted
      <3>2. rows[n].path = job.from /\ HasFile(job.from, n)
        BY <1>4, <2>2, <2>5 DEF FileInCommand, JobFits, TrashFits, DeletionFits, Deletion
      <3> QED BY <1>2, <3>1, <3>2 DEF Placed, HasFile
    <2>6. CASE job.at = "remove"
      <3>1. rows[n] = None
        BY <1>4, <2>6 DEF JobFits, DeletionFits, Deletion
      <3>2. ops[n] = None
        BY <3>1 DEF RowsApart
      <3> QED BY <1>2, <3>1, <3>2 DEF Placed
    <2>7. CASE job.at = "recovering"
      <3>1. ops[n] # None /\ RolledBack(n) /\ HasFile(ops[n].source, n)
        BY <1>4, <2>2, <2>7, NoneApart DEF FileInCommand, JobFits, RestFits
      <3>2. FileOfOperation(n)'
        BY <3>1 DEF FileOfOperation, RolledBack, AtSource, OnDisk, HasFile, Active
      <3> QED BY <1>2, <3>1, <3>2 DEF Placed
    <2>8. job.at \in CommandStates \cup RecoverSteps \cup {"recovering"}
      BY <1>4, NoneApart DEF JobFits, RestFits
    <2> QED BY <2>1, <2>3, <2>4, <2>5, <2>6, <2>7, <2>8
               DEF CommandStates, RenameSteps, RecoverSteps, Deletion, Unjournaled, Hopping
  <1> QED BY <1>3, <1>4

\* The recovery moves a file where no other note is, or counts the others as parted.
LEMMA MovesBackApart ==
    ASSUME IInv, [Next]_vars, NEW k \in Notes, MovesBack(k)
    PROVE  \A m \in Notes \ Parted' : m # k => Apart(m, k)
  <1> USE DEF IInv
  <1> DEFINE source == ops[k].source
             target == ops[k].target
  <1>1. /\ job.at = "recovering" /\ ops[k] # None /\ AtSource(k)
        /\ cut' = IF k \in cut THEN cut \cup Concerned({source, target}) ELSE cut
    BY DEF MovesBack, Recovering, At, MovedOnly
  <1>2. SUFFICES ASSUME NEW m \in Notes \ Parted', m # k
                 PROVE  Apart(m, k)
    OBVIOUS
  <1>3. m \in Notes \ Parted
    BY PartedGrows DEF Parted
  <1>4. CASE k \in cut
    <2>1. m \notin Concerned({source, target})
      BY <1>1, <1>2, <1>4 DEF Parted
    <2> QED BY <2>1 DEF Concerned, Apart
  <1>5. CASE k \notin cut
    <2>1. ops[m] = None
      BY <1>1, <1>2, <1>3, <1>5 DEF OpsSettled, Parted
    <2>2. rows[m] # None => rows[m].path # target /\ rows[m].path # source
      BY <1>1, <1>2, <1>5, TargetHalves DEF OpTargetsAreFree, RowsApart, AtSource, Active
    <2> QED BY <2>1, <2>2 DEF Apart
  <1> QED BY <1>4, <1>5

LEMMA RecoveryPlaced ==
    ASSUME IInv, [Next]_vars, Recovery
    PROVE  FilePlaced'
  <1> USE DEF IInv
  <1>1. CASE Start
    BY <1>1, IndexPlaced DEF Start, Resting, JobFits, RestFits, CommandStates, RecoverSteps, RenameSteps, Deletion
  <1>2. CASE \E k \in Notes : Refuse(k)
    <2>1. UNCHANGED <<disk, rows, ops>> /\ job.at = "recovering" /\ job'.note = None
      BY <1>2 DEF Refuse, Recovering, At, Resting
    <2> QED BY <2>1, DroppedPlaced DEF Unjournaled, Hopping
  <1>3. CASE Recovered
    <2>1. job.note = None
      BY <1>3, StepTypes DEF Recovered, At, JobFits, RestFits, Jobs
    <2>2. job'.note = None
      BY <1>3, <2>1, Goes DEF Recovered
    <2> QED BY <1>3, <2>1, <2>2, IndexPlaced DEF Recovered
  <1>4. ASSUME NEW k \in Notes, RecoverMoveBack(k) \/ RecoverHop(k)
        PROVE  FilePlaced'
    <2> DEFINE source == ops[k].source
               target == ops[k].target
               hop    == HopPlace(k)
    <2>1. /\ job.at = "recovering" /\ job.note = None /\ ops[k] # None /\ AtSource(k)
          /\ disk[source] = None /\ disk[target] # None
          /\ UNCHANGED <<rows, ops>> /\ MovesBack(k)
      BY <1>4 DEF RecoverMoveBack, RecoverHop, MovesBack, Recovering, At, MovedOnly, OnDisk
    <2>2. /\ job'.note = k /\ source \in Paths /\ target \in Paths /\ hop \in Places \ Paths
          /\ \/ job'.at = "recovering" /\ disk' = [disk EXCEPT ![source] = disk[target], ![target] = None]
             \/ job'.at = "rehopped" /\ disk' = [disk EXCEPT ![hop] = disk[target], ![target] = None]
      BY <1>4, <2>1, StepTypes, HiddenPlaces DEF RecoverMoveBack, RecoverHop, MoveFile, Replace, Jobs
    <2>3. SUFFICES ASSUME NEW n \in Notes \ Parted'
                   PROVE  Placed(n)'
      BY DEF FilePlaced, Notes
    <2>4. n \in Notes \ Parted /\ job.note # n
      BY <2>1, PartedGrows, NoneApart DEF Parted
    <2>5. CASE n = k
      <3>1. source # target
        BY <2>1, <2>4, <2>5, TargetHalves DEF OpTargetsAreFree, Parted
      <3>2. HasFile(target, k)
        <4>1. FileOfOperation(k)
          BY <2>1, <2>4, <2>5 DEF FilePlaced, Placed
        <4> QED BY <2>1, <4>1 DEF FileOfOperation, RolledBack, OnDisk
      <3>3. CASE job'.at = "recovering"
        <4>1. disk'[source] = disk[target] /\ disk'[target] = None
          BY <2>1, <2>2, <3>1, <3>3, StepTypes DEF Places
        <4>2. FileInCommand(k)'
          BY <2>1, <2>2, <3>2, <3>3, <4>1 DEF FileInCommand, RolledBack, AtSource, Active, OnDisk, HasFile,
                                              RecoverSteps
        <4> QED BY <2>2, <2>5, <4>2 DEF Placed
      <3>4. CASE job'.at = "rehopped"
        <4>1. disk'[hop] = disk[target] /\ disk'[target] = None /\ disk'[source] = None
          BY <2>1, <2>2, <3>1, <3>4, StepTypes DEF Places
        <4>2. FileInCommand(k)'
          BY <2>1, <2>2, <3>2, <3>4, <4>1 DEF FileInCommand, HasFile, RecoverSteps
        <4> QED BY <2>2, <2>5, <4>2 DEF Placed
      <3> QED BY <2>2, <3>3, <3>4
    <2>6. CASE n # k
      <3>1. Apart(n, k)
        BY <2>1, <2>3, <2>6, MovesBackApart
      <3>2. \A q \in Places \ {source, target, hop} : SameFile(q)
        BY <2>2, StepTypes DEF SameFile
      <3>3. rows[n] # None => SameFile(rows[n].path)
        BY <2>4, <3>1, <3>2, StepTypes, StagingUnclaimed DEF Apart
      <3>4. ops[n] # None => SameFile(ops[n].source) /\ SameFile(ops[n].target)
        <4>1. hop \in Places \ Paths
          BY <2>2
        <4>2. ops[n] # None => ops[n].source \in Paths /\ ops[n].target \in Paths
          BY <2>4, StepTypes
        <4>3. ops[n] # None => {ops[n].source, ops[n].target} \cap {source, target} = {}
          BY <3>1 DEF Apart
        <4> QED BY <3>2, <4>1, <4>2, <4>3 DEF Places
      <3> QED BY <2>1, <2>2, <2>4, <2>6, <3>3, <3>4, KeepsPlace
    <2> QED BY <2>5, <2>6
  <1>6. CASE RecoverHopped \/ RecoverUnhop
    <2> DEFINE k      == job.note
               source == ops[k].source
               target == ops[k].target
               hop    == HopPlace(k)
    <2>1. /\ job.at \in RecoverSteps /\ k \in Notes /\ ops[k] # None /\ AtSource(k)
          /\ source \in Paths /\ target \in Paths /\ hop \in Places \ Paths /\ UNCHANGED <<rows, ops>>
      BY <1>6, StepTypes, HiddenPlaces DEF RecoverHopped, RecoverUnhop, At, RecoverSteps, JobFits, RestFits
    <2>2. \A q \in Places \ {source, target, hop} : SameFile(q)
      BY <1>6, StepTypes DEF RecoverHopped, RecoverUnhop, MoveFile, Replace, Unmoved, SameFile
    <2>3. job'.note \in {k, None}
      BY <1>6, Goes DEF RecoverHopped, RecoverUnhop, Resting
    <2>4. SUFFICES ASSUME NEW n \in Notes \ Parted'
                   PROVE  Placed(n)'
      BY DEF FilePlaced, Notes
    <2>5. n \in Notes \ Parted
      BY PartedGrows DEF Parted
    <2>6. CASE n # k
      <3>1. Apart(n, k)
        BY <2>1, <2>5, <2>6 DEF RecoveryApart
      <3>2. rows[n] # None => SameFile(rows[n].path)
        BY <2>2, <2>5, <3>1, StepTypes, StagingUnclaimed, <2>1 DEF Apart
      <3>3. ops[n] # None => SameFile(ops[n].source) /\ SameFile(ops[n].target)
        BY <2>1, <2>2, <2>5, <3>1, StepTypes DEF Apart, Places
      <3>4. job.note # n /\ job'.note # n
        BY <2>3, <2>5, <2>6, NoneApart
      <3> QED BY <2>1, <2>5, <3>2, <3>3, <3>4, KeepsPlace
    <2>7. CASE n = k
      <3>1. HasFile(hop, n) /\ disk[source] = None /\ disk[target] = None
        BY <2>1, <2>5, <2>7 DEF FilePlaced, Placed, FileInCommand
      <3>2. CASE RecoverHopped /\ job'.at = "reunhop" /\ UNCHANGED disk
        <4>1. job'.note = n
          BY <2>7, <3>2, Goes DEF RecoverHopped
        <4>2. FileInCommand(n)'
          BY <2>1, <2>7, <3>1, <3>2 DEF FileInCommand, HasFile, RecoverSteps
        <4> QED BY <4>1, <4>2 DEF Placed
      <3>3. CASE RecoverHopped /\ job'.at = "recovering" /\ MoveFile(hop, source)
        <4>1. job'.note = n
          BY <2>7, <3>3, Goes DEF RecoverHopped
        <4>2. disk' = [disk EXCEPT ![source] = disk[hop], ![hop] = None]
          BY <3>3 DEF MoveFile, Replace
        <4>3. disk'[source] = disk[hop] /\ (source # target => disk'[target] = None)
          BY <2>1, <3>1, <4>2, StepTypes DEF Places
        <4>4. source # target
          BY <2>1, <2>5, <2>7, TargetHalves DEF OpTargetsAreFree, Parted
        <4>5. FileInCommand(n)'
          BY <2>1, <2>7, <3>1, <3>3, <4>3, <4>4
             DEF FileInCommand, RolledBack, AtSource, Active, OnDisk, HasFile, RecoverSteps
        <4> QED BY <4>1, <4>5 DEF Placed
      <3>4. CASE RecoverUnhop /\ disk' = [disk EXCEPT ![target] = disk[hop], ![hop] = None]
        <4>1. job'.note # n
          BY <2>5, <3>4, NoneApart DEF RecoverUnhop, Resting
        <4>2. source # target
          BY <2>1, <2>5, <2>7, TargetHalves DEF OpTargetsAreFree, Parted
        <4>3. disk'[target] = disk[hop] /\ disk'[source] = None
          BY <2>1, <3>1, <3>4, <4>2, StepTypes DEF Places
        <4>4. FileOfOperation(n)'
          BY <2>1, <2>7, <3>1, <4>3 DEF FileOfOperation, MovedOnly, AtSource, Active, OnDisk, HasFile
        <4> QED BY <2>1, <2>7, <4>1, <4>4 DEF Placed
      <3>5. CASE InHand \subseteq cut'
        BY <2>4, <2>7, <3>5 DEF InHand, Parted
      <3>6. RecoverHopped => \/ job'.at = "reunhop" /\ UNCHANGED disk
                             \/ job'.at = "recovering" /\ MoveFile(hop, source)
        BY Goes DEF RecoverHopped, Unmoved
      <3>7. RecoverUnhop => \/ disk' = [disk EXCEPT ![target] = disk[hop], ![hop] = None]
                            \/ InHand \subseteq cut'
        BY DEF RecoverUnhop
      <3> QED BY <1>6, <3>2, <3>3, <3>4, <3>5, <3>6, <3>7
    <2> QED BY <2>6, <2>7
  <1>5. ASSUME NEW k \in Notes, RecoverRecord(k)
        PROVE  FilePlaced'
    <2>1. /\ job.at = "recovering" /\ ops[k] # None /\ job.note \in {None, k}
          /\ job.note = k \/ RolledBack(k) \/ Committed(k)
          /\ UNCHANGED <<disk, rows>>
          /\ \A n \in Notes : ops'[n] = IF n = k THEN None ELSE ops[n]
      BY <1>5, StepTypes DEF RecoverRecord, Recovering, At
    <2>2. job'.note = None
      BY <1>5, StepTypes DEF RecoverRecord, Jobs
    <2>3. SUFFICES ASSUME NEW n \in Notes \ Parted'
                   PROVE  Placed(n)'
      BY DEF FilePlaced, Notes
    <2>4. n \in Notes \ Parted /\ job'.note # n
      BY <2>2, PartedGrows, NoneApart DEF Parted
    <2>5. CASE n # k
      BY <2>1, <2>4, <2>5, NoneApart, LeftAlone
    <2>6. CASE n = k
      <3>1. Placed(k)
        BY <2>4, <2>6 DEF FilePlaced
      <3>2. HasFile(rows[k].path, k)
        <4>1. CASE job.note = k
          BY <2>1, <3>1, <4>1 DEF Placed, FileInCommand, RolledBack, AtSource
        <4>2. CASE job.note # k /\ RolledBack(k)
          BY <2>1, <3>1, <4>2 DEF Placed, FileOfOperation, RolledBack, MovedOnly, Committed, AtSource
        <4>3. CASE job.note # k /\ Committed(k)
          BY <2>1, <3>1, <4>3 DEF Placed, FileOfOperation, RolledBack, MovedOnly, Committed, AtTarget
        <4> QED BY <2>1, <4>1, <4>2, <4>3
      <3> QED BY <2>1, <2>4, <2>6, <3>2 DEF Placed, HasFile
    <2> QED BY <2>5, <2>6
  <1> QED BY <1>1, <1>2, <1>3, <1>4, <1>5, <1>6 DEF Recovery

LEMMA RowScanPlaced ==
    ASSUME IInv, [Next]_vars, Relocate \/ ApplyScan
    PROVE  FilePlaced'
  <1> USE DEF IInv
  <1>1. job.at = "relocate" /\ job.note = None /\ UNCHANGED disk
    <2>1. job.at = "relocate" /\ UNCHANGED disk
      BY DEF Relocate, ApplyScan, At
    <2> QED BY <2>1 DEF JobFits, RestFits, CommandStates, RecoverSteps, RenameSteps, Deletion
  <1>2. job'.note = None
    BY <1>1, Goes DEF Relocate, ApplyScan
  <1>3. SUFFICES ASSUME NEW n \in Notes \ Parted'
                 PROVE  Placed(n)'
    BY DEF FilePlaced, Notes
  <1>4. n \in Notes \ Parted /\ job.note # n /\ job'.note # n
    BY <1>1, <1>2, PartedGrows, NoneApart DEF Parted
  <1>5. CASE Relocate
    <2>1. rows'[n] = rows[n] /\ ops'[n] = ops[n]
      BY <1>1, <1>4, <1>5, StepTypes, ZenonT(60) DEF Relocate, ScanSound
    <2> QED BY <1>1, <1>4, <2>1, LeftAlone
  <1>6. CASE ApplyScan
    <2>1. CASE UNCHANGED <<rows, ops>>
      BY <1>1, <1>4, <2>1, LeftAlone
    <2>2. CASE ~UNCHANGED <<rows, ops>>
      <3>1. rows'[n] = RowAfter(n) /\ n \notin NewIds /\ ops'[n] \in {None, ops[n]}
        BY <1>3, <1>4, <1>6, <2>2 DEF ApplyScan, Parted
      <3>2. ops'[n] = None
        BY <1>1, <1>4, <3>1 DEF OpsSettled, Parted, RenameSteps, RecoverSteps
      <3>3. rows'[n] # None => rows[n] # None /\ rows'[n].path = rows[n].path
        BY <1>1, <3>1, RowsAfterScan DEF At
      <3>4. rows'[n] # None => HasFile(rows[n].path, n)
        BY <1>1, <1>4, <3>3, RowPlaced DEF RecoverSteps
      <3> QED BY <1>1, <1>4, <3>2, <3>3, <3>4 DEF Placed, HasFile
    <2> QED BY <2>1, <2>2
  <1> QED BY <1>5, <1>6

(***************************************************************************)
(* FilePlaced: the worker's commands.                                      *)
(***************************************************************************)

\* fs::rename from one place to another.
LEMMA Replaced ==
    ASSUME TypeOK, NEW from \in Places, NEW to \in Places, from # to, Replace(from, to)
    PROVE  /\ disk[from] # None /\ disk'[to] = disk[from] /\ disk'[from] = None
           /\ \A q \in Places \ {from, to} : disk'[q] = disk[q]
  BY DEF Replace, TypeOK

\* A note the worker is not busy with, before or after, and whose row and file stay.
LEMMA OthersPlaced ==
    ASSUME IInv, NEW n \in Notes \ Parted, job.note # n, job'.note # n,
           job.at \notin {"down", "recovering", "refused"} \cup RecoverSteps,
           rows'[n] = rows[n], ops'[n] = ops[n],
           rows[n] # None => disk'[rows[n].path] = disk[rows[n].path]
    PROVE  Placed(n)'
  <1>1. CASE rows[n] # None
    BY <1>1, RowPlaced DEF Placed, HasFile
  <1>2. CASE rows[n] = None
    <2>1. ops[n] = None
      BY <1>2 DEF IInv, RowsApart
    <2> QED BY <1>2, <2>1 DEF Placed
  <1> QED BY <1>1, <1>2

\* No file but the new note's is touched.
LEMMA CreateFilePlaced ==
    ASSUME IInv, [Next]_vars, CreateFile
    PROVE  FilePlaced'
  <1> USE DEF IInv
  <1>1. PICK path \in Paths :
          /\ disk[path] = None /\ nextNote \in Notes
          /\ Request("create", nextNote, None, path)
          /\ disk' = [disk EXCEPT ![path] = [doc |-> nextNote, body |-> Blank]]
          /\ UNCHANGED <<rows, ops>>
    BY DEF CreateFile
  <1>2. job.at = "idle" /\ job'.at = "create" /\ job'.note = nextNote /\ job'.to = path
    BY <1>1, RequestGoes
  <1>3. job.note = None
    BY <1>2 DEF JobFits, RestFits, CommandStates, RecoverSteps, RenameSteps, Deletion
  <1>4. SUFFICES ASSUME NEW n \in Notes \ Parted'
                 PROVE  Placed(n)'
    BY DEF FilePlaced, Notes
  <1>5. n \in Notes \ Parted /\ job.note # n
    BY <1>3, PartedGrows, NoneApart DEF Parted
  <1>6. CASE n = nextNote
    <2>1. [doc |-> nextNote, body |-> Blank] \in Files
      BY <1>1, StoreAssumption DEF Files
    <2>2. disk'[path] = [doc |-> nextNote, body |-> Blank]
      BY <1>1, StepTypes DEF Places
    <2>3. disk'[path] # None /\ disk'[path].doc = n
      BY <1>6, <2>1, <2>2, NoneApart
    <2>4. FileInCommand(n)'
      BY <1>2, <2>3 DEF FileInCommand, HasFile, RecoverSteps
    <2> QED BY <1>2, <1>6, <2>4 DEF Placed
  <1>7. CASE n # nextNote
    <2>1. ASSUME rows[n] # None
          PROVE  disk'[rows[n].path] = disk[rows[n].path]
      <3>1. HasFile(rows[n].path, n) /\ rows[n].path \in Places
        BY <1>2, <1>5, <2>1, RowPlaced, StepTypes DEF RecoverSteps
      <3> QED BY <1>1, <3>1, StepTypes DEF HasFile
    <2> QED BY <1>1, <1>2, <1>5, <1>7, <2>1, OthersPlaced DEF RecoverSteps
  <1> QED BY <1>6, <1>7

\* A command that begins with a look: deletions, a restore, a rename.
LEMMA LookPlaced ==
    ASSUME IInv, [Next]_vars, NEW k \in Notes, job.at = "idle", rows[k] # None,
           UNCHANGED <<disk, rows>>, \A n \in Notes \ {k} : ops'[n] = ops[n],
           job'.note = k, job'.from = rows[k].path,
           \/ job'.at \in {"stage", "restore"}
           \/ job'.at \in {"hop", "move"} /\ disk[job'.to] = None
    PROVE  FilePlaced'
  <1> USE DEF IInv
  <1>1. job.note = None
    BY DEF JobFits, RestFits, CommandStates, RecoverSteps, RenameSteps, Deletion
  <1>2. SUFFICES ASSUME NEW n \in Notes \ Parted'
                 PROVE  Placed(n)'
    BY DEF FilePlaced, Notes
  <1>3. n \in Notes \ Parted /\ job.note # n
    BY <1>1, PartedGrows, NoneApart DEF Parted
  <1>4. CASE n = k
    <2>1. HasFile(rows[k].path, k)
      BY <1>3, <1>4, RowPlaced DEF RecoverSteps
    <2>2. FileInCommand(k)'
      BY <2>1 DEF FileInCommand, HasFile, RecoverSteps
    <2> QED BY <1>4, <2>2 DEF Placed
  <1>5. CASE n # k
    BY <1>3, <1>5, OthersPlaced DEF RecoverSteps
  <1> QED BY <1>4, <1>5

\* A command that begins with a move: to the trash, to another directory.
LEMMA MovePlaced ==
    ASSUME IInv, [Next]_vars, NEW k \in Notes, job.at = "idle", rows[k] # None, NEW to \in Places,
           Replace(rows[k].path, to), rows[k].path # to, Unclaimed(k, to) \/ disk[to] = None,
           UNCHANGED <<rows, ops>>, job'.note = k, job'.to = to, job'.at \in {"trashed", "moved"}
    PROVE  FilePlaced'
  <1> USE DEF IInv
  <1>1. job.note = None
    BY DEF JobFits, RestFits, CommandStates, RecoverSteps, RenameSteps, Deletion
  <1>2. SUFFICES ASSUME NEW n \in Notes \ Parted'
                 PROVE  Placed(n)'
    BY DEF FilePlaced, Notes
  <1>3. n \in Notes \ Parted /\ job.note # n
    BY <1>1, PartedGrows, NoneApart DEF Parted
  <1>4. /\ rows[k].path \in Places /\ disk'[to] = disk[rows[k].path]
        /\ \A q \in Places \ {rows[k].path, to} : disk'[q] = disk[q]
    BY Replaced, StepTypes
  <1>5. CASE n = k
    <2>1. HasFile(rows[k].path, k)
      BY <1>3, <1>5, RowPlaced DEF RecoverSteps
    <2>2. FileInCommand(k)'
      BY <1>4, <2>1 DEF FileInCommand, HasFile, RecoverSteps
    <2> QED BY <1>5, <2>2 DEF Placed
  <1>6. CASE n # k
    <2>1. ASSUME rows[n] # None
          PROVE  disk'[rows[n].path] = disk[rows[n].path]
      <3>1. HasFile(rows[n].path, n) /\ rows[n].path \in Places
        BY <1>3, <2>1, RowPlaced, StepTypes DEF RecoverSteps
      <3>2. rows[n].path # rows[k].path
        BY <1>6, <2>1 DEF RowsApart
      <3>3. rows[n].path # to
        BY <1>6, <2>1, <3>1 DEF Unclaimed, HasFile
      <3> QED BY <1>4, <3>1, <3>2, <3>3
    <2> QED BY <1>3, <1>6, <2>1, OthersPlaced DEF RecoverSteps
  <1> QED BY <1>5, <1>6

LEMMA CommandPlaced ==
    ASSUME IInv, [Next]_vars, Commands
    PROVE  FilePlaced'
  <1> USE DEF IInv
  <1>1. job.at = "idle" /\ job.note = None
    BY CommandsIdle DEF JobFits, RestFits, CommandStates, RecoverSteps, RenameSteps, Deletion
  <1>2. CASE Reindex
    <2>1. job'.note = None
      BY <1>1, <1>2, Goes DEF Reindex
    <2> QED BY <1>1, <1>2, <2>1, IndexPlaced DEF Reindex
  <1>3. CASE EmptyTrash
    <2>1. PICK k \in Notes :
            /\ rows[k] # None /\ job'.note = k /\ job'.from = rows[k].path /\ job'.at = "stage"
            /\ UNCHANGED <<disk, rows, ops>>
      BY <1>3 DEF EmptyTrash, Resting, Trashed, Unmoved
    <2> QED BY <1>1, <2>1, LookPlaced
  <1>4. ASSUME NEW k \in Notes, Delete(k)
        PROVE  FilePlaced'
    <2>1. rows[k] # None /\ UNCHANGED <<disk, rows, ops>>
      BY <1>4 DEF Delete, Trashed, Unmoved
    <2>2. job'.note = k /\ job'.from = rows[k].path /\ job'.at = "stage"
      BY <1>4, RequestGoes DEF Delete
    <2> QED BY <1>1, <2>1, <2>2, LookPlaced
  <1>5. ASSUME NEW k \in Notes, Trash(k)
        PROVE  FilePlaced'
    <2> DEFINE to == TrashPlace(k, rows[k].path)
    <2>1. rows[k] # None /\ rows[k].path \in Paths
      BY <1>5 DEF Trash, Active, RowsApart
    <2>2. Replace(rows[k].path, to) /\ UNCHANGED <<rows, ops>>
      BY <1>5 DEF Trash
    <2>3. job'.note = k /\ job'.to = to /\ job'.at = "trashed"
      BY <1>5, RequestGoes DEF Trash
    <2>4. to \in Places /\ rows[k].path # to /\ Unclaimed(k, to)
      BY <2>1, HiddenPlaces, TrashUnclaimed
    <2> HIDE DEF to
    <2> QED BY <1>1, <2>1, <2>2, <2>3, <2>4, MovePlaced
  <1>6. ASSUME NEW k \in Notes, NEW target \in Paths, Rename(k, target)
        PROVE  FilePlaced'
    <2>1. /\ rows[k] # None /\ disk[target] = None /\ UNCHANGED <<disk, rows>>
      BY <1>6 DEF Rename, Active, Unmoved
    <2>2. \A n \in Notes \ {k} : ops'[n] = ops[n]
      BY <1>6, StepTypes DEF Rename
    <2>3. \E step \in {"hop", "move"} : Request(step, k, rows[k].path, target)
      BY <1>6 DEF Rename
    <2>4. job'.note = k /\ job'.from = rows[k].path /\ job'.to = target /\ job'.at \in {"hop", "move"}
      BY <2>3, RequestGoes
    <2> QED BY <1>1, <2>1, <2>2, <2>4, LookPlaced
  <1>7. ASSUME NEW k \in Notes, NEW target \in Paths, Move(k, target)
        PROVE  FilePlaced'
    <2>1. /\ rows[k] # None /\ disk[target] = None /\ rows[k].path # target
          /\ Replace(rows[k].path, target) /\ UNCHANGED <<rows, ops>>
      BY <1>7 DEF Move, Active, Cousins, MoveFile, CanMove
    <2>2. job'.note = k /\ job'.to = target /\ job'.at = "moved"
      BY <1>7, RequestGoes DEF Move
    <2>3. target \in Places
      BY DEF Places
    <2> QED BY <1>1, <2>1, <2>2, <2>3, MovePlaced
  <1>8. ASSUME NEW k \in Notes, NEW target \in Paths, Restore(k, target)
        PROVE  FilePlaced'
    <2>1. rows[k] # None /\ UNCHANGED <<disk, rows, ops>>
      BY <1>8 DEF Restore, Trashed, Unmoved
    <2>2. job'.note = k /\ job'.from = rows[k].path /\ job'.at = "restore"
      BY <1>8, RequestGoes DEF Restore
    <2> QED BY <1>1, <2>1, <2>2, LookPlaced
  <1> QED BY <1>2, <1>3, <1>4, <1>5, <1>6, <1>7, <1>8, CreateFilePlaced DEF Commands

\* The places a step of a command may touch.
LEMMA TouchedPlaces ==
    ASSUME IInv, CommandSteps
    PROVE  /\ job.at \in CommandStates
           /\ \A q \in Places \ {job.from, job.to, HopPlace(job.note)} : disk'[q] = disk[q]
           /\ job.at \in {"create", "remove", "finish"} => \A q \in Places \ {job.to} : disk'[q] = disk[q]
           /\ \A n \in Notes \ {job.note} : rows'[n] = rows[n] /\ ops'[n] = ops[n]
  <1> USE DEF IInv
  <1>1. CASE CreateRow \/ RemoveFile
    BY <1>1, StepTypes DEF CreateRow, RemoveFile, At, Unmoved, CommandStates, Deletion
  <1>2. CASE MoveRow \/ TrashRow \/ RestoreRow \/ DeleteRow \/ RenameMark \/ RenameCommit \/ RenameFinish
             \/ RenameRolledBack
    BY <1>2, StepTypes DEF MoveRow, TrashRow, RestoreRow, DeleteRow, RenameMark, RenameCommit, RenameFinish,
                           RenameRolledBack, At, Unmoved, CommandStates, Deletion, RenameSteps
  <1>3. CASE RestoreFile \/ PutBack \/ StageFile
    BY <1>3, StepTypes DEF RestoreFile, PutBack, StageFile, Replace, At, Unmoved, CommandStates, Deletion
  <1>4. CASE RenameHop \/ RenameHopped \/ RenameUnhop \/ RenameMove \/ RenameUndo \/ RenameUndoHop
             \/ RenameUndoHopped \/ RenameUndoUnhop
    BY <1>4, StepTypes DEF RenameHop, RenameHopped, RenameUnhop, RenameMove, RenameUndo, RenameUndoHop,
                           RenameUndoHopped, RenameUndoUnhop, MoveFile, Replace, At, Unmoved, CommandStates,
                           RenameSteps
  <1> QED BY <1>1, <1>2, <1>3, <1>4 DEF CommandSteps

\* The file of another note is not among them.
LEMMA OthersUntouched ==
    ASSUME IInv, CommandSteps, NEW n \in Notes \ Parted, n # job.note, rows[n] # None
    PROVE  disk'[rows[n].path] = disk[rows[n].path]
  <1> USE DEF IInv
  <1>1. job.at \in CommandStates /\ job.note \in Notes /\ rows[n].path \in Places
    BY TouchedPlaces, InCommand, StepTypes
  <1>2. rows[n].path # job.to
    BY <1>1, TargetHalves DEF JobTargetIsFree
  <1>3. rows[n].path # HopPlace(job.note)
    BY <1>1, StagingUnclaimed
  <1>4. CASE job.at \in {"create", "remove", "finish"}
    BY <1>1, <1>2, <1>4, TouchedPlaces
  <1>5. CASE job.at \notin {"create", "remove", "finish"}
    <2>1. rows[job.note] # None /\ rows[job.note].path = job.from
      <3>1. CASE job.at \in RenameSteps
        BY <1>5, <3>1 DEF JobFits, RenameFits, Active
      <3>2. CASE job.at \in {"moved", "trashed", "restore", "restored"}
        BY <3>2 DEF JobFits, MoveFits, TrashFits, Active, Trashed
      <3>3. CASE job.at \in Deletion \cup {"putback"}
        BY <1>5, <3>3 DEF JobFits, DeletionFits, PutBackFits, Trashed
      <3> QED BY <1>1, <1>5, <3>1, <3>2, <3>3 DEF CommandStates
    <2>2. rows[n].path # job.from
      BY <1>1, <2>1 DEF RowsApart
    <2> QED BY <1>1, <1>2, <1>3, <2>2, TouchedPlaces
  <1> QED BY <1>4, <1>5

LEMMA OthersInCommand ==
    ASSUME IInv, CommandSteps, NEW n \in Notes \ Parted, n # job.note, n # job'.note
    PROVE  Placed(n)'
  <1>1. job.at \notin {"down", "recovering", "refused"} \cup RecoverSteps
    BY TouchedPlaces DEF CommandStates, RenameSteps, RecoverSteps, Deletion
  <1> QED BY <1>1, TouchedPlaces, OthersUntouched, OthersPlaced DEF RecoverSteps

\* A move of a command takes a file from one place to another.
LEMMA FromIsNotTo ==
    ASSUME TypeOK, RowsApart, JobFits, job.at \in {"restore", "stage", "putback"}
    PROVE  job.from # job.to
  <1>1. job.note \in Notes /\ rows[job.note] # None /\ rows[job.note].path = job.from
    BY DEF JobFits, TrashFits, DeletionFits, PutBackFits, Deletion, Trashed
  <1>2. /\ rows[job.note].life = "active" => job.from \in Paths
        /\ rows[job.note].life = "trashed" => \E p \in Paths : job.from = TrashPlace(job.note, p)
    BY <1>1 DEF RowsApart
  <1>3. \/ rows[job.note].life = "active" /\ job.to = TrashPlace(job.note, job.from)
        \/ rows[job.note].life = "trashed" /\ job.to \in Paths
        \/ rows[job.note].life = "trashed" /\ \E p \in Paths : job.to = StagingPlace(job.note, p)
    BY DEF JobFits, TrashFits, DeletionFits, PutBackFits, Deletion, Trashed, Active
  <1> QED BY <1>1, <1>2, <1>3, HiddenPlaces, PlacesApart

\* The commands on the trash and the plain moves, for the note itself.
LEMMA OwnPlain ==
    ASSUME IInv, NEW n \in Notes \ (Parted \cup cut'), n = job.note,
           CreateRow \/ MoveRow \/ TrashRow \/ RestoreFile \/ RestoreRow \/ PutBack \/ StageFile \/ DeleteRow
    PROVE  Placed(n)'
  <1> USE DEF IInv
  <1>1. job.at \in CommandStates \ (RenameSteps \cup {"remove"})
    BY DEF CreateRow, MoveRow, TrashRow, RestoreFile, RestoreRow, PutBack, StageFile, DeleteRow, At,
           CommandStates, RenameSteps, Deletion
  <1>2. FileInCommand(n)
    BY DEF FilePlaced, Placed
  <1>3. ops[n] = None /\ n # None
    BY <1>1, NoneApart DEF OpsSettled, CommandStates, RenameSteps, RecoverSteps, Deletion, Parted
  <1>4. n \in InHand
    BY DEF InHand
  <1>5. job.to \in Places /\ (job.at # "create" => job.from \in Places)
    BY <1>1, InCommand
  <1>6. /\ Rest \/ Fail => job'.note # n
        /\ Succeed => job'.note # n
        /\ \A step : Goto(step) => job'.at = step /\ job'.note = n /\ job'.from = job.from /\ job'.to = job.to
    BY <1>3, Goes
  <1>7. CASE CreateRow
    <2>1. job.at = "create" /\ UNCHANGED ops /\ job'.note # n /\ rows[n] = None
      BY <1>6, <1>7 DEF CreateRow, At, JobFits, CreateFits
    <2>2. CASE UNCHANGED rows
      BY <1>3, <2>1, <2>2 DEF Placed
    <2>3. CASE UNCHANGED disk /\ rows' = [rows EXCEPT ![job.note] =
                        [life |-> "active", path |-> job.to, origin |-> job.to, hash |-> Blank, missing |-> 0]]
      <3>1. rows'[n].path = job.to
        BY <2>3, StepTypes
      <3> QED BY <1>2, <1>3, <2>1, <2>3, <3>1 DEF Placed, FileInCommand, HasFile, RecoverSteps
    <2> QED BY <1>7, <2>2, <2>3 DEF CreateRow, Unmoved
  <1>8. CASE MoveRow
    <2>1. job.at = "moved" /\ UNCHANGED <<disk, ops>> /\ job'.note # n /\ rows[n] \in Rows
      BY <1>6, <1>8, StepTypes DEF MoveRow, At, Unmoved, JobFits, MoveFits, Active
    <2>2. rows' = [rows EXCEPT ![n].path = job.to]
      BY <1>4, <1>8 DEF MoveRow
    <2>3. rows'[n].path = job.to
      BY <2>1, <2>2, StepTypes DEF Rows
    <2> QED BY <1>2, <1>3, <2>1, <2>3 DEF Placed, FileInCommand, HasFile, RecoverSteps
  <1>9. CASE TrashRow
    <2>1. job.at = "trashed" /\ UNCHANGED <<disk, ops>> /\ rows[n] \in Rows
      BY <1>9, StepTypes DEF TrashRow, At, Unmoved, JobFits, TrashFits, Active
    <2>2. CASE Goto("putback")
      BY <1>2, <1>6, <2>1, <2>2 DEF Placed, FileInCommand, HasFile, RecoverSteps
    <2>3. CASE Succeed /\ rows' = [rows EXCEPT ![n] = [@ EXCEPT !.life = "trashed", !.path = job.to, !.origin = job.from]]
      <3>1. rows'[n].path = job.to
        BY <2>1, <2>3, StepTypes DEF Rows
      <3> QED BY <1>2, <1>3, <1>6, <2>1, <2>3, <3>1 DEF Placed, FileInCommand, HasFile, RecoverSteps
    <2> QED BY <1>9, <2>2, <2>3 DEF TrashRow
  <1>10. CASE RestoreRow
    <2>1. job.at = "restored" /\ UNCHANGED <<disk, ops>> /\ rows[n] \in Rows
      BY <1>10, StepTypes DEF RestoreRow, At, Unmoved, JobFits, TrashFits, Trashed
    <2>2. CASE Goto("putback")
      BY <1>2, <1>6, <2>1, <2>2 DEF Placed, FileInCommand, HasFile, RecoverSteps
    <2>3. CASE Succeed /\ rows' = [rows EXCEPT ![n] = [@ EXCEPT !.life = "active", !.path = job.to, !.origin = job.to]]
      <3>1. rows'[n].path = job.to
        BY <2>1, <2>3, StepTypes DEF Rows
      <3> QED BY <1>2, <1>3, <1>6, <2>1, <2>3, <3>1 DEF Placed, FileInCommand, HasFile, RecoverSteps
    <2> QED BY <1>10, <2>2, <2>3 DEF RestoreRow
  <1>11. CASE DeleteRow
    <2>1. job.at = "staged" /\ UNCHANGED disk
      BY <1>11 DEF DeleteRow, At, Unmoved
    <2>2. Goto("putback") \/ Goto("remove")
      BY <1>11 DEF DeleteRow
    <2> QED BY <1>2, <1>6, <2>1, <2>2 DEF Placed, FileInCommand, HasFile, RecoverSteps
  <1>12. CASE RestoreFile
    <2>1. job.at = "restore" /\ UNCHANGED <<rows, ops>> /\ rows[n].path = job.from
      BY <1>12 DEF RestoreFile, At, JobFits, TrashFits
    <2>2. CASE Replace(job.from, job.to) /\ Goto("restored")
      <3>1. disk'[job.to] = disk[job.from]
        BY <1>5, <2>1, <2>2, FromIsNotTo, Replaced
      <3> QED BY <1>2, <1>6, <2>1, <2>2, <3>1 DEF Placed, FileInCommand, HasFile, RecoverSteps
    <2>3. CASE UNCHANGED disk /\ Fail
      BY <1>2, <1>3, <1>6, <2>1, <2>3 DEF Placed, FileInCommand, HasFile, RecoverSteps
    <2> QED BY <1>12, <2>2, <2>3 DEF RestoreFile, Unmoved
  <1>13. CASE StageFile
    <2>1. job.at = "stage" /\ UNCHANGED <<rows, ops>> /\ rows[n].path = job.from
      BY <1>13 DEF StageFile, At, JobFits, DeletionFits, Deletion
    <2>2. CASE Replace(job.from, job.to) /\ Goto("staged")
      <3>1. disk'[job.to] = disk[job.from]
        BY <1>5, <2>1, <2>2, FromIsNotTo, Replaced
      <3> QED BY <1>2, <1>6, <2>1, <2>2, <3>1 DEF Placed, FileInCommand, HasFile, RecoverSteps
    <2>3. CASE UNCHANGED disk /\ Fail
      BY <1>2, <1>3, <1>6, <2>1, <2>3 DEF Placed, FileInCommand, HasFile, RecoverSteps
    <2> QED BY <1>13, <2>2, <2>3 DEF StageFile, Unmoved
  <1>14. CASE PutBack
    <2>1. /\ job.at = "putback" /\ UNCHANGED <<rows, ops>> /\ rows[n].path = job.from /\ job'.note # n
          /\ Replace(job.to, job.from)
      BY <1>4, <1>6, <1>14 DEF PutBack, At, JobFits, PutBackFits
    <2>2. disk'[job.from] = disk[job.to]
      BY <1>5, <2>1, FromIsNotTo, Replaced
    <2> QED BY <1>2, <1>3, <2>1, <2>2 DEF Placed, FileInCommand, HasFile, RecoverSteps
  <1> QED BY <1>7, <1>8, <1>9, <1>10, <1>11, <1>12, <1>13, <1>14

\* The title rename, for the note itself.
LEMMA OwnRename ==
    ASSUME IInv, NEW n \in Notes \ (Parted \cup cut'), n = job.note,
           \/ RenameHop \/ RenameHopped \/ RenameUnhop \/ RenameMove \/ RenameMark \/ RenameCommit
           \/ RenameFinish \/ RenameUndo \/ RenameUndoHop \/ RenameUndoHopped \/ RenameUndoUnhop
           \/ RenameRolledBack
    PROVE  Placed(n)'
  <1> USE DEF IInv
  <1>1. job.at \in RenameSteps
    BY DEF RenameHop, RenameHopped, RenameUnhop, RenameMove, RenameMark, RenameCommit, RenameFinish, RenameUndo,
           RenameUndoHop, RenameUndoHopped, RenameUndoUnhop, RenameRolledBack, At, RenameSteps
  <1>2. FileInCommand(n)
    BY DEF FilePlaced, Placed
  <1>3. n # None /\ n \in InHand
    BY NoneApart DEF InHand
  <1>4. /\ job.from \in Places /\ job.to \in Places /\ job.from # job.to
        /\ HopPlace(n) \in Places /\ HopPlace(n) # job.from /\ HopPlace(n) # job.to
        /\ rows[n] \in Rows /\ rows[n].path = IF job.at = "finish" THEN job.to ELSE job.from
    BY <1>1, HiddenPlaces, StepTypes DEF JobFits, RenameFits, Active, Places
  <1>5. /\ Rest \/ Fail => job'.note # n
        /\ Succeed => job'.note # n
        /\ \A step : Goto(step) => job'.at = step /\ job'.note = n /\ job'.from = job.from /\ job'.to = job.to
    BY <1>3, Goes
  <1>6. CASE RenameHop
    <2>1. job.at = "hop"
      BY <1>6 DEF RenameHop, At
    <2>2. CASE UNCHANGED disk /\ Goto("rolledback")
      BY <1>2, <1>5, <2>1, <2>2 DEF Placed, FileInCommand, HasFile, RecoverSteps
    <2>3. CASE Replace(job.from, HopPlace(n)) /\ Goto("hopped")
      <3>1. disk'[HopPlace(n)] = disk[job.from] /\ disk'[job.from] = None /\ disk'[job.to] = disk[job.to]
        BY <1>4, <2>3, Replaced
      <3> QED BY <1>2, <1>5, <2>1, <2>3, <3>1 DEF Placed, FileInCommand, HasFile, RecoverSteps
    <2> QED BY <1>6, <2>2, <2>3 DEF RenameHop, Unmoved, MoveFile
  <1>7. CASE RenameHopped
    <2>1. job.at = "hopped"
      BY <1>7 DEF RenameHopped, At
    <2>2. CASE UNCHANGED disk /\ Goto("unhop")
      BY <1>2, <1>5, <2>1, <2>2 DEF Placed, FileInCommand, HasFile, RecoverSteps
    <2>3. CASE Replace(HopPlace(n), job.to) /\ Goto("mark")
      <3>1. disk'[job.to] = disk[HopPlace(n)] /\ disk'[job.from] = disk[job.from]
        BY <1>4, <2>3, Replaced
      <3> QED BY <1>2, <1>5, <2>1, <2>3, <3>1 DEF Placed, FileInCommand, HasFile, RecoverSteps
    <2> QED BY <1>7, <2>2, <2>3 DEF RenameHopped, Unmoved, MoveFile
  <1>8. CASE RenameUnhop
    <2>1. job.at = "unhop" /\ Replace(HopPlace(n), job.from) /\ Goto("rolledback")
      BY <1>3, <1>8 DEF RenameUnhop, At, MoveFile
    <2>2. disk'[job.from] = disk[HopPlace(n)] /\ disk'[job.to] = disk[job.to]
      BY <1>4, <2>1, Replaced
    <2> QED BY <1>2, <1>5, <2>1, <2>2 DEF Placed, FileInCommand, HasFile, RecoverSteps
  <1>9. CASE RenameMove
    <2>1. job.at = "move"
      BY <1>9 DEF RenameMove, At
    <2>2. CASE UNCHANGED disk /\ Goto("rolledback")
      BY <1>2, <1>5, <2>1, <2>2 DEF Placed, FileInCommand, HasFile, RecoverSteps
    <2>3. CASE Replace(job.from, job.to) /\ Goto("mark")
      <3>1. disk'[job.to] = disk[job.from] /\ disk'[job.from] = None
        BY <1>4, <2>3, Replaced
      <3> QED BY <1>2, <1>5, <2>1, <2>3, <3>1 DEF Placed, FileInCommand, HasFile, RecoverSteps
    <2> QED BY <1>9, <2>2, <2>3 DEF RenameMove, Unmoved, MoveFile
  <1>10. CASE RenameMark \/ RenameCommit
    <2>1. /\ job.at \in {"mark", "commit"} /\ UNCHANGED disk
          /\ \E step \in {"commit", "undo", "undohop", "finish"} : Goto(step)
      BY <1>10 DEF RenameMark, RenameCommit, WayBack, At, Unmoved
    <2> QED BY <1>2, <1>5, <2>1 DEF Placed, FileInCommand, HasFile, RecoverSteps
  <1>11. CASE RenameFinish
    <2>1. /\ job.at = "finish" /\ UNCHANGED <<disk, rows>> /\ job'.note # n
          /\ ops' = [ops EXCEPT ![n] = None]
      BY <1>3, <1>5, <1>11 DEF RenameFinish, At, Unmoved
    <2>2. ops'[n] = None
      BY <2>1, StepTypes
    <2> QED BY <1>2, <1>4, <2>1, <2>2 DEF Placed, FileInCommand, HasFile, RecoverSteps
  <1>12. CASE RenameUndo
    <2>1. job.at = "undo" /\ Replace(job.to, job.from) /\ Goto("rolledback")
      BY <1>3, <1>12 DEF RenameUndo, At, MoveFile
    <2>2. disk'[job.from] = disk[job.to] /\ disk'[job.to] = None
      BY <1>4, <2>1, Replaced
    <2> QED BY <1>2, <1>5, <2>1, <2>2 DEF Placed, FileInCommand, HasFile, RecoverSteps
  <1>13. CASE RenameRolledBack
    <2>1. /\ job.at = "rolledback" /\ UNCHANGED <<disk, rows>> /\ job'.note # n
          /\ ops' = [ops EXCEPT ![n] = None]
      BY <1>3, <1>5, <1>13 DEF RenameRolledBack, At, Unmoved
    <2>2. ops'[n] = None
      BY <2>1, StepTypes
    <2> QED BY <1>2, <1>4, <2>1, <2>2 DEF Placed, FileInCommand, HasFile, RecoverSteps
  <1>14. CASE RenameUndoHop
    <2>1. job.at = "undohop" /\ Replace(job.to, HopPlace(n)) /\ Goto("undohopped")
      BY <1>3, <1>14 DEF RenameUndoHop, At
    <2>2. disk'[HopPlace(n)] = disk[job.to] /\ disk'[job.to] = None /\ disk'[job.from] = disk[job.from]
      BY <1>4, <2>1, Replaced
    <2> QED BY <1>2, <1>5, <2>1, <2>2 DEF Placed, FileInCommand, HasFile, RecoverSteps
  <1>15. CASE RenameUndoHopped
    <2>1. job.at = "undohopped"
      BY <1>15 DEF RenameUndoHopped, At
    <2>2. CASE UNCHANGED disk /\ Goto("undounhop")
      BY <1>2, <1>5, <2>1, <2>2 DEF Placed, FileInCommand, HasFile, RecoverSteps
    <2>3. CASE Replace(HopPlace(n), job.from) /\ Goto("rolledback")
      <3>1. disk'[job.from] = disk[HopPlace(n)] /\ disk'[job.to] = disk[job.to]
        BY <1>4, <2>3, Replaced
      <3> QED BY <1>2, <1>5, <2>1, <2>3, <3>1 DEF Placed, FileInCommand, HasFile, RecoverSteps
    <2> QED BY <1>15, <2>2, <2>3 DEF RenameUndoHopped, Unmoved, MoveFile
  <1>16. ~RenameUndoUnhop
    BY <1>3 DEF RenameUndoUnhop
  <1> QED BY <1>6, <1>7, <1>8, <1>9, <1>10, <1>11, <1>12, <1>13, <1>14, <1>15, <1>16

\* The last step of a deletion: the note has no row any more, and the next of the trash has its
\* file where the row says.
LEMMA RemovePlaced ==
    ASSUME IInv, [Next]_vars, RemoveFile
    PROVE  FilePlaced'
  <1> USE DEF IInv
  <1>1. job.at = "remove" /\ UNCHANGED <<rows, ops>> /\ CommandSteps
    BY DEF RemoveFile, At, CommandSteps
  <1>2. SUFFICES ASSUME NEW n \in Notes \ Parted'
                 PROVE  Placed(n)'
    BY DEF FilePlaced, Notes
  <1>3. n \in Notes \ Parted
    BY PartedGrows DEF Parted
  <1>4. job.note \in Notes /\ rows[job.note] = None /\ \A m \in job.todo : rows[m] # None /\ m # job.note
    BY <1>1 DEF JobFits, DeletionFits, Deletion, Trashed
  <1>5. \/ job'.note = None
        \/ \E m \in job.todo : job'.note = m /\ job'.at = "stage" /\ job'.from = rows[m].path
    <2>1. ASSUME NEW m \in job.todo,
                 job' = [Resting EXCEPT !.at = "stage", !.note = m, !.from = rows[m].path,
                                        !.to = StagingPlace(m, rows[m].origin), !.todo = job.todo \ {m}]
          PROVE  job'.note = m /\ job'.at = "stage" /\ job'.from = rows[m].path
      BY <2>1 DEF Resting
    <2> QED BY <2>1, Goes DEF RemoveFile
  <1>6. CASE n = job.note
    <2>1. ops[n] = None
      BY <1>4, <1>6 DEF RowsApart
    <2>2. job'.note # n
      BY <1>3, <1>4, <1>5, <1>6, NoneApart
    <2> QED BY <1>1, <1>4, <1>6, <2>1, <2>2 DEF Placed
  <1>7. CASE n # job.note /\ n # job'.note
    BY <1>1, <1>3, <1>7, OthersInCommand
  <1>8. CASE n # job.note /\ n = job'.note
    <2>1. rows[n] # None /\ job'.at = "stage" /\ job'.from = rows[n].path
      BY <1>3, <1>4, <1>5, <1>8, NoneApart
    <2>2. HasFile(rows[n].path, n) /\ disk'[rows[n].path] = disk[rows[n].path]
      BY <1>1, <1>3, <1>8, <2>1, RowPlaced, OthersUntouched DEF RecoverSteps
    <2>3. FileInCommand(n)'
      BY <2>1, <2>2 DEF FileInCommand, HasFile, RecoverSteps
    <2> QED BY <1>8, <2>3 DEF Placed
  <1> QED BY <1>6, <1>7, <1>8

LEMMA CommandStepPlaced ==
    ASSUME IInv, [Next]_vars, CommandSteps
    PROVE  FilePlaced'
  <1> USE DEF IInv
  <1>1. CASE RemoveFile
    BY <1>1, RemovePlaced
  <1>2. CASE ~RemoveFile
    <2>1. SUFFICES ASSUME NEW n \in Notes \ Parted'
                   PROVE  Placed(n)'
      BY DEF FilePlaced, Notes
    <2>2. n \in Notes \ (Parted \cup cut')
      BY PartedGrows DEF Parted
    <2>3. CASE n = job.note
      BY <1>2, <2>2, <2>3, OwnPlain, OwnRename DEF CommandSteps
    <2>4. CASE n # job.note
      <3>1. Fail \/ Succeed \/ \E step : Goto(step)
        <4>1. CASE CreateRow \/ MoveRow \/ TrashRow \/ RestoreFile \/ RestoreRow \/ PutBack \/ StageFile \/ DeleteRow
          BY <4>1 DEF CreateRow, MoveRow, TrashRow, RestoreFile, RestoreRow, PutBack, StageFile, DeleteRow
        <4>2. CASE RenameHop \/ RenameHopped \/ RenameUnhop \/ RenameMove \/ RenameMark \/ RenameCommit
                   \/ RenameFinish \/ RenameUndo \/ RenameUndoHop \/ RenameUndoHopped
                   \/ RenameUndoUnhop \/ RenameRolledBack
          BY <4>2 DEF RenameHop, RenameHopped, RenameUnhop, RenameMove, RenameMark, RenameCommit, RenameFinish,
                      RenameUndo, RenameUndoHop, RenameUndoHopped, RenameUndoUnhop, RenameRolledBack
        <4> QED BY <1>2, <4>1, <4>2 DEF CommandSteps
      <3>2. job'.note \in {None, job.note}
        BY <3>1, Goes
      <3> QED BY <2>2, <2>4, <3>2, NoneApart, OthersInCommand
    <2> QED BY <2>3, <2>4
  <1> QED BY <1>1, <1>2

LEMMA FilePlacedStep ==
    ASSUME IInv, [Next]_vars
    PROVE  FilePlaced'
  <1>1. CASE IndexWorkspace \/ IndexBatch \/ IndexConfirm \/ Reconcile
    <2>1. UNCHANGED <<disk, rows, ops>> /\ job.at \in {"index", "idle", "read"}
      BY <1>1 DEF IndexWorkspace, IndexBatch, IndexConfirm, Reconcile, At
    <2>2. job.note = None
      BY <2>1 DEF IInv, JobFits, RestFits, CommandStates, RecoverSteps, RenameSteps, Deletion
    <2>3. (\E step : Goto(step)) \/ Rest \/ job' = [Resting EXCEPT !.at = "read"]
      BY <1>1 DEF IndexWorkspace, IndexBatch, IndexConfirm, Begin, Reconcile
    <2>4. job'.note = None
      BY <2>2, <2>3, Goes DEF IInv, Resting
    <2> QED BY <2>1, <2>2, <2>4, IndexPlaced
  <1>2. CASE ReadFile \/ Registered \/ UNCHANGED vars
    BY <1>2, IndexPlaced DEF ReadFile, Registered, vars, storeVars
  <1>3. CASE Dies
    <2>1. /\ UNCHANGED <<disk, rows, ops>> /\ job'.note = None
          /\ cut' = IF job.at \in Unjournaled \cup Hopping THEN cut \cup InHand ELSE cut
      BY <1>3 DEF Dies, Crash, Resting
    <2> QED BY <2>1, DroppedPlaced
  <1>4. CASE Relocate \/ ApplyScan
    BY <1>4, RowScanPlaced
  <1>5. CASE OutsideCreate \/ OutsideEdit \/ OutsideRename \/ OutsideDelete
    BY <1>5, OutsidePlaced
  <1> QED BY <1>1, <1>2, <1>3, <1>4, <1>5, CommandPlaced, CommandStepPlaced, RecoveryPlaced DEF Next, Worker

(***************************************************************************)
(* WayBackIsFree and HiddenFilesKnown.                                     *)
(***************************************************************************)

\* Of the workspace's state only files inside it change when another program acts.
LEMMA OutsideActs ==
    ASSUME IInv, OutsideCreate \/ OutsideEdit \/ OutsideRename \/ OutsideDelete
    PROVE  /\ UNCHANGED <<rows, ops, job>> /\ outside' # 0 /\ nextNote' >= nextNote
           /\ \A q \in Places \ Paths : disk'[q] = disk[q]
  <1>1. UNCHANGED <<rows, ops, job>> /\ outside' = outside + 1
    BY DEF OutsideCreate, OutsideEdit, OutsideRename, OutsideDelete, Interferes
  <1>2. outside \in 0..MaxOutside /\ nextNote \in 1..(MaxNotes + 1)
    BY DEF IInv, TypeOK
  <1>3. nextNote' \in {nextNote, nextNote + 1}
    BY DEF OutsideCreate, OutsideEdit, OutsideRename, OutsideDelete
  <1>4. \A q \in Places \ Paths : disk'[q] = disk[q]
    BY StepTypes DEF IInv, OutsideCreate, OutsideEdit, OutsideRename, OutsideDelete, MoveFile, Replace
  <1> QED BY <1>1, <1>2, <1>3, <1>4, StoreAssumption

\* Nothing is held that has a way back.
LEMMA NoWayBack ==
    ASSUME job'.at \notin {"trashed", "restored", "staged", "putback", "restore", "remove"}
    PROVE  WayBackIsFree'
  BY DEF WayBackIsFree

LEMMA CommandStepWayBack ==
    ASSUME IInv, CommandSteps, UNCHANGED indexVars
    PROVE  WayBackIsFree'
  <1> USE DEF IInv
  <1>1. CASE CreateRow \/ MoveRow \/ PutBack \/ RemoveFile \/ RenameFinish \/ RenameRolledBack
    <2>1. Fail \/ Succeed \/ job'.at = "stage"
      BY <1>1 DEF CreateRow, MoveRow, PutBack, RemoveFile, RenameFinish, RenameRolledBack, Resting
    <2> QED BY <2>1, Goes, NoWayBack
  <1>2. CASE RenameHop \/ RenameHopped \/ RenameUnhop \/ RenameMove \/ RenameMark \/ RenameCommit
             \/ RenameUndo \/ RenameUndoHop \/ RenameUndoHopped \/ RenameUndoUnhop
    <2>1. Fail \/ \E step \in RenameSteps : Goto(step)
      BY <1>2 DEF RenameHop, RenameHopped, RenameUnhop, RenameMove, RenameMark, RenameCommit, RenameUndo,
                  RenameUndoHop, RenameUndoHopped, RenameUndoUnhop, RenameSteps, WayBack
    <2> QED BY <2>1, Goes, NoWayBack DEF RenameSteps
  <1>3. CASE TrashRow \/ RestoreRow
    <2>1. /\ job.at \in {"trashed", "restored"} /\ UNCHANGED <<disk, outside>>
          /\ Succeed \/ Goto("putback")
      BY <1>3 DEF TrashRow, RestoreRow, At, Unmoved, indexVars
    <2> QED BY <2>1, Goes, NoWayBack DEF WayBackIsFree
  <1>4. CASE DeleteRow
    <2>1. job.at = "staged" /\ UNCHANGED <<disk, outside, nextNote>> /\ (Goto("remove") \/ Goto("putback"))
      BY <1>4 DEF DeleteRow, At, Unmoved, indexVars
    <2>2. job.note < nextNote
      BY <2>1 DEF JobFits, DeletionFits, Deletion, RowsApart, Trashed
    <2> QED BY <2>1, <2>2, Goes DEF WayBackIsFree
  <1>5. CASE RestoreFile \/ StageFile
    <2>1. /\ job.at \in {"restore", "stage"}
          /\ Fail \/ (Replace(job.from, job.to) /\ (Goto("restored") \/ Goto("staged")))
      BY <1>5 DEF RestoreFile, StageFile, At
    <2>2. job.from \in Places /\ job.to \in Places /\ job.from # job.to
      BY <2>1, InCommand, FromIsNotTo DEF CommandStates, Deletion
    <2>3. CASE Fail
      BY <2>3, Goes, NoWayBack
    <2>4. CASE Replace(job.from, job.to) /\ (Goto("restored") \/ Goto("staged"))
      <3>1. disk'[job.from] = None
        BY <2>2, <2>4, Replaced
      <3> QED BY <2>4, <3>1, Goes DEF WayBackIsFree
    <2> QED BY <2>1, <2>3, <2>4
  <1> QED BY <1>1, <1>2, <1>3, <1>4, <1>5 DEF CommandSteps

LEMMA CommandWayBack ==
    ASSUME IInv, Commands
    PROVE  WayBackIsFree'
  <1> USE DEF IInv
  <1>1. CASE CreateFile \/ EmptyTrash \/ Reindex
    <2>1. job'.at \in {"create", "stage", "index"}
      BY <1>1, Goes, RequestGoes DEF CreateFile, EmptyTrash, Reindex, Resting
    <2> QED BY <2>1, NoWayBack
  <1>2. ASSUME NEW n \in Notes, Trash(n)
        PROVE  WayBackIsFree'
    <2>1. job'.at = "trashed" /\ job'.from = rows[n].path
      BY <1>2, RequestGoes DEF Trash
    <2>2. rows[n].path \in Paths
      BY <1>2 DEF Trash, RowsApart, Active
    <2>3. disk'[rows[n].path] = None
      <3>1. Replace(rows[n].path, TrashPlace(n, rows[n].path))
        BY <1>2 DEF Trash
      <3> QED BY <2>2, <3>1, HiddenPlaces, Replaced DEF Places
    <2> QED BY <2>1, <2>3 DEF WayBackIsFree
  <1>3. ASSUME NEW n \in Notes, Delete(n)
        PROVE  WayBackIsFree'
    BY <1>3, RequestGoes, NoWayBack DEF Delete
  <1>4. ASSUME NEW n \in Notes, NEW target \in Paths, Rename(n, target) \/ Move(n, target)
        PROVE  WayBackIsFree'
    <2>1. \E step \in {"hop", "move", "moved"} : Request(step, n, rows[n].path, target)
      BY <1>4 DEF Rename, Move
    <2> QED BY <2>1, RequestGoes, NoWayBack
  <1>5. ASSUME NEW n \in Notes, NEW target \in Paths, Restore(n, target)
        PROVE  WayBackIsFree'
    <2>1. job'.at = "restore" /\ job'.to = target /\ disk[target] = None /\ UNCHANGED disk
      BY <1>5, RequestGoes DEF Restore, Unmoved
    <2> QED BY <2>1 DEF WayBackIsFree
  <1> QED BY <1>1, <1>2, <1>3, <1>4, <1>5 DEF Commands

\* What the recovery does to the worker, and what it leaves alone.
LEMMA RecoveryGoes ==
    ASSUME TypeOK, Recovery
    PROVE  /\ UNCHANGED <<rows, nextNote>>
           /\ job.at \in {"down", "refused", "recovering"} \cup RecoverSteps
           /\ job'.at \in {"refused", "recovering", "index"} \cup RecoverSteps
  <1>1. CASE Start \/ Recovered
    BY <1>1, Goes DEF Start, Recovered, At, Resting
  <1>2. CASE RecoverHopped \/ RecoverUnhop
    BY <1>2, Goes DEF RecoverHopped, RecoverUnhop, At, Resting, RecoverSteps
  <1>3. ASSUME NEW n \in Notes, RecoverMoveBack(n) \/ RecoverHop(n) \/ RecoverRecord(n) \/ Refuse(n)
        PROVE  /\ UNCHANGED <<rows, nextNote>> /\ job.at = "recovering"
               /\ job'.at \in {"refused", "recovering", "rehopped"}
    BY <1>3 DEF TypeOK, Jobs, RecoverMoveBack, RecoverHop, MovesBack, RecoverRecord, Refuse, Recovering, At,
                Resting
  <1> QED BY <1>1, <1>2, <1>3 DEF Recovery, RecoverSteps

LEMMA WayBackStep ==
    ASSUME IInv, [Next]_vars
    PROVE  WayBackIsFree'
  <1> USE DEF IInv
  <1>1. CASE Recovery
    BY <1>1, RecoveryGoes, NoWayBack DEF RecoverSteps
  <1>2. CASE IndexWorkspace \/ IndexBatch \/ IndexConfirm \/ Reconcile \/ Relocate \/ ApplyScan \/ Dies
    <2>1. Rest \/ Goto("relocate") \/ job'.at \in {"read", "down"} \/ (UNCHANGED job /\ job.at = "relocate")
      BY <1>2 DEF IndexWorkspace, IndexBatch, IndexConfirm, Begin, Reconcile, Relocate, ApplyScan, Dies, Crash,
                  Resting, At
    <2> QED BY <2>1, Goes, NoWayBack
  <1>3. CASE ReadFile \/ Registered \/ UNCHANGED vars
    BY <1>3 DEF ReadFile, Registered, vars, storeVars, indexVars, WayBackIsFree
  <1>4. CASE OutsideCreate \/ OutsideEdit \/ OutsideRename \/ OutsideDelete
    <2>1. UNCHANGED job /\ outside' # 0 /\ nextNote' >= nextNote /\ \A q \in Places \ Paths : disk'[q] = disk[q]
      BY <1>4, OutsideActs
    <2>2. job.at \in {"trashed", "restored", "staged", "putback"} => job.from \in Places
      BY InCommand DEF CommandStates, Deletion
    <2>3. job.at = "remove" => job.note \in Notes /\ job.note < nextNote
      BY DEF WayBackIsFree, JobFits, DeletionFits, Deletion
    <2>4. nextNote \in Int /\ nextNote' \in Int
      <3>1. nextNote' \in {nextNote, nextNote + 1} /\ nextNote \in 1..(MaxNotes + 1)
        BY <1>4 DEF OutsideCreate, OutsideEdit, OutsideRename, OutsideDelete, TypeOK
      <3> QED BY <3>1
    <2> QED BY <2>1, <2>2, <2>3, <2>4 DEF WayBackIsFree, Notes
  <1> QED BY <1>1, <1>2, <1>3, <1>4, CommandStepWayBack, CommandWayBack DEF Next, Worker

\* The places below .notora where a file may be expected.
Known(q) ==
    \/ \E n \in Notes : rows[n] # None /\ rows[n].path = q
    \/ job.at \in Hopping /\ q = HopPlace(job.note)
    \/ job.at \in {"trashed", "putback", "staged", "remove"} /\ q = job.to
    \/ LeftOver(q)

LEMMA KnownNext == HiddenFilesKnown' <=> \A q \in Places \ Paths : disk'[q] # None /\ disk'[q].doc \notin cut' => Known(q)'
  BY DEF HiddenFilesKnown, Known, Places, Hidden

\* A row of the trash stays as long as its file does.
LEMMA TrashRowKept ==
    ASSUME IInv, [Next]_vars, NEW n \in Notes, rows[n] # None, rows[n].path \in Places \ Paths,
           disk[rows[n].path] # None
    PROVE  rows'[n] # None /\ rows'[n].path = rows[n].path
  <1> USE DEF IInv
  <1>1. Trashed(n)
    BY StepTypes DEF RowsApart, Trashed, Rows
  <1>2. CASE UNCHANGED rows
    BY <1>2
  <1>3. CASE CommandSteps /\ n # job.note
    BY <1>3, TouchedPlaces
  <1>4. CASE CommandSteps /\ n = job.note
    <2>1. CASE RestoreRow \/ DeleteRow
      <3>1. job.at \in {"restored", "staged"} /\ job.from = rows[n].path
        BY <1>4, <2>1 DEF RestoreRow, DeleteRow, At, JobFits, TrashFits, DeletionFits, Deletion
      <3> QED BY <3>1 DEF WayBackIsFree
    <2>2. CASE CreateRow \/ MoveRow \/ TrashRow \/ RenameCommit
      BY <1>1, <1>4, <2>2 DEF CreateRow, MoveRow, TrashRow, RenameCommit, At, JobFits, CreateFits, MoveFits,
                              TrashFits, RenameFits, RenameSteps, Trashed, Active
    <2>3. CASE UNCHANGED rows
      BY <2>3
    <2> QED BY <1>4, <2>1, <2>2, <2>3 DEF CommandSteps, RestoreFile, PutBack, StageFile, RemoveFile, RenameHop,
                                          RenameHopped, RenameUnhop, RenameMove, RenameMark, RenameFinish,
                                          RenameUndo, RenameUndoHop, RenameUndoHopped, RenameUndoUnhop,
                                          RenameRolledBack
  <1>5. CASE Relocate
    BY <1>1, <1>5, StepTypes DEF Relocate, ScanSound, At, Trashed, Active
  <1>6. CASE ApplyScan /\ ~UNCHANGED rows
    <2>1. rows'[n] = RowAfter(n) /\ job.at = "relocate"
      BY <1>6 DEF ApplyScan, At
    <2>2. n \notin NewIds
      <3>1. ASSUME NEW p \in scan.added
            PROVE  NewId(p) # n
        <4>1. NewId(p) >= nextNote
          BY <3>1, NewIdRange
        <4> QED BY <4>1, StoreAssumption DEF RowsApart, TypeOK, Notes
      <3> QED BY <3>1 DEF NewIds
    <2>3. n \notin scan.missing /\ n \notin Affected
      BY <1>1, <2>1 DEF ScanSound, Trashed, Active, Affected
    <2> QED BY <2>1, <2>2, <2>3 DEF RowAfter
  <1>7. CASE Commands \/ Recovery \/ IndexWorkspace \/ IndexBatch \/ IndexConfirm \/ ReadFile \/ Reconcile
             \/ Registered \/ Dies \/ UNCHANGED vars
    <2>1. UNCHANGED rows
      <3>1. CASE Commands
        BY <3>1 DEF Commands, CreateFile, EmptyTrash, Reindex, Trash, Delete, Rename, Move, Restore
      <3>2. CASE Recovery
        BY <3>2 DEF Recovery, Start, Recovered, RecoverHopped, RecoverUnhop, MovesBack, RecoverMoveBack,
                    RecoverHop, RecoverRecord, Refuse
      <3> QED BY <1>7, <3>1, <3>2 DEF IndexWorkspace, IndexBatch, IndexConfirm, ReadFile, Reconcile, Registered,
                                      Dies, Crash, vars, storeVars
    <2> QED BY <1>2, <2>1
  <1>8. CASE OutsideCreate \/ OutsideEdit \/ OutsideRename \/ OutsideDelete
    BY <1>2, <1>8, OutsideActs
  <1> QED BY <1>2, <1>3, <1>4, <1>5, <1>6, <1>7, <1>8 DEF Next, Worker

\* What is left of a deleted note stays that: its identity is not given again.
LEMMA LeftOverKept ==
    ASSUME IInv, [Next]_vars, NEW q, LeftOver(q)
    PROVE  LeftOver(q)'
  <1> USE DEF IInv
  <1>1. PICK n \in Notes, p \in Paths : /\ q = StagingPlace(n, p) /\ rows[n] = None /\ n < nextNote
                                        /\ At("create") => job.note # n
    BY DEF LeftOver
  <1>2. nextNote \in Int /\ n \in Int
    BY DEF TypeOK, Notes
  <1>3. SUFFICES rows'[n] = None /\ n < nextNote' /\ (At("create")' => job'.note # n)
    BY <1>1 DEF LeftOver, StagingPlace
  <1>4. CASE CommandSteps
    <2>1. UNCHANGED nextNote /\ (Fail \/ Succeed \/ job'.at = "stage" \/ \E step : step # "create" /\ Goto(step))
      <3>1. CASE CreateRow \/ MoveRow \/ TrashRow \/ RestoreFile \/ RestoreRow \/ PutBack \/ StageFile \/ DeleteRow
                 \/ RemoveFile
        BY <3>1 DEF CreateRow, MoveRow, TrashRow, RestoreFile, RestoreRow, PutBack, StageFile, DeleteRow,
                    RemoveFile, Resting
      <3>2. CASE RenameHop \/ RenameHopped \/ RenameUnhop \/ RenameMove \/ RenameMark \/ RenameCommit
                 \/ RenameFinish \/ RenameUndo \/ RenameUndoHop \/ RenameUndoHopped
                 \/ RenameUndoUnhop \/ RenameRolledBack
        BY <3>2 DEF RenameHop, RenameHopped, RenameUnhop, RenameMove, RenameMark, RenameCommit, RenameFinish,
                    RenameUndo, RenameUndoHop, RenameUndoHopped, RenameUndoUnhop, RenameRolledBack, WayBack
      <3> QED BY <1>4, <3>1, <3>2 DEF CommandSteps
    <2>2. job'.at # "create"
      BY <2>1, Goes
    <2>3. CASE n # job.note
      BY <1>1, <1>4, <2>1, <2>2, <2>3, TouchedPlaces DEF At
    <2>4. CASE n = job.note
      <3>1. job.at \in {"remove", "create"}
        BY <1>1, <1>4, <2>4, TouchedPlaces DEF JobFits, RenameFits, MoveFits, TrashFits, DeletionFits,
                                               PutBackFits, RenameSteps, Deletion, CommandStates, Trashed,
                                               Active
      <3>2. job.at = "remove" /\ RemoveFile
        BY <1>1, <1>4, <2>4, <3>1 DEF At, CommandSteps, CreateRow, MoveRow, TrashRow, RestoreFile, RestoreRow,
                                      PutBack, StageFile, DeleteRow, RenameHop, RenameHopped, RenameUnhop,
                                      RenameMove, RenameMark, RenameCommit, RenameFinish, RenameUndo,
                                      RenameUndoHop, RenameUndoHopped, RenameUndoUnhop, RenameRolledBack
      <3> QED BY <1>1, <2>1, <2>2, <3>2 DEF RemoveFile, At
    <2> QED BY <2>3, <2>4
  <1>5. CASE Commands
    <2>1. UNCHANGED rows /\ (UNCHANGED nextNote \/ (nextNote' = nextNote + 1 /\ CreateFile))
      BY <1>5 DEF Commands, CreateFile, EmptyTrash, Reindex, Trash, Delete, Rename, Move, Restore
    <2>2. job'.at = "create" => job'.note = nextNote
      <3>1. CASE CreateFile
        BY <3>1, RequestGoes DEF CreateFile
      <3>2. CASE EmptyTrash \/ Reindex
        <4>1. job'.at \in {"stage", "index"}
          BY <3>2, Goes DEF EmptyTrash, Reindex, Resting
        <4> QED BY <4>1
      <3>3. CASE \E k \in Notes : Trash(k) \/ Delete(k)
        BY <3>3, RequestGoes DEF Trash, Delete
      <3>4. CASE \E k \in Notes, target \in Paths : Rename(k, target) \/ Move(k, target) \/ Restore(k, target)
        <4>1. \E step \in {"hop", "move", "moved", "restore"} : \E k, from, to : Request(step, k, from, to)
          BY <3>4 DEF Rename, Move, Restore
        <4> QED BY <4>1, RequestGoes
      <3> QED BY <1>5, <3>1, <3>2, <3>3, <3>4 DEF Commands
    <2> QED BY <1>1, <1>2, <2>1, <2>2 DEF At
  <1>6. CASE Recovery
    BY <1>1, <1>6, RecoveryGoes DEF At, RecoverSteps
  <1>7. CASE Relocate \/ ApplyScan
    <2>1. job.at = "relocate" /\ job'.at \in {"relocate", "idle"}
      BY <1>7, Goes DEF Relocate, ApplyScan, At
    <2>2. CASE Relocate
      BY <1>1, <2>1, <2>2, StepTypes DEF Relocate, ScanSound, Active, At
    <2>3. CASE ApplyScan
      <3>1. nextNote' >= nextNote /\ nextNote' \in Int
        <4>1. Cardinality(scan.added) \in Nat
          BY NewIdRange
        <4> QED BY <1>2, <2>3, <4>1 DEF ApplyScan
      <3>2. rows'[n] = None
        <4>1. CASE RowAfter(n) = None
          BY <1>1, <2>3, <4>1 DEF ApplyScan
        <4>2. CASE RowAfter(n) # None
          <5>1. n \in NewIds
            BY <1>1, <2>1, <4>2, RowsAfterScan DEF At
          <5>2. n >= nextNote
            BY <5>1, NewIdRange DEF NewIds
          <5> QED BY <1>1, <1>2, <5>2
        <4> QED BY <4>1, <4>2
      <3> QED BY <1>1, <1>2, <2>1, <3>1, <3>2 DEF At
    <2> QED BY <1>7, <2>2, <2>3
  <1>8. CASE IndexWorkspace \/ IndexBatch \/ IndexConfirm \/ Reconcile \/ Dies
    <2>1. UNCHANGED <<rows, nextNote>> /\ (Rest \/ Goto("relocate") \/ job'.at \in {"read", "down"})
      BY <1>8 DEF IndexWorkspace, IndexBatch, IndexConfirm, Begin, Reconcile, Dies, Crash, Resting
    <2> QED BY <1>1, <2>1, Goes DEF At
  <1>9. CASE ReadFile \/ Registered \/ UNCHANGED vars
    BY <1>1, <1>9 DEF ReadFile, Registered, vars, storeVars, At
  <1>10. CASE OutsideCreate \/ OutsideEdit \/ OutsideRename \/ OutsideDelete
    <2>1. UNCHANGED <<rows, job>> /\ nextNote' \in {nextNote, nextNote + 1}
      BY <1>10 DEF OutsideCreate, OutsideEdit, OutsideRename, OutsideDelete, Interferes
    <2> QED BY <1>1, <1>2, <2>1 DEF At
  <1> QED BY <1>4, <1>5, <1>6, <1>7, <1>8, <1>9, <1>10 DEF Next, Worker

\* The file a command has below .notora arrives, is taken back, or is left to be found.
LEMMA InHandKept ==
    ASSUME IInv, [Next]_vars, NEW q \in Places \ Paths, disk[q] # None,
           \/ job.at \in Hopping /\ q = HopPlace(job.note)
           \/ job.at \in {"trashed", "putback", "staged", "remove"} /\ q = job.to,
           disk'[q] = disk[q], disk[q].doc \notin cut'
    PROVE  Known(q)'
  <1> USE DEF IInv
  <1>0. job.at \notin RecoverSteps =>
           /\ job.at \in CommandStates /\ job.note \in Notes /\ job.to \in Places
           /\ job.at # "remove" => job.from \in Places
    <2>1. job.at \notin RecoverSteps => job.at \in CommandStates \ {"create"}
      BY DEF CommandStates, RenameSteps, RecoverSteps, Deletion, Hopping
    <2> QED BY <2>1, InCommand
  <1>14. job.at \in {"trashed", "putback", "staged", "remove"} => q = job.to
    BY DEF Hopping
  <1>1. disk[q].doc \in InHand
    <2>1. q \in {job.from, job.to, HopPlace(job.note)} \cap Places /\ disk[q] # None
      OBVIOUS
    <2> QED BY <2>1 DEF InHand
  <1>2. UNCHANGED job => Known(q)'
    BY DEF Known, HopPlace
  <1>3. ASSUME job.at = "remove", UNCHANGED rows, nextNote' >= nextNote, nextNote' \in Int, job'.at # "create"
        PROVE  Known(q)'
    <2>1. PICK p \in Paths : job.to = StagingPlace(job.note, p) /\ rows[job.note] = None
      BY <1>3 DEF JobFits, DeletionFits, Deletion
    <2>2. job.note < nextNote /\ nextNote \in Int
      BY <1>3 DEF WayBackIsFree, TypeOK
    <2>3. q = StagingPlace(job.note, p)
      BY <1>3, <2>1, <1>14
    <2>4. PICK n \in Notes : n = job.note
      BY <1>3 DEF JobFits, DeletionFits, Deletion
    <2>5. q = StagingPlace(n, p) /\ rows'[n] = None /\ n < nextNote'
      BY <1>3, <2>1, <2>2, <2>3, <2>4 DEF Notes
    <2>6. LeftOver(q)'
      BY <1>3, <2>5 DEF LeftOver, At, StagingPlace
    <2> QED BY <2>6 DEF Known
  <1>4. nextNote \in Int
    BY DEF TypeOK
  <1>5. CASE CommandSteps
    <2>0. job.at \in CommandStates /\ job.note \in Notes /\ job.to \in Places /\ job.at \notin RecoverSteps
      BY <1>5, TouchedPlaces, InCommand DEF CommandStates, RenameSteps, Deletion, RecoverSteps
    <2>1. CASE RenameHopped \/ RenameUndoHopped
      <3>1. /\ job.at \in {"hopped", "undohopped"}
            /\ \/ \E to \in {job.from, job.to} : Replace(HopPlace(job.note), to)
               \/ Goto("unhop") \/ Goto("undounhop")
        BY <2>1 DEF RenameHopped, RenameUndoHopped, At, MoveFile
      <3>2. ASSUME NEW to \in {job.from, job.to}, Replace(HopPlace(job.note), to)
            PROVE  Known(q)'
        <4>1. HopPlace(job.note) # to /\ HopPlace(job.note) \in Places /\ to \in Places
          BY <2>0, <3>1, HiddenPlaces DEF JobFits, RenameFits, RenameSteps, Places
        <4> QED BY <3>1, <3>2, <4>1, Replaced
      <3>3. CASE Goto("unhop") \/ Goto("undounhop")
        <4>1. job'.at \in {"unhop", "undounhop"} /\ job'.note = job.note
          BY <3>3, Goes
        <4> QED BY <3>1, <4>1 DEF Known, HopPlace, Hopping
      <3> QED BY <3>1, <3>2, <3>3
    <2>2. CASE RenameUnhop \/ RenameUndoUnhop
      <3>1. /\ job.at \in {"unhop", "undounhop"}
            /\ (\E to \in {job.from, job.to} : Replace(HopPlace(job.note), to)) \/ InHand \subseteq cut'
        BY <2>2 DEF RenameUnhop, RenameUndoUnhop, At, MoveFile
      <3>2. ASSUME NEW to \in {job.from, job.to}, Replace(HopPlace(job.note), to)
            PROVE  Known(q)'
        <4>1. HopPlace(job.note) # to /\ HopPlace(job.note) \in Places /\ to \in Places
          BY <2>0, <3>1, HiddenPlaces DEF JobFits, RenameFits, RenameSteps, Places
        <4> QED BY <3>1, <3>2, <4>1, Replaced
      <3> QED BY <1>1, <3>1, <3>2
    <2>3. CASE TrashRow
      <3>1. job.at = "trashed" /\ rows[job.note] \in Rows
        BY <2>3, StepTypes DEF TrashRow, At, JobFits, TrashFits, Active
      <3>2. CASE Goto("putback")
        BY <1>14, <3>1, <3>2, Goes DEF Known
      <3>3. CASE rows' = [rows EXCEPT ![job.note] = [@ EXCEPT !.life = "trashed", !.path = job.to, !.origin = job.from]]
        <4>1. rows'[job.note] = [rows[job.note] EXCEPT !.life = "trashed", !.path = job.to, !.origin = job.from]
          BY <2>0, <3>3, StepTypes
        <4>2. [rows[job.note] EXCEPT !.life = "trashed", !.path = job.to, !.origin = job.from] \in Rows
          BY <2>0, <3>1, StepTypes DEF Rows, JobFits, TrashFits, RowsApart, Active
        <4>3. rows'[job.note].path = job.to /\ rows'[job.note] # None
          BY <3>1, <4>1, <4>2, NoneApart DEF Rows
        <4> QED BY <1>14, <2>0, <3>1, <4>3 DEF Known
      <3> QED BY <2>3, <3>2, <3>3 DEF TrashRow
    <2>4. CASE PutBack
      <3>1. job.at = "putback" /\ (Replace(job.to, job.from) \/ InHand \subseteq cut')
        BY <2>4 DEF PutBack, At
      <3> QED BY <1>0, <1>1, <1>14, <2>0, <3>1, FromIsNotTo, Replaced
    <2>5. CASE DeleteRow
      <3>1. job.at = "staged" /\ (Goto("remove") \/ Goto("putback"))
        BY <2>5 DEF DeleteRow, At
      <3> QED BY <1>14, <3>1, Goes DEF Known
    <2>6. CASE RemoveFile
      <3>1. job.at = "remove" /\ UNCHANGED <<rows, nextNote>> /\ (disk' = [disk EXCEPT ![job.to] = None] \/ Fail)
        BY <2>6 DEF RemoveFile, At
      <3>2. CASE Fail
        BY <1>3, <1>4, <3>1, <3>2, Goes
      <3>3. CASE disk' = [disk EXCEPT ![job.to] = None]
        BY <1>14, <3>1, <3>3, StepTypes
      <3> QED BY <3>1, <3>2, <3>3
    <2>7. \/ RenameHopped \/ RenameUnhop \/ RenameUndoHopped \/ RenameUndoUnhop
          \/ TrashRow \/ PutBack \/ DeleteRow \/ RemoveFile
      BY <1>5 DEF CommandSteps, CreateRow, MoveRow, RestoreFile, RestoreRow, StageFile, RenameHop, RenameMove,
                  RenameMark, RenameCommit, RenameFinish, RenameUndo, RenameUndoHop, RenameRolledBack, At,
                  Hopping
    <2> QED BY <2>1, <2>2, <2>3, <2>4, <2>5, <2>6, <2>7
  <1>6. CASE Dies
    <2>1. /\ UNCHANGED <<rows, nextNote>> /\ job'.at = "down"
          /\ cut' = IF job.at \in Unjournaled \cup Hopping THEN cut \cup InHand ELSE cut
      BY <1>6 DEF Dies, Crash, Resting
    <2> QED BY <1>1, <1>3, <1>4, <2>1 DEF Unjournaled, Hopping
  <1>7. CASE ReadFile \/ Registered \/ UNCHANGED vars
    BY <1>2, <1>7 DEF ReadFile, Registered, vars, storeVars
  <1>8. CASE OutsideCreate \/ OutsideEdit \/ OutsideRename \/ OutsideDelete
    BY <1>2, <1>8, OutsideActs
  <1>9. CASE Commands
    BY <1>9, CommandsIdle DEF Hopping
  <1>10. CASE RecoverHopped \/ RecoverUnhop
    <2> DEFINE k   == job.note
               hop == HopPlace(k)
    <2>1. /\ job.at \in RecoverSteps /\ q = hop /\ k \in Notes /\ ops[k] # None
          /\ hop \in Places \ Paths /\ ops[k].source \in Paths /\ ops[k].target \in Paths
      BY <1>10, StepTypes, HiddenPlaces DEF RecoverHopped, RecoverUnhop, At, RecoverSteps, JobFits, RestFits
    <2>2. \/ \E p \in {ops[k].source, ops[k].target} : disk' = [disk EXCEPT ![p] = disk[hop], ![hop] = None]
          \/ Goto("reunhop") \/ InHand \subseteq cut'
      BY <1>10 DEF RecoverHopped, RecoverUnhop, MoveFile, Replace
    <2>3. \A p \in Paths : disk' # [disk EXCEPT ![p] = disk[hop], ![hop] = None]
      BY <2>1, StepTypes
    <2>4. CASE Goto("reunhop")
      BY <2>1, <2>4, Goes DEF Known, HopPlace, Hopping
    <2> QED BY <1>1, <2>1, <2>2, <2>3, <2>4
  <1>12. CASE Recovery /\ ~RecoverHopped /\ ~RecoverUnhop
    BY <1>12 DEF Recovery, Start, Recovered, RecoverMoveBack, RecoverHop, MovesBack, RecoverRecord, Refuse,
                 Recovering, At, Hopping
  <1>11. CASE IndexWorkspace \/ IndexBatch \/ IndexConfirm \/ Reconcile \/ Relocate \/ ApplyScan
    BY <1>11 DEF IndexWorkspace, IndexBatch, IndexConfirm, Reconcile, Relocate, ApplyScan, At, Hopping
  <1> QED BY <1>5, <1>6, <1>7, <1>8, <1>9, <1>10, <1>11, <1>12 DEF Next, Worker

\* A file comes below .notora in six ways.
LEMMA NewHidden ==
    ASSUME IInv, [Next]_vars, NEW q \in Places \ Paths, disk'[q] # None, disk'[q] # disk[q]
    PROVE  Known(q)'
  <1> USE DEF IInv
  <1>1. CASE Commands
    <2>1. CASE CreateFile
      BY <2>1, StepTypes DEF CreateFile
    <2>2. CASE EmptyTrash \/ Reindex \/ \E n \in Notes : Delete(n)
      BY <2>2 DEF EmptyTrash, Reindex, Delete, Unmoved
    <2>3. ASSUME NEW n \in Notes, Trash(n)
          PROVE  Known(q)'
      <3>1. job'.at = "trashed" /\ job'.to = TrashPlace(n, rows[n].path)
        BY <2>3, RequestGoes DEF Trash
      <3>2. Replace(rows[n].path, TrashPlace(n, rows[n].path)) /\ rows[n].path \in Paths
        BY <2>3 DEF Trash, RowsApart, Active
      <3>3. q = TrashPlace(n, rows[n].path)
        BY <3>2, StepTypes DEF Replace
      <3> QED BY <3>1, <3>3 DEF Known
    <2>4. ASSUME NEW n \in Notes, NEW target \in Paths, Rename(n, target) \/ Move(n, target) \/ Restore(n, target)
          PROVE  disk'[q] \in {None, disk[q]}
      BY <2>4, StepTypes DEF Rename, Move, Restore, Unmoved, MoveFile, Replace, Places
    <2> QED BY <1>1, <2>1, <2>2, <2>3, <2>4 DEF Commands
  <1>2. CASE CommandSteps
    <2>1. job.at \in CommandStates /\ job.note \in Notes /\ job.to \in Places
      BY <1>2, TouchedPlaces, InCommand
    <2>2. CASE CreateRow \/ RemoveFile
      BY <2>2, StepTypes DEF CreateRow, RemoveFile, Unmoved
    <2>3. CASE MoveRow \/ TrashRow \/ RestoreRow \/ DeleteRow \/ RenameMark \/ RenameCommit \/ RenameFinish
               \/ RenameRolledBack
      BY <2>3 DEF MoveRow, TrashRow, RestoreRow, DeleteRow, RenameMark, RenameCommit, RenameFinish,
                  RenameRolledBack, Unmoved
    <2>4. CASE RestoreFile
      <3>1. job.at = "restore" /\ (UNCHANGED disk \/ Replace(job.from, job.to))
        BY <2>4 DEF RestoreFile, At, Unmoved
      <3>2. job.to \in Paths
        BY <3>1 DEF JobFits, TrashFits
      <3> QED BY <3>1, <3>2, StepTypes DEF Replace
    <2>5. CASE StageFile
      <3>1. UNCHANGED disk \/ (Replace(job.from, job.to) /\ Goto("staged"))
        BY <2>5 DEF StageFile, At, Unmoved
      <3>2. q = job.to /\ Goto("staged")
        BY <3>1, StepTypes DEF Replace
      <3> QED BY <3>2, Goes DEF Known
    <2>6. CASE PutBack
      <3>1. job.at = "putback" /\ UNCHANGED rows /\ (UNCHANGED disk \/ Replace(job.to, job.from))
        BY <2>6 DEF PutBack, At, Unmoved
      <3>2. q = job.from
        BY <3>1, StepTypes DEF Replace
      <3>3. rows[job.note] # None /\ rows[job.note].path = job.from
        BY <3>1 DEF JobFits, PutBackFits
      <3> QED BY <2>1, <3>1, <3>2, <3>3 DEF Known
    <2>7. CASE RenameHop \/ RenameUndoHop
      <3>1. \/ UNCHANGED disk
            \/ (\E from : Replace(from, HopPlace(job.note))) /\ (Goto("hopped") \/ Goto("undohopped"))
        BY <2>7 DEF RenameHop, RenameUndoHop, Unmoved
      <3>2. q = HopPlace(job.note) /\ (Goto("hopped") \/ Goto("undohopped"))
        BY <3>1, StepTypes DEF Replace
      <3>3. job'.at \in {"hopped", "undohopped"} /\ job'.note = job.note
        BY <3>2, Goes
      <3> QED BY <3>2, <3>3 DEF Known, HopPlace, Hopping
    <2>8. CASE RenameHopped \/ RenameUnhop \/ RenameMove \/ RenameUndo \/ RenameUndoHopped \/ RenameUndoUnhop
      <3>1. job.from \in Paths /\ job.to \in Paths
        BY <2>8 DEF RenameHopped, RenameUnhop, RenameMove, RenameUndo, RenameUndoHopped, RenameUndoUnhop, At,
                    JobFits, RenameFits, RenameSteps
      <3>2. UNCHANGED disk \/ \E from : \E to \in Paths : Replace(from, to)
        BY <2>8, <3>1 DEF RenameHopped, RenameUnhop, RenameMove, RenameUndo, RenameUndoHopped, RenameUndoUnhop,
                          MoveFile, Unmoved
      <3> QED BY <3>2, StepTypes DEF Replace
    <2> QED BY <1>2, <2>2, <2>3, <2>4, <2>5, <2>6, <2>7, <2>8 DEF CommandSteps
  <1>3. CASE Recovery
    <2>1. ASSUME NEW n \in Notes, RecoverMoveBack(n)
          PROVE  disk'[q] \in {None, disk[q]}
      <3>1. ops[n].source \in Paths /\ Replace(ops[n].target, ops[n].source)
        BY <2>1, StepTypes DEF RecoverMoveBack, MovesBack, Recovering, MoveFile
      <3> QED BY <3>1, StepTypes DEF Replace
    <2>2. ASSUME NEW n \in Notes, RecoverHop(n)
          PROVE  Known(q)'
      <3>1. q = HopPlace(n)
        BY <2>2, StepTypes DEF RecoverHop, Replace
      <3>2. job'.at = "rehopped" /\ job'.note = n
        BY <2>2 DEF RecoverHop, TypeOK, Jobs
      <3> QED BY <3>1, <3>2 DEF Known, HopPlace, Hopping
    <2>3. CASE RecoverHopped \/ RecoverUnhop
      <3> DEFINE k == job.note
      <3>1. ops[k].source \in Paths /\ ops[k].target \in Paths
        BY <2>3, StepTypes DEF RecoverHopped, RecoverUnhop, At, RecoverSteps, JobFits, RestFits
      <3>2. \/ UNCHANGED disk
            \/ \E p \in {ops[k].source, ops[k].target} :
                  disk' = [disk EXCEPT ![p] = disk[HopPlace(k)], ![HopPlace(k)] = None]
        BY <2>3 DEF RecoverHopped, RecoverUnhop, MoveFile, Replace, Unmoved
      <3> QED BY <3>1, <3>2, StepTypes
    <2> QED BY <1>3, <2>1, <2>2, <2>3 DEF Recovery, Start, Recovered, RecoverRecord, Refuse
  <1>4. CASE IndexWorkspace \/ IndexBatch \/ IndexConfirm \/ ReadFile \/ Reconcile \/ Relocate \/ ApplyScan
             \/ Registered \/ Dies \/ UNCHANGED vars
    BY <1>4 DEF IndexWorkspace, IndexBatch, IndexConfirm, ReadFile, Reconcile, Relocate, ApplyScan, Registered,
                Dies, Crash, vars, storeVars
  <1>5. CASE OutsideCreate \/ OutsideEdit \/ OutsideRename \/ OutsideDelete
    BY <1>5, OutsideActs
  <1> QED BY <1>1, <1>2, <1>3, <1>4, <1>5 DEF Next, Worker

LEMMA HiddenStep ==
    ASSUME IInv, [Next]_vars
    PROVE  HiddenFilesKnown'
  <1> SUFFICES ASSUME NEW q \in Places \ Paths, disk'[q] # None, disk'[q].doc \notin cut'
               PROVE  Known(q)'
    BY KnownNext
  <1>1. CASE disk'[q] # disk[q]
    BY <1>1, NewHidden
  <1>2. CASE disk'[q] = disk[q]
    <2>1. Known(q)
      BY <1>2, PartedGrows DEF IInv, HiddenFilesKnown, Known
    <2>2. CASE \E n \in Notes : rows[n] # None /\ rows[n].path = q
      BY <1>2, <2>2, TrashRowKept DEF Known
    <2>3. CASE LeftOver(q)
      BY <2>3, LeftOverKept DEF Known
    <2> QED BY <1>2, <2>1, <2>2, <2>3, InHandKept DEF Known
  <1> QED BY <1>1, <1>2

(***************************************************************************)
(* RecoveryApart.                                                          *)
(***************************************************************************)

\* Only the recovery takes the worker where it moves a file by way of a third name.
LEMMA LeadsElsewhere ==
    ASSUME IInv, [Next]_vars, ~Recovery, job'.at \in RecoverSteps
    PROVE  UNCHANGED <<rows, ops, job>>
  <1> USE DEF IInv
  <1>1. CASE CommandSteps
    <2>1. Fail \/ Succeed \/ job'.at = "stage" \/ \E step \in CommandStates : Goto(step)
      <3>1. CASE CreateRow \/ MoveRow \/ TrashRow \/ RestoreFile \/ RestoreRow \/ PutBack \/ StageFile \/ DeleteRow
                 \/ RemoveFile
        BY <3>1 DEF CreateRow, MoveRow, TrashRow, RestoreFile, RestoreRow, PutBack, StageFile, DeleteRow,
                    RemoveFile, Resting, CommandStates, Deletion
      <3>2. CASE RenameHop \/ RenameHopped \/ RenameUnhop \/ RenameMove \/ RenameMark \/ RenameCommit
                 \/ RenameFinish \/ RenameUndo \/ RenameUndoHop \/ RenameUndoHopped
                 \/ RenameUndoUnhop \/ RenameRolledBack
        BY <3>2 DEF RenameHop, RenameHopped, RenameUnhop, RenameMove, RenameMark, RenameCommit, RenameFinish,
                    RenameUndo, RenameUndoHop, RenameUndoHopped, RenameUndoUnhop, RenameRolledBack, WayBack,
                    CommandStates, RenameSteps
      <3> QED BY <1>1, <3>1, <3>2 DEF CommandSteps
    <2> QED BY <2>1, Goes DEF RecoverSteps, CommandStates, RenameSteps, Deletion
  <1>2. CASE Commands
    <2>1. CASE CreateFile \/ EmptyTrash \/ Reindex
      <3>1. job'.at \in {"create", "stage", "index"}
        BY <2>1, Goes, RequestGoes DEF CreateFile, EmptyTrash, Reindex, Resting
      <3> QED BY <3>1 DEF RecoverSteps
    <2>2. CASE \E n \in Notes : Trash(n) \/ Delete(n)
      BY <2>2, RequestGoes DEF Trash, Delete, RecoverSteps
    <2>3. CASE \E n \in Notes, target \in Paths : Rename(n, target) \/ Move(n, target) \/ Restore(n, target)
      <3>1. \E step \in {"hop", "move", "moved", "restore"} : \E k, from, to : Request(step, k, from, to)
        BY <2>3 DEF Rename, Move, Restore
      <3> QED BY <3>1, RequestGoes DEF RecoverSteps
    <2> QED BY <1>2, <2>1, <2>2, <2>3 DEF Commands
  <1>3. CASE IndexWorkspace \/ IndexBatch \/ IndexConfirm \/ Reconcile \/ Relocate \/ ApplyScan \/ Dies
    <2>1. Rest \/ Goto("relocate") \/ job'.at \in {"read", "down"} \/ (UNCHANGED job /\ job.at = "relocate")
      BY <1>3 DEF IndexWorkspace, IndexBatch, IndexConfirm, Begin, Reconcile, Relocate, ApplyScan, Dies, Crash,
                  Resting, At
    <2> QED BY <2>1, Goes DEF RecoverSteps
  <1>4. CASE ReadFile \/ Registered \/ OutsideCreate \/ OutsideEdit \/ OutsideRename \/ OutsideDelete \/ UNCHANGED vars
    BY <1>4, OutsideActs DEF ReadFile, Registered, vars, storeVars
  <1> QED BY <1>1, <1>2, <1>3, <1>4 DEF Next, Worker

LEMMA RecoveryApartStep ==
    ASSUME IInv, [Next]_vars
    PROVE  RecoveryApart'
  <1> USE DEF IInv
  <1>1. SUFFICES ASSUME job'.at \in RecoverSteps
                 PROVE  \A m \in Notes \ Parted' : m # job'.note => Apart(m, job.note)'
    BY DEF RecoveryApart
  <1>2. Parted \subseteq Parted'
    BY PartedGrows DEF Parted
  <1>3. ASSUME job.at \in RecoverSteps, UNCHANGED <<rows, ops>>, job'.note = job.note
        PROVE  \A m \in Notes \ Parted' : m # job'.note => Apart(m, job.note)'
    BY <1>2, <1>3 DEF RecoveryApart, Apart
  <1>4. CASE ~Recovery
    BY <1>1, <1>3, <1>4, LeadsElsewhere
  <1>5. ASSUME NEW n \in Notes, RecoverHop(n)
        PROVE  \A m \in Notes \ Parted' : m # job'.note => Apart(m, job.note)'
    <2>1. job'.note = n /\ MovesBack(n) /\ UNCHANGED <<rows, ops>>
      BY <1>5, StepTypes DEF RecoverHop, MovesBack, TypeOK, Jobs
    <2>2. \A m \in Notes \ Parted' : m # n => Apart(m, n)
      BY <2>1, MovesBackApart
    <2> QED BY <2>1, <2>2 DEF Apart
  <1>6. CASE RecoverHopped \/ RecoverUnhop
    <2>1. RecoverHopped
      BY <1>1, <1>6 DEF RecoverUnhop, Resting, RecoverSteps
    <2>2. job.at \in RecoverSteps /\ UNCHANGED <<rows, ops>> /\ job'.note = job.note
      BY <2>1, Goes DEF RecoverHopped, At, RecoverSteps
    <2> QED BY <1>3, <2>2
  <1>7. CASE Start \/ Recovered \/ \E n \in Notes : RecoverMoveBack(n) \/ RecoverRecord(n) \/ Refuse(n)
    <2>1. job'.at \in {"recovering", "refused", "index"}
      BY <1>7, Goes, StepTypes DEF Start, Recovered, RecoverMoveBack, MovesBack, RecoverRecord, Refuse,
                                   Recovering, At, Resting, TypeOK, Jobs
    <2> QED BY <1>1, <2>1 DEF RecoverSteps
  <1> QED BY <1>4, <1>5, <1>6, <1>7 DEF Recovery

(***************************************************************************)
(* The workspace starts in order.                                          *)
(***************************************************************************)

LEMMA NotesCounted ==
    ASSUME NEW m \in DOMAIN Home
    PROVE  m < Cardinality(DOMAIN Home) + 1
  <1>1. IsFiniteSet(Notes)
    <2>1. 1 \in Int /\ MaxNotes \in Int
      BY StoreAssumption
    <2> QED BY <2>1, FS_Interval DEF Notes
  <1>2. IsFiniteSet(DOMAIN Home) /\ Cardinality(DOMAIN Home) \in Nat
    BY <1>1, FS_Subset, FS_CardinalityType, StoreAssumption
  <1>3. m \in Nat /\ 1 <= m /\ 1..m \subseteq DOMAIN Home
    BY StoreAssumption DEF Notes
  <1>4. Cardinality(1..m) = m
    BY <1>3, FS_Interval
  <1>5. Cardinality(1..m) <= Cardinality(DOMAIN Home)
    BY <1>2, <1>3, FS_Subset
  <1> QED BY <1>2, <1>3, <1>4, <1>5

LEMMA FirstRows ==
    ASSUME Init, NEW n \in Notes
    PROVE  \/ /\ n \in DOMAIN Home /\ rows[n] \in Rows
              /\ rows[n].life = "active" /\ rows[n].path = Home[n] /\ rows[n].path \in Paths
           \/ n \notin DOMAIN Home /\ rows[n] = None
  <1>1. rows = [k \in Notes |->
                 IF k \in DOMAIN Home
                 THEN [life |-> "active", path |-> Home[k], origin |-> Home[k],
                       hash |-> Content[k], missing |-> 0]
                 ELSE None]
    BY DEF Init, InitStore
  <1>2. CASE n \in DOMAIN Home
    <2>1. rows[n] = [life |-> "active", path |-> Home[n], origin |-> Home[n], hash |-> Content[n], missing |-> 0]
      BY <1>1, <1>2
    <2>2. Home[n] \in Paths /\ Content[n] \in Bodies
      BY <1>2, StoreAssumption
    <2> QED BY <1>2, <2>1, <2>2, NoneMissing DEF Rows, Places
  <1>3. CASE n \notin DOMAIN Home
    BY <1>1, <1>3
  <1> QED BY <1>2, <1>3

LEMMA FirstFiles ==
    ASSUME Init
    PROVE  /\ disk \in [Places -> Files \cup {None}]
           /\ \A n \in DOMAIN Home : disk[Home[n]] # None /\ disk[Home[n]].doc = n
  <1>1. disk = [p \in Places |->
                 IF \E n \in DOMAIN Home : Home[n] = p
                 THEN LET n == CHOOSE n \in DOMAIN Home : Home[n] = p
                      IN [doc |-> n, body |-> Content[n]]
                 ELSE None]
    BY DEF Init, InitStore
  <1>2. ASSUME NEW p \in Places, NEW n \in DOMAIN Home, Home[n] = p
        PROVE  disk[p] \in Files /\ disk[p].doc = n
    <2>1. (CHOOSE k \in DOMAIN Home : Home[k] = p) = n
      BY <1>2, StoreAssumption
    <2>2. disk[p] = [doc |-> n, body |-> Content[n]]
      BY <1>1, <1>2, <2>1
    <2>3. n \in Notes /\ Content[n] \in Bodies
      BY StoreAssumption
    <2> QED BY <2>2, <2>3 DEF Files
  <1>3. ASSUME NEW p \in Places
        PROVE  disk[p] \in Files \cup {None}
    BY <1>1, <1>2
  <1>4. ASSUME NEW n \in DOMAIN Home
        PROVE  disk[Home[n]] # None /\ disk[Home[n]].doc = n
    <2>1. Home[n] \in Places
      BY StoreAssumption DEF Places
    <2> QED BY <1>2, <2>1, NoneApart
  <1> QED BY <1>1, <1>3, <1>4

LEMMA Initial == Init => IInv
  <1> SUFFICES ASSUME Init PROVE IInv
    OBVIOUS
  <1>1. /\ job = [at |-> "down", note |-> None, from |-> None, to |-> None, todo |-> {}]
        /\ rows = [n \in Notes |-> rows[n]] /\ ops = [n \in Notes |-> None]
        /\ watch = "off" /\ events = <<>> /\ commands = 0 /\ faults = 0 /\ outside = 0
        /\ cut = {} /\ strayed = {} /\ scan = NoScan /\ confirm = {}
        /\ nextNote = Cardinality(DOMAIN Home) + 1
    BY DEF Init, InitStore, Resting
  <1>2. nextNote \in 1..(MaxNotes + 1)
    <2>1. 1 \in Int /\ MaxNotes \in Int
      BY StoreAssumption
    <2>2. IsFiniteSet(Notes) /\ Cardinality(Notes) <= MaxNotes
      <3>1. /\ IsFiniteSet(1..MaxNotes)
            /\ Cardinality(1..MaxNotes) = IF 1 > MaxNotes THEN 0 ELSE MaxNotes - 1 + 1
        BY <2>1, FS_Interval
      <3>2. MaxNotes \in Nat
        BY StoreAssumption
      <3> QED BY <3>1, <3>2 DEF Notes
    <2>3. IsFiniteSet(DOMAIN Home) /\ Cardinality(DOMAIN Home) \in Nat /\ Cardinality(DOMAIN Home) <= Cardinality(Notes)
      BY <2>2, FS_Subset, FS_CardinalityType, StoreAssumption
    <2>4. Cardinality(Notes) \in Nat
      BY <2>2, FS_CardinalityType
    <2> QED BY <1>1, <2>2, <2>3, <2>4, StoreAssumption
  <1>3. TypeOK
    <2>1. job \in Jobs
      BY <1>1 DEF Jobs, Steps
    <2>2. rows \in [Notes -> Rows \cup {None}]
      BY <1>1, FirstRows
    <2>3. scan \in Scans
      BY <1>1 DEF NoScan, Scans
    <2>4. /\ commands \in 0..MaxCommands /\ faults \in 0..MaxFaults /\ outside \in 0..MaxOutside
          /\ events \in Seq(Changes)
      BY <1>1, StoreAssumption, IndexAssumption
    <2> QED BY <1>1, <1>2, <2>1, <2>2, <2>3, <2>4, FirstFiles DEF TypeOK
  <1>4. RowsApart
    <2>1. \A m, n \in Notes : m # n /\ rows[m] # None /\ rows[n] # None => rows[m].path # rows[n].path
      BY FirstRows, StoreAssumption
    <2>2. \A n \in Notes : rows[n] # None => n < nextNote
      BY <1>1, FirstRows, NotesCounted
    <2>3. \A n \in Notes : rows[n] # None => rows[n].life = "active" /\ rows[n].path \in Paths
      BY FirstRows
    <2> QED BY <1>1, <2>1, <2>2, <2>3 DEF RowsApart
  <1>5. job.at = "down" /\ job.note = None
    BY <1>1
  <1>6. JobFits
    BY <1>5 DEF JobFits, RenameFits, CreateFits, MoveFits, TrashFits, DeletionFits, PutBackFits, RestFits,
                RenameSteps, RecoverSteps, Deletion, CommandStates
  <1>7. TargetIsFree /\ RecoveryApart /\ OpsSettled
    BY <1>1, <1>5 DEF TargetIsFree, RecoveryApart, OpsSettled, CommandStates, RenameSteps, RecoverSteps, Deletion
  <1>8. ScanSound
    BY <1>1, <1>5 DEF ScanSound, NoScan
  <1>9. FilePlaced
    <2>1. ASSUME NEW n \in Notes, rows[n] # None
          PROVE  HasFile(rows[n].path, n)
      BY <2>1, FirstRows, FirstFiles DEF HasFile
    <2> QED BY <1>1, <1>5, <2>1, NoneApart DEF FilePlaced, Placed
  <1>10. WayBackIsFree
    BY <1>5 DEF WayBackIsFree
  <1>11. HiddenFilesKnown
    <2>1. ASSUME NEW q \in Places \ Paths
          PROVE  disk[q] = None
      BY <2>1, StoreAssumption DEF Init, InitStore
    <2> QED BY <2>1 DEF HiddenFilesKnown
  <1> QED BY <1>3, <1>4, <1>6, <1>7, <1>8, <1>9, <1>10, <1>11 DEF IInv

(***************************************************************************)
(* The theorems.                                                           *)
(***************************************************************************)

\* At every step of a command, a recovery or a scan, through crashes, failed calls and what
\* other programs do: no two rows claim a place, what the command under way carries along is
\* what the catalog says, and a note that nothing has parted from its file has it where
\* the catalog, the journal and the step tell.
THEOREM InductiveInvariant == Spec => []IInv
  <1>1. IInv /\ [Next]_vars => IInv'
    <2> SUFFICES ASSUME IInv, [Next]_vars PROVE IInv'
      OBVIOUS
    <2>1. TypeOK'
      BY TypeStep DEF IInv
    <2>2. RowsApart'
      BY RowsApartStep
    <2>3. JobFits'
      BY JobFitsStep
    <2>4. TargetIsFree'
      BY JobTargetStep, OpTargetStep, TargetHalvesNext
    <2>5. OpsSettled'
      BY OpsSettledStep
    <2>6. ScanSound'
      BY ScanSoundStep
    <2>7. FilePlaced'
      BY FilePlacedStep
    <2>8. HiddenFilesKnown' /\ WayBackIsFree'
      BY HiddenStep, WayBackStep
    <2>9. RecoveryApart'
      BY RecoveryApartStep
    <2> QED BY <2>1, <2>2, <2>3, <2>4, <2>5, <2>6, <2>7, <2>8, <2>9 DEF IInv
  <1> QED BY Initial, <1>1, PTL DEF Spec

\* Between two commands the catalog knows where the file of every note is, unless a fault cut
\* a command without a journal or another program touched it.
THEOREM CatalogKnows == Spec => []CatalogMatchesDisk
  <1>1. IInv => CatalogMatchesDisk
    <2> SUFFICES ASSUME IInv, job.at = "idle", NEW n \in Notes \ Parted, rows[n] # None
                 PROVE  HasFile(rows[n].path, n)
      BY DEF CatalogMatchesDisk, At, Parted, HasFile
    <2>1. job.note # n
      BY NoneApart DEF IInv, JobFits, RestFits, CommandStates, RecoverSteps, RenameSteps, Deletion
    <2> QED BY <2>1, RowPlaced DEF RecoverSteps
  <1> QED BY InductiveInvariant, <1>1, PTL

\* A title rename that the death of the process cut between two of its calls, those of its way
\* back and of the recovery included, is one the next start can finish: but not while the file
\* has the name in between of two that differ only in case, nor once another program parted it.
THEOREM RenamesRecoverable == Spec => []UnfinishedRenamesRecoverable
  <1>1. IInv => UnfinishedRenamesRecoverable
    <2> SUFFICES ASSUME IInv, NEW n \in Notes \ Parted, ops[n] # None, job.note # n
                 PROVE  Recoverable(n)
      BY DEF UnfinishedRenamesRecoverable, Parted
    <2>1. FileOfOperation(n)
      BY DEF IInv, FilePlaced, Placed
    <2> QED BY <2>1 DEF FileOfOperation, Recoverable
  <1> QED BY InductiveInvariant, <1>1, PTL

\* In the last step of a deletion only RemoveFile and other programs touch a file.
LEMMA AtRemove ==
    ASSUME IInv, [Next]_vars, job.at = "remove", outside' = outside
    PROVE  UNCHANGED disk \/ disk' = [disk EXCEPT ![job.to] = None]
  <1>1. CASE CommandSteps
    BY <1>1 DEF CommandSteps, CreateRow, MoveRow, TrashRow, RestoreFile, RestoreRow, PutBack, StageFile,
                DeleteRow, RemoveFile, RenameHop, RenameHopped, RenameUnhop, RenameMove, RenameMark,
                RenameCommit, RenameFinish, RenameUndo, RenameUndoHop, RenameUndoHopped, RenameUndoUnhop,
                RenameRolledBack, At
  <1>2. CASE Commands
    BY <1>2, CommandsIdle
  <1>3. CASE Recovery
    BY <1>3 DEF Recovery, Start, Recovered, RecoverHopped, RecoverUnhop, MovesBack, RecoverMoveBack, RecoverHop,
                RecoverRecord, Refuse, Recovering, At
  <1>4. CASE IndexWorkspace \/ IndexBatch \/ IndexConfirm \/ ReadFile \/ Reconcile \/ Relocate \/ ApplyScan
             \/ Registered \/ Dies \/ UNCHANGED vars
    BY <1>4 DEF IndexWorkspace, IndexBatch, IndexConfirm, ReadFile, Reconcile, Relocate, ApplyScan, Registered,
                Dies, Crash, vars, storeVars
  <1>5. CASE OutsideCreate \/ OutsideEdit \/ OutsideRename \/ OutsideDelete
    <2>1. outside' = outside + 1
      BY <1>5 DEF OutsideCreate, OutsideEdit, OutsideRename, OutsideDelete, Interferes
    <2>2. outside \in 0..MaxOutside
      BY DEF IInv, TypeOK
    <2> QED BY <2>1, <2>2
  <1> QED BY <1>1, <1>2, <1>3, <1>4, <1>5 DEF Next, Worker

\* The last step of a deletion removes the file of the note that was deleted, no other.
THEOREM DeletionIsExact == Spec => RemovesTheDeleted
  <1>1. IInv /\ [Next]_vars =>
          (At("remove") /\ job.note \notin cut \cup strayed /\ outside' = outside =>
              DocsOnDisk \ DocsOnDisk' \subseteq {job.note})
    <2> SUFFICES ASSUME IInv, [Next]_vars, job.at = "remove", job.note \notin Parted, outside' = outside,
                        NEW q \in Places, disk[q] # None, disk[q].doc \notin DocsOnDisk'
                 PROVE  disk[q].doc = job.note
      BY DEF DocsOnDisk, At, Parted
    <2>1. job.note \in Notes \ Parted
      BY DEF IInv, JobFits, DeletionFits, Deletion
    <2>2. HasFile(job.to, job.note)
      BY <2>1 DEF IInv, FilePlaced, Placed, FileInCommand, RecoverSteps
    <2>3. disk'[q] # disk[q]
      BY DEF DocsOnDisk
    <2>4. q = job.to
      BY <2>3, AtRemove, StepTypes DEF IInv
    <2> QED BY <2>2, <2>4 DEF HasFile
  <1> QED BY InductiveInvariant, <1>1, PTL DEF Spec, RemovesTheDeleted

\* A file that is moved where none is that counts stays on the disk.
LEMMA PlaceKeeps ==
    ASSUME TypeOK, NEW from \in Places, NEW to \in Places, from # to,
           disk' = [disk EXCEPT ![to] = disk[from], ![from] = None],
           disk[to] # None => disk[to].doc \in cut
    PROVE  DocsOnDisk \ cut \subseteq DocsOnDisk'
  <1> SUFFICES ASSUME NEW q \in Places, disk[q] # None, disk[q].doc \notin cut
               PROVE  \E r \in Places : disk'[r] # None /\ disk'[r].doc = disk[q].doc
    BY DEF DocsOnDisk
  <1>1. /\ disk'[to] = disk[from] /\ \A r \in Places \ {from, to} : disk'[r] = disk[r]
    BY StepTypes
  <1>2. CASE q = from
    BY <1>1, <1>2
  <1>3. CASE q # from
    BY <1>1, <1>3
  <1> QED BY <1>2, <1>3

LEMMA ReplaceKeeps ==
    ASSUME TypeOK, NEW from \in Places, NEW to \in Places, Replace(from, to), from # to,
           disk[to] # None => disk[to].doc \in cut
    PROVE  DocsOnDisk \ cut \subseteq DocsOnDisk'
  BY PlaceKeeps DEF Replace

LEMMA MoveFileKeeps ==
    ASSUME TypeOK, NEW from \in Places, NEW to \in Places, MoveFile(from, to)
    PROVE  DocsOnDisk \ cut \subseteq DocsOnDisk'
  <1>1. Replace(from, to) /\ disk[from] # None /\ disk[to] = None
    BY DEF MoveFile, CanMove
  <1> QED BY <1>1, ReplaceKeeps

\* There is no file that counts where a deletion stages, or the trash takes a note.
LEMMA HiddenTargetFree ==
    ASSUME IInv, NEW n \in Notes, rows[n] # None, NEW p \in Paths, NEW to \in Places,
           \/ to = TrashPlace(n, p) /\ Active(n) /\ job.at = "idle"
           \/ to = StagingPlace(n, p) /\ job.at = "stage",
           disk[to] # None
    PROVE  disk[to].doc \in cut
  <1> USE DEF IInv
  <1> SUFFICES ASSUME disk[to].doc \notin cut PROVE FALSE
    OBVIOUS
  <1>1. to \in Places \ Paths
    BY HiddenPlaces
  <1>2. (\E m \in Notes : rows[m] # None /\ rows[m].path = to) \/ LeftOver(to)
    BY <1>1 DEF HiddenFilesKnown, Hopping
  <1>3. CASE to = TrashPlace(n, p)
    <2>1. ASSUME NEW m \in Notes, rows[m] # None, rows[m].path = to
          PROVE  FALSE
      <3>1. m # n
        BY <1>1, <1>3, <2>1, PlacesApart DEF RowsApart, Active
      <3> QED BY <1>3, <2>1, <3>1, TrashUnclaimed DEF Unclaimed
    <2>2. ~LeftOver(to)
      BY <1>3, PlacesApart DEF LeftOver
    <2> QED BY <1>2, <2>1, <2>2
  <1>4. CASE to = StagingPlace(n, p)
    <2>1. \A m \in Notes : rows[m] # None => rows[m].path # to
      BY <1>4, StagingUnclaimed
    <2>2. ~LeftOver(to)
      BY <1>4 DEF LeftOver, StagingPlace
    <2> QED BY <1>2, <2>1, <2>2
  <1> QED BY <1>3, <1>4

\* There is none under the name in between of a note before its file gets there.
LEMMA HopIsFree ==
    ASSUME IInv, NEW n \in Notes, job.at \in {"hop", "undohop", "recovering"}, disk[HopPlace(n)] # None
    PROVE  disk[HopPlace(n)].doc \in cut
  <1> USE DEF IInv
  <1> SUFFICES ASSUME disk[HopPlace(n)].doc \notin cut PROVE FALSE
    OBVIOUS
  <1>1. (\E m \in Notes : rows[m] # None /\ rows[m].path = HopPlace(n)) \/ LeftOver(HopPlace(n))
    BY HiddenPlaces DEF HiddenFilesKnown, Hopping
  <1>2. ~LeftOver(HopPlace(n))
    BY PlacesApart DEF LeftOver
  <1> QED BY <1>1, <1>2, StagingUnclaimed

\* Unless another program acts, no step of the worker destroys a file but the removal that
\* ends a deletion for good, and that of a file whose row could not be written.
THEOREM NoFileIsLost == Spec => WorkerLosesNoFile
  <1>1. IInv /\ [Next]_vars =>
          (outside' = 0 /\ ~MeansToRemove => DocsOnDisk \ cut \subseteq DocsOnDisk')
    <2> SUFFICES ASSUME IInv, [Next]_vars, outside' = 0, job.at \notin {"remove", "create"}
                 PROVE  DocsOnDisk \ cut \subseteq DocsOnDisk'
      BY DEF MeansToRemove, At
    <2> USE DEF IInv
    <2>1. CASE UNCHANGED disk
      BY <2>1 DEF DocsOnDisk
    <2>2. CASE Commands /\ UNCHANGED indexVars
      <3>1. CASE CreateFile
        <4>1. PICK path \in Paths : /\ disk[path] = None
                                    /\ disk' = [disk EXCEPT ![path] = [doc |-> nextNote, body |-> Blank]]
          BY <3>1 DEF CreateFile
        <4>2. \A q \in Places : disk[q] # None => disk'[q] = disk[q]
          BY <4>1, StepTypes
        <4> QED BY <4>2 DEF DocsOnDisk
      <3>2. ASSUME NEW n \in Notes, Trash(n)
            PROVE  DocsOnDisk \ cut \subseteq DocsOnDisk'
        <4>1. rows[n].path \in Paths /\ rows[n] # None /\ Active(n) /\ Replace(rows[n].path, TrashPlace(n, rows[n].path))
          BY <3>2 DEF Trash, Active, RowsApart
        <4>2. TrashPlace(n, rows[n].path) \in Places \ Paths /\ rows[n].path \in Places
          BY <4>1, HiddenPlaces DEF Places
        <4>3. job.at = "idle"
          BY <2>2, CommandsIdle
        <4> QED BY <4>1, <4>2, <4>3, HiddenTargetFree, ReplaceKeeps
      <3>3. ASSUME NEW n \in Notes, NEW target \in Paths, Move(n, target)
            PROVE  DocsOnDisk \ cut \subseteq DocsOnDisk'
        <4>1. rows[n].path \in Places /\ MoveFile(rows[n].path, target)
          BY <3>3, StepTypes DEF Move, Active
        <4> QED BY <4>1, MoveFileKeeps DEF Places
      <3>4. UNCHANGED disk \/ CreateFile \/ (\E n \in Notes : Trash(n)) \/ \E n \in Notes, target \in Paths : Move(n, target)
        BY <2>2 DEF Commands, EmptyTrash, Reindex, Delete, Rename, Restore, Unmoved
      <3> QED BY <2>1, <3>1, <3>2, <3>3, <3>4
    <2>3. CASE CommandSteps /\ UNCHANGED indexVars
      <3>0. /\ outside = 0 /\ job.at \in CommandStates \ {"create", "remove"} /\ job.note \in Notes
            /\ job.from \in Places /\ job.to \in Places
        BY <2>3, TouchedPlaces, InCommand DEF indexVars
      <3>1. CASE RestoreFile
        <4>1. job.at = "restore" /\ (UNCHANGED disk \/ Replace(job.from, job.to))
          BY <3>1 DEF RestoreFile, At, Unmoved
        <4>2. disk[job.to] = None
          BY <3>0, <4>1 DEF WayBackIsFree
        <4> QED BY <2>1, <3>0, <4>1, <4>2, FromIsNotTo, ReplaceKeeps
      <3>2. CASE PutBack
        <4>1. job.at = "putback" /\ (UNCHANGED disk \/ Replace(job.to, job.from))
          BY <3>2 DEF PutBack, At, Unmoved
        <4>2. disk[job.from] = None
          BY <3>0, <4>1 DEF WayBackIsFree
        <4> QED BY <2>1, <3>0, <4>1, <4>2, FromIsNotTo, ReplaceKeeps
      <3>3. CASE StageFile
        <4>1. job.at = "stage" /\ (UNCHANGED disk \/ Replace(job.from, job.to))
          BY <3>3 DEF StageFile, At, Unmoved
        <4>2. rows[job.note] # None /\ \E p \in Paths : job.to = StagingPlace(job.note, p)
          BY <4>1 DEF JobFits, DeletionFits, Deletion, Trashed
        <4>3. disk[job.to] # None => disk[job.to].doc \in cut
          BY <3>0, <4>1, <4>2, HiddenTargetFree
        <4> QED BY <2>1, <3>0, <4>1, <4>3, FromIsNotTo, ReplaceKeeps
      <3>4. CASE RenameHop \/ RenameUndoHop
        <4>1. HopPlace(job.note) \in Places \ Paths
          BY <3>0, HiddenPlaces
        <4>2. /\ job.at \in {"hop", "undohop"}
              /\ UNCHANGED disk \/ \E from \in {job.from, job.to} : Replace(from, HopPlace(job.note))
          BY <3>4 DEF RenameHop, RenameUndoHop, At, Unmoved
        <4>3. job.from \in Paths /\ job.to \in Paths
          BY <4>2 DEF JobFits, RenameFits, RenameSteps
        <4> QED BY <2>1, <3>0, <4>1, <4>2, <4>3, HopIsFree, ReplaceKeeps
      <3>7. CASE RenameHopped \/ RenameUnhop \/ RenameMove \/ RenameUndo \/ RenameUndoHopped \/ RenameUndoUnhop
        <4>1. HopPlace(job.note) \in Places
          BY <3>0, HiddenPlaces
        <4>2. UNCHANGED disk \/ \E from, to \in Places : MoveFile(from, to)
          BY <3>0, <3>7, <4>1 DEF RenameHopped, RenameUnhop, RenameMove, RenameUndo, RenameUndoHopped,
                                  RenameUndoUnhop, Unmoved
        <4> QED BY <2>1, <4>2, MoveFileKeeps
      <3>5. CASE CreateRow \/ RemoveFile
        BY <3>0, <3>5 DEF CreateRow, RemoveFile, At
      <3>6. CASE MoveRow \/ TrashRow \/ RestoreRow \/ DeleteRow \/ RenameMark \/ RenameCommit \/ RenameFinish
                 \/ RenameRolledBack
        BY <2>1, <3>6 DEF MoveRow, TrashRow, RestoreRow, DeleteRow, RenameMark, RenameCommit, RenameFinish,
                          RenameRolledBack, Unmoved
      <3> QED BY <2>3, <3>1, <3>2, <3>3, <3>4, <3>5, <3>6, <3>7 DEF CommandSteps
    <2>4. CASE Recovery
      <3>1. ASSUME NEW n \in Notes, RecoverMoveBack(n)
            PROVE  DocsOnDisk \ cut \subseteq DocsOnDisk'
        <4>1. /\ ops[n].target \in Places /\ ops[n].source \in Places
              /\ MoveFile(ops[n].target, ops[n].source)
          BY <3>1, StepTypes DEF RecoverMoveBack, MovesBack, Recovering, Places
        <4> QED BY <4>1, MoveFileKeeps
      <3>2. ASSUME NEW n \in Notes, RecoverHop(n)
            PROVE  DocsOnDisk \ cut \subseteq DocsOnDisk'
        <4>1. /\ job.at = "recovering" /\ ops[n].target \in Paths /\ HopPlace(n) \in Places \ Paths
              /\ Replace(ops[n].target, HopPlace(n))
          BY <3>2, StepTypes, HiddenPlaces DEF RecoverHop, MovesBack, Recovering, At
        <4> QED BY <4>1, HopIsFree, ReplaceKeeps DEF Places
      <3>3. CASE RecoverHopped \/ RecoverUnhop
        <4> DEFINE k   == job.note
                   hop == HopPlace(k)
        <4>1. hop \in Places \ Paths /\ ops[k].source \in Paths /\ ops[k].target \in Paths
          BY <3>3, StepTypes, HiddenPlaces DEF RecoverHopped, RecoverUnhop, At, RecoverSteps, JobFits, RestFits
        <4>2. \/ UNCHANGED disk
              \/ \E p \in {ops[k].source, ops[k].target} :
                    disk[p] = None /\ disk' = [disk EXCEPT ![p] = disk[hop], ![hop] = None]
          BY <3>3 DEF RecoverHopped, RecoverUnhop, MoveFile, CanMove, Replace, Unmoved
        <4> HIDE DEF k, hop
        <4> QED BY <2>1, <4>1, <4>2, PlaceKeeps DEF Places
      <3> QED BY <2>1, <2>4, <3>1, <3>2, <3>3 DEF Recovery, Start, Recovered, RecoverRecord, Refuse
    <2>5. CASE IndexWorkspace \/ IndexBatch \/ IndexConfirm \/ ReadFile \/ Reconcile \/ Relocate \/ ApplyScan
               \/ Registered \/ Dies \/ UNCHANGED vars
      BY <2>1, <2>5 DEF IndexWorkspace, IndexBatch, IndexConfirm, ReadFile, Reconcile, Relocate, ApplyScan,
                        Registered, Dies, Crash, vars, storeVars
    <2>6. CASE OutsideCreate \/ OutsideEdit \/ OutsideRename \/ OutsideDelete
      BY <2>6, OutsideActs
    <2> QED BY <2>2, <2>3, <2>4, <2>5, <2>6 DEF Next, Worker
  <1> QED BY InductiveInvariant, <1>1, PTL DEF Spec, WorkerLosesNoFile

=============================================================================
