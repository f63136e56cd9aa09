----------------------------- MODULE NoteIndex -----------------------------
(***************************************************************************)
(* How the catalog follows the files: the worker of NoteStore also scans   *)
(* the workspace.  It scans all of it when it starts, when the watcher is  *)
(* registered and after a command that succeeded, and the paths of a batch *)
(* of watcher events, once when the batch comes and once more to confirm.  *)
(* A scan reads the catalog, then the files one by one, matches them by    *)
(* path, by the watcher's renames and by content (reconciliation.rs), and  *)
(* writes the result in one transaction per relocation and one for the     *)
(* rest.  A row goes when two scans in a row miss its file.                *)
(*                                                                         *)
(* Other programs create, change, rename and delete files meanwhile.       *)
(***************************************************************************)
EXTENDS NoteStore

CONSTANTS
    Rank,           \* the order the files are read in: path -> number
    Outside,        \* what other programs do: subset of {"create", "edit", "rename", "delete"}
    MaxOutside      \* bound: things they do

NoScan == [scope |-> {}, hints |-> {}, unread |-> {}, seen |-> [p \in Paths |-> None],
           bad |-> FALSE, moves |-> {}, added |-> {}, missing |-> {}]

ASSUME IndexAssumption ==
    /\ Rank \in [Paths -> Int] /\ \A p, q \in Paths : Rank[p] = Rank[q] => p = q
    /\ MaxOutside \in Nat
    /\ Outside \subseteq {"create", "edit", "rename", "delete"}

VARIABLES
    scan,           \* the scan under way
    confirm,        \* pending_presence_confirmation_paths
    outside,        \* things other programs have done
    strayed         \* history: notes whose file one renamed with nothing else going on

indexVars == <<scan, confirm, outside, strayed>>
vars == <<storeVars, indexVars>>

Init == InitStore /\ scan = NoScan /\ confirm = {} /\ outside = 0 /\ strayed = {}

-----------------------------------------------------------------------------
(* What is scanned, and when.                                              *)

Begin(scope, hints) ==
    /\ scan' = [NoScan EXCEPT !.scope = scope, !.hints = hints, !.unread = scope]
    /\ job' = [Resting EXCEPT !.at = "read"]

\* index_workspace: at the start, after a command, and when the watcher is ready.
IndexWorkspace ==
    /\ At("index") \/ (At("idle") /\ watch = "ready")
    /\ watch' = IF At("idle") THEN "on" ELSE watch
    /\ Begin(Paths, {})
    /\ UNCHANGED <<disk, rows, ops, events, nextNote, commands, faults, cut, confirm, outside, strayed>>

Registered ==
    /\ watch = "off" /\ job.at \notin {"down", "refused"}
    /\ watch' = "ready"
    /\ UNCHANGED <<disk, rows, ops, job, events, nextNote, commands, faults, cut, indexVars>>

\* Mutated form: only the first event of the batch is looked at.
IndexBatchFirst ==
    /\ At("idle") /\ watch = "on"
    /\ \E k \in 1..Len(events) :
          /\ Begin(events[1].paths, events[1].hints)
          /\ confirm' = confirm \cup events[1].paths
          /\ events' = SubSeq(events, k + 1, Len(events))
    /\ UNCHANGED <<disk, rows, ops, watch, nextNote, commands, faults, cut, outside, strayed>>

\* A batch is what the watcher collected in a debounce interval: the events in order.
IndexBatch ==
    /\ At("idle") /\ watch = "on"
    /\ \E k \in 1..Len(events) :
          LET paths == UNION {events[i].paths : i \in 1..k}
          IN  /\ Begin(paths, UNION {events[i].hints : i \in 1..k})
              /\ confirm' = confirm \cup paths
              /\ events' = SubSeq(events, k + 1, Len(events))
    /\ UNCHANGED <<disk, rows, ops, watch, nextNote, commands, faults, cut, outside, strayed>>

\* WATCHER_PRESENCE_CONFIRMATION_DELAY after the last batch.
IndexConfirm ==
    /\ At("idle") /\ confirm # {}
    /\ Begin(confirm, {}) /\ confirm' = {}
    /\ UNCHANGED <<disk, rows, ops, watch, events, nextNote, commands, faults, cut, outside, strayed>>

ReadFile ==
    \E p \in scan.unread :
        /\ At("read") /\ \A q \in scan.unread : Rank[p] <= Rank[q]
        /\ \/ /\ Works /\ scan' = [scan EXCEPT !.unread = @ \ {p}, !.seen[p] = disk[p]]
              /\ UNCHANGED cut
           \/ /\ disk[p] # None /\ Breaks
              /\ scan' = [scan EXCEPT !.unread = @ \ {p}, !.bad = TRUE]
              /\ cut' = cut \cup {n \in Notes : Active(n) /\ rows[n].path = p}
        /\ UNCHANGED <<disk, rows, ops, job, watch, events, nextNote, commands, confirm, outside, strayed>>

-----------------------------------------------------------------------------
(* reconcile_notes_with_renames.                                           *)

Affected == {n \in Notes : Active(n) /\ rows[n].path \in scan.scope}
Discovered == {p \in Paths : scan.seen[p] # None}
Matched == {n \in Affected : rows[n].path \in Discovered}
Unmatched == Discovered \ {rows[n].path : n \in Matched}

\* RenameTargetAlreadyTracked: the scan is given up.
HintRefused ==
    \E hint \in scan.hints :
        /\ hint[1] # hint[2]
        /\ \E n \in Affected : rows[n].path = hint[1]
        /\ \E n \in Affected : rows[n].path = hint[2]

OneToOne(pairs) == \A x, y \in pairs : x = y \/ (x[1] # y[1] /\ x[2] # y[2])
MaximalIn(candidates) ==
    {pairs \in SUBSET candidates :
        /\ OneToOne(pairs)
        /\ \A x \in candidates \ pairs : ~OneToOne(pairs \cup {x})}

\* Mutated form: a hint counts only with the content.
HintedMovesUnedited ==
    MaximalIn({x \in (Affected \ Matched) \X Unmatched :
                  /\ <<rows[x[1]].path, x[2]>> \in scan.hints
                  /\ rows[x[1]].hash = scan.seen[x[2]].body})

\* Which of several takes a note is the order of a hash map.
HintedMoves ==
    MaximalIn({x \in (Affected \ Matched) \X Unmatched : <<rows[x[1]].path, x[2]>> \in scan.hints})

\* Content decides when one note alone is missing with it.
HashedMoves(hinted) ==
    LET notes == (Affected \ Matched) \ {x[1] : x \in hinted}
        alone(n) == \A m \in notes : rows[m].hash = rows[n].hash => m = n
    IN  MaximalIn({x \in notes \X (Unmatched \ {y[2] : y \in hinted}) :
                      alone(x[1]) /\ rows[x[1]].hash = scan.seen[x[2]].body})

Reconcile ==
    /\ At("read") /\ scan.unread = {}
    /\ \/ HintRefused /\ scan' = NoScan /\ Rest
       \/ /\ ~HintRefused
          /\ \E hinted \in HintedMoves : \E hashed \in HashedMoves(hinted) :
                LET moves == hinted \cup hashed
                IN  scan' = [scan EXCEPT !.moves = moves,
                                         !.added = Unmatched \ {x[2] : x \in moves},
                                         !.missing = (Affected \ Matched) \ {x[1] : x \in moves}]
          /\ Goto("relocate")
    /\ UNCHANGED <<disk, rows, ops, watch, events, nextNote, commands, faults, cut, confirm,
                   outside, strayed>>

-----------------------------------------------------------------------------
(* apply_scan_results.                                                     *)

\* apply_external_note_relocation: a transaction of its own, before the others.
Relocate ==
    /\ At("relocate") /\ scan.moves # {}
    /\ \E x \in scan.moves :
          \/ /\ Works /\ Unclaimed(x[1], x[2])
             /\ rows' = [rows EXCEPT ![x[1]] = [@ EXCEPT !.path = x[2], !.origin = x[2],
                                                         !.missing = 0]]
             /\ scan' = [scan EXCEPT !.moves = @ \ {x}]
             /\ UNCHANGED job
          \/ /\ FailsUnless(Unclaimed(x[1], x[2])) /\ UNCHANGED rows
             /\ scan' = NoScan /\ Rest
    /\ UNCHANGED <<disk, ops, watch, events, nextNote, commands, cut, confirm, outside, strayed>>

\* A row whose file was seen: the derived fields follow the file.
Refreshed(row) ==
    [row EXCEPT !.hash = scan.seen[row.path].body,
                !.missing = IF scan.bad /\ row.hash = scan.seen[row.path].body THEN @ ELSE 0]

\* Mutated form: one scan too many is waited for.
MissedNever(row) ==
    IF scan.bad THEN row
    ELSE IF row.missing < MissingScanConfirmationCount THEN [row EXCEPT !.missing = @ + 1] ELSE None

\* A row whose file was not seen; a scan that could not read a file counts none.
Missed(row) ==
    IF scan.bad THEN row
    ELSE IF row.missing + 1 < MissingScanConfirmationCount
         THEN [row EXCEPT !.missing = @ + 1]
    ELSE None

\* The new notes get their identities in the order of the files.
NewId(path) == nextNote + Cardinality({p \in scan.added : Rank[p] < Rank[path]})
NewIds == {NewId(p) : p \in scan.added}

RowAfter(n) ==
    IF n \in NewIds
    THEN LET path == CHOOSE p \in scan.added : NewId(p) = n
         IN  [life |-> "active", path |-> path, origin |-> path,
              hash |-> scan.seen[path].body, missing |-> 0]
    ELSE IF n \in scan.missing THEN Missed(rows[n])
    ELSE IF n \in Affected /\ rows[n].path \in Discovered THEN Refreshed(rows[n])
    ELSE rows[n]

\* apply_scan_reconciliation.
ApplyScan ==
    /\ At("relocate") /\ scan.moves = {} /\ nextNote + Cardinality(scan.added) <= MaxNotes + 1
    /\ \/ /\ Works
          /\ rows' = [n \in Notes |-> RowAfter(n)]
          /\ ops' = [n \in Notes |-> IF rows'[n] = None THEN None ELSE ops[n]]
          /\ nextNote' = nextNote + Cardinality(scan.added)
          /\ cut' = cut \cup NewIds
       \/ Breaks /\ UNCHANGED <<rows, ops, nextNote, cut>>
    /\ scan' = NoScan /\ Rest
    /\ UNCHANGED <<disk, watch, events, commands, confirm, outside, strayed>>

-----------------------------------------------------------------------------
(* Other programs, and the process as a whole.                             *)

Interferes(kind) ==
    /\ kind \in Outside /\ outside < MaxOutside /\ outside' = outside + 1
    /\ UNCHANGED <<rows, ops, job, watch, commands, faults, scan, confirm>>

Touched(p) == Notice(<<[paths |-> {p}, hints |-> {}]>>)

OutsideCreate ==
    \E p \in Paths, body \in Bodies :
        /\ Interferes("create") /\ disk[p] = None /\ nextNote \in Notes
        /\ disk' = [disk EXCEPT ![p] = [doc |-> nextNote, body |-> body]]
        /\ nextNote' = nextNote + 1
        /\ cut' = cut \cup Concerned({p})
        /\ Touched(p) /\ UNCHANGED strayed

OutsideEdit ==
    \E p \in Paths, body \in Bodies :
        /\ Interferes("edit") /\ disk[p] # None /\ disk[p].body # body
        /\ disk' = [disk EXCEPT ![p].body = body]
        /\ Touched(p) /\ UNCHANGED <<nextNote, cut, strayed>>

\* The watcher is there, and has nothing else to tell.
Quiet == At("idle") /\ watch = "on" /\ events = <<>> /\ confirm = {}

OutsideRename ==
    \E p, q \in Paths :
        /\ Interferes("rename") /\ MoveFile(p, q)
        /\ IF Quiet THEN strayed' = strayed \cup Concerned({p, q}) /\ UNCHANGED cut
           ELSE cut' = cut \cup Concerned({p, q}) /\ UNCHANGED strayed
        /\ UNCHANGED nextNote

OutsideDelete ==
    \E p \in Paths :
        /\ Interferes("delete") /\ disk[p] # None
        /\ disk' = [disk EXCEPT ![p] = None]
        /\ cut' = cut \cup Concerned({p})
        /\ Touched(p) /\ UNCHANGED <<nextNote, strayed>>

Dies == Crash /\ scan' = NoScan /\ confirm' = {} /\ UNCHANGED <<outside, strayed>>

Worker ==
    \/ CommandSteps /\ UNCHANGED indexVars
    \/ Recovery /\ UNCHANGED indexVars
    \/ IndexWorkspace \/ IndexBatch \/ IndexConfirm
    \/ ReadFile \/ Reconcile \/ Relocate \/ ApplyScan

Next ==
    \/ Worker
    \/ At("idle") /\ Commands /\ UNCHANGED indexVars
    \/ Registered
    \/ OutsideCreate \/ OutsideEdit \/ OutsideRename \/ OutsideDelete
    \/ Dies

Spec == Init /\ [][Next]_vars

\* The worker's loop and the watcher run; the program is started again.
FairSpec == Spec /\ WF_vars(Worker) /\ WF_vars(Registered)

=============================================================================
