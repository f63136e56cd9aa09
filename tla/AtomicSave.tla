----------------------------- MODULE AtomicSave -----------------------------
(***************************************************************************)
(* save_file_if_unchanged, one file-system call at a time: compare the     *)
(* file's revision with the expected one, write and sync a temporary       *)
(* sibling, compare again, rename it over the file, sync the directory and *)
(* read the new revision back.  Several threads save to the same path (the *)
(* file worker, or Notora's save threads); other programs write or delete  *)
(* the file between any two calls; any call may fail; the process may be   *)
(* killed and the power cut.                                               *)
(*                                                                         *)
(* A file is its bytes (data) and its metadata (meta: size, mtime, inode); *)
(* read_disk_revision reads the metadata first and the bytes later.        *)
(***************************************************************************)
EXTENDS Integers

CONSTANTS
    Savers,         \* the threads that save
    None,           \* no file, revision or temporary name
    Torn,           \* a file whose bytes never reached the disk
    Attempts,       \* SAVE_TEMP_ATTEMPTS
    MaxWrites,      \* bound: files written by saves and other programs
    MaxNames        \* bound: temporary names used

Files == [data : Nat, meta : Nat]
Names == 0..MaxNames
Temps == [file : Files \cup {Torn}, synced : BOOLEAN]

ASSUME ConstantsAssumption ==
    /\ None \notin Files \cup Temps /\ Torn \notin Files /\ Torn # None /\ None \notin Nat
    /\ Attempts \in Nat /\ MaxWrites \in Nat /\ MaxNames \in Nat

VARIABLES
    entry,          \* the file at the path, or None
    survivors,      \* what a power cut may leave at the path
    temps,          \* temporary name -> [file, synced] or None
    nextName,       \* SAVE_TEMP_COUNTER
    saver,          \* saver -> where it is and what it knows
    writes          \* files written so far

vars == <<entry, survivors, temps, nextName, saver, writes>>

\* pc: the call that comes next; round: which of the three reads of the revision.
\* checked and replaced are history: the file the second read saw, and everything
\* a power cut could have left when this save replaced the file.
Resting ==
    [pc |-> "idle", round |-> 1, expected |-> None, data |-> 0, meta |-> 0, tries |-> 0,
     name |-> None, result |-> None, checked |-> None, replaced |-> {}]

Init ==
    /\ entry \in {None, [data |-> 0, meta |-> 0]}
    /\ survivors = {entry}
    /\ temps = [n \in Names |-> None]
    /\ nextName = 0
    /\ saver = [s \in Savers |-> Resting]
    /\ writes = 1

At(s, pc) == saver[s].pc = pc
Goes(s, pc) == saver' = [saver EXCEPT ![s].pc = pc]
Disk == <<entry, survivors, temps>>

\* An error after the temporary file was created removes it first.
Abandoned(s) == IF saver[s].name = None THEN "failed" ELSE "cleanup"

-----------------------------------------------------------------------------
\* The caller has the revision its last save returned, or has just read the file.
Start(s) ==
    /\ saver[s].pc \in {"idle", "ok", "failed"} /\ writes < MaxWrites
    /\ \E expected \in {entry, saver[s].result} :
          saver' = [saver EXCEPT ![s] = [Resting EXCEPT !.pc = "meta", !.expected = expected,
                                                        !.data = writes]]
    /\ writes' = writes + 1
    /\ UNCHANGED <<Disk, nextName>>

\* Mutated form: the second comparison is left out.
DecisionOnce(s, revision) ==
    IF saver[s].round = 3 THEN IF revision = None THEN "cleanup" ELSE "ok"
    ELSE IF saver[s].round = 2 THEN "rename"
    ELSE IF revision = saver[s].expected THEN "create" ELSE "failed"

\* Mutated form: a file that is not the expected one is read again.
DecisionRetried(s, revision) ==
    IF saver[s].round = 3 THEN IF revision = None THEN "cleanup" ELSE "ok"
    ELSE IF revision # saver[s].expected THEN "meta"
    ELSE IF saver[s].round = 1 THEN "create" ELSE "rename"

Decision(s, revision) ==
    IF saver[s].round = 3 THEN IF revision = None THEN "cleanup" ELSE "ok"
    ELSE IF revision # saver[s].expected THEN Abandoned(s)
    ELSE IF saver[s].round = 1 THEN "create" ELSE "rename"

Decide(s, revision) ==
    saver' = [saver EXCEPT ![s].pc = Decision(s, revision), ![s].result = revision,
                           ![s].checked = entry]

ReadMeta(s) ==
    /\ At(s, "meta")
    /\ \/ entry = None /\ Decide(s, None)
       \/ entry # None /\ saver' = [saver EXCEPT ![s].pc = "hash", ![s].meta = entry.meta]
    /\ UNCHANGED <<Disk, nextName, writes>>

ReadHash(s) ==
    /\ At(s, "hash") /\ entry # None
    /\ Decide(s, [data |-> entry.data, meta |-> saver[s].meta])
    /\ UNCHANGED <<Disk, nextName, writes>>

\* create_new: an existing name (left by a process that had the same id) is skipped.
CreateTemp(s) ==
    /\ At(s, "create") /\ saver[s].tries < Attempts /\ nextName \in Names
    /\ nextName' = nextName + 1
    /\ \/ /\ temps[nextName] # None
          /\ saver' = [saver EXCEPT ![s].tries = @ + 1]
          /\ UNCHANGED temps
       \/ /\ temps[nextName] = None
          /\ temps' = [temps EXCEPT ![nextName] = [file |-> Torn, synced |-> FALSE]]
          /\ saver' = [saver EXCEPT ![s].pc = "write", ![s].name = nextName]
    /\ UNCHANGED <<entry, survivors, writes>>

WriteTemp(s) ==
    /\ At(s, "write")
    /\ temps' = [temps EXCEPT ![saver[s].name].file =
                    [data |-> saver[s].data, meta |-> saver[s].data]]
    /\ Goes(s, "sync")
    /\ UNCHANGED <<entry, survivors, nextName, writes>>

\* Mutated form: sync_all is left out.
SyncTempSkipped(s) ==
    /\ At(s, "sync")
    /\ saver' = [saver EXCEPT ![s].pc = "meta", ![s].round = 2]
    /\ UNCHANGED <<Disk, nextName, writes>>

SyncTemp(s) ==
    /\ At(s, "sync")
    /\ temps' = [temps EXCEPT ![saver[s].name].synced = TRUE]
    /\ saver' = [saver EXCEPT ![s].pc = "meta", ![s].round = 2]
    /\ UNCHANGED <<entry, survivors, nextName, writes>>

\* The rename is seen at once; a power cut undoes it, or keeps it without the bytes
\* that were not synced.
Rename(s) ==
    LET temp == temps[saver[s].name]
    IN  /\ At(s, "rename")
        /\ entry' = temp.file
        /\ survivors' = survivors \cup {IF temp.synced THEN temp.file ELSE Torn}
        /\ temps' = [temps EXCEPT ![saver[s].name] = None]
        /\ saver' = [saver EXCEPT ![s].pc = "syncdir", ![s].replaced = survivors]
        /\ UNCHANGED <<nextName, writes>>

\* Mutated form: the directory is not synced.
SyncDirectorySkipped(s) ==
    /\ At(s, "syncdir")
    /\ saver' = [saver EXCEPT ![s].pc = "meta", ![s].round = 3]
    /\ UNCHANGED <<Disk, nextName, writes>>

SyncDirectory(s) ==
    /\ At(s, "syncdir")
    /\ survivors' = {entry}
    /\ saver' = [saver EXCEPT ![s].pc = "meta", ![s].round = 3]
    /\ UNCHANGED <<entry, temps, nextName, writes>>

\* Any call may fail; a file that is gone cannot be opened, and a hundred names that
\* exist are enough.
CallFails(s) ==
    /\ saver[s].pc \in {"meta", "hash", "create", "write", "sync", "rename", "syncdir"}
    /\ Goes(s, Abandoned(s))
    /\ UNCHANGED <<Disk, nextName, writes>>

\* Removing the temporary file may fail, and nobody looks.
Cleanup(s) ==
    /\ At(s, "cleanup")
    /\ Goes(s, "failed")
    /\ temps' \in {temps, [temps EXCEPT ![saver[s].name] = None]}
    /\ UNCHANGED <<entry, survivors, nextName, writes>>

Step(s) ==
    \/ ReadMeta(s) \/ ReadHash(s) \/ CreateTemp(s) \/ WriteTemp(s) \/ SyncTemp(s)
    \/ Rename(s) \/ SyncDirectory(s) \/ CallFails(s) \/ Cleanup(s)

-----------------------------------------------------------------------------
\* Another program writes the file, possibly with bytes it had before, or deletes it.
OutsideWrite ==
    /\ writes < MaxWrites
    /\ entry' \in {[data |-> data, meta |-> writes] : data \in 0..writes}
    /\ survivors' = survivors \cup {entry'}
    /\ writes' = writes + 1
    /\ UNCHANGED <<temps, nextName, saver>>

OutsideDelete ==
    /\ entry # None /\ entry' = None
    /\ survivors' = survivors \cup {None}
    /\ UNCHANGED <<temps, nextName, saver, writes>>

\* The next process starts its counter again and finds the temporary files left behind.
Restart ==
    /\ saver' = [s \in Savers |-> Resting]
    /\ nextName' = 0
    /\ UNCHANGED writes

Kill == Restart /\ UNCHANGED Disk

PowerCut ==
    /\ Restart
    /\ entry' \in survivors /\ survivors' = {entry'}
    /\ \E kept \in SUBSET Names : temps' = [n \in Names |-> IF n \in kept THEN temps[n] ELSE None]

Next ==
    \/ \E s \in Savers : Start(s) \/ Step(s)
    \/ OutsideWrite \/ OutsideDelete \/ Kill \/ PowerCut

\* The thread of a save runs until the save is over.
Fairness == \A s \in Savers : WF_vars(Step(s))

Spec == Init /\ [][Next]_vars
FairSpec == Spec /\ Fairness

=============================================================================
