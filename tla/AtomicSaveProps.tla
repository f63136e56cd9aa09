-------------------------- MODULE AtomicSaveProps --------------------------
(***************************************************************************)
(* What save_file_if_unchanged must guarantee, and the contract it         *)
(* implements.                                                             *)
(***************************************************************************)
EXTENDS AtomicSave

Calls == {"idle", "meta", "hash", "create", "write", "sync", "rename", "syncdir", "cleanup",
          "ok", "failed"}
MaybeFile == Files \cup {None}
Disks == MaybeFile \cup {Torn}
SaverStates ==
    [pc : Calls, round : 1..3, expected : MaybeFile, data : Nat, meta : Nat, tries : Nat,
     name : Nat \cup {None}, result : MaybeFile, checked : MaybeFile, replaced : SUBSET MaybeFile]

\* Every variable holds what the code's types allow.
TypeOK ==
    /\ entry \in MaybeFile /\ survivors \subseteq Disks
    /\ temps \in [Names -> Temps \cup {None}]
    /\ nextName \in Nat /\ writes \in Nat
    /\ saver \in [Savers -> SaverStates]

\* Whatever the power cut leaves at the path is a complete file.
NoTornFile == Torn \notin survivors \cup {entry}

\* No file a successful save replaced can come back after a power cut.
SuccessIsDurable ==
    \A s \in Savers : At(s, "ok") => survivors \cap saver[s].replaced \subseteq {None}

-----------------------------------------------------------------------------
(* The inductive invariant, in its parts *)

Reading(s) == saver[s].pc \in {"meta", "hash"}
Ready(s) == At(s, "rename") \/ (Reading(s) /\ saver[s].round = 2)
HasTemp(s) == At(s, "write") \/ At(s, "sync") \/ Ready(s)
Unplaced(s) == HasTemp(s) \/ At(s, "create") \/ (Reading(s) /\ saver[s].round = 1)
OwnFile(s) == [data |-> saver[s].data, meta |-> saver[s].data]

\* No two saves use one temporary file, and none uses a name that is still to come.
NamesOwned ==
    \A s \in Savers : saver[s].name # None =>
        /\ saver[s].name < nextName
        /\ \A u \in Savers : saver[u].name = saver[s].name => u = s

\* A save has a name for its temporary file exactly while it has one or had one.
NamesHeld ==
    \A s \in Savers :
        /\ HasTemp(s) => saver[s].name \in Names
        /\ At(s, "create") \/ (Reading(s) /\ saver[s].round = 1) => saver[s].name = None
        /\ saver[s].round = 3 => saver[s].pc \in {"meta", "hash", "ok", "failed", "cleanup"}

\* The temporary file a save is about to rename is complete and on disk.
TempsReady ==
    \A s \in Savers :
        /\ HasTemp(s) => temps[saver[s].name] # None
        /\ At(s, "sync") \/ Ready(s) => temps[saver[s].name].file = OwnFile(s)
        /\ Ready(s) => temps[saver[s].name].synced

\* The file a save has still to place was never at the path.
NeverSeen ==
    \A s \in Savers :
        /\ saver[s].data < writes
        /\ Unplaced(s) =>
              /\ \A f \in survivors \ {None} : f.meta # saver[s].data
              /\ \A u \in Savers :
                    /\ \A f \in saver[u].replaced \ {None} : f.meta # saver[s].data
                    /\ u # s /\ Unplaced(u) => saver[u].data # saver[s].data

\* Only files written so far can be anywhere.
FilesWritten ==
    /\ entry \in survivors
    /\ \A f \in survivors \ {None} : f.meta < writes
    /\ \A s \in Savers : \A f \in saver[s].replaced \ {None} : f.meta < writes

\* What a save replaced is out of a power cut's reach once the directory is synced.
ReplacedIsGone ==
    \A s \in Savers :
        /\ At(s, "syncdir") /\ entry # None => entry \notin saver[s].replaced
        /\ (Reading(s) /\ saver[s].round = 3) \/ At(s, "ok") =>
              survivors \cap saver[s].replaced \subseteq {None}

\* a is what a save that expects b may replace.
Matches(a, b) == (a = None /\ b = None) \/ (a # None /\ b # None /\ a.data = b.data)

\* A save renames only after the second comparison succeeded.
CheckedMatches ==
    \A s \in Savers : At(s, "rename") => Matches(saver[s].checked, saver[s].expected)

IInv ==
    /\ TypeOK /\ NoTornFile
    /\ NamesOwned /\ NamesHeld /\ TempsReady /\ NeverSeen /\ FilesWritten
    /\ ReplacedIsGone /\ CheckedMatches

-----------------------------------------------------------------------------
\* A save replaces a file only if it has the expected bytes or was put there after the
\* second comparison: earlier outside writes are never lost.
ReplacesWhatItChecked ==
    [][\A s \in Savers :
         Rename(s) => entry # saver[s].checked \/ Matches(entry, saver[s].expected)]_vars

\* Every save ends, whatever temporary names are taken.
SavesEnd == \A s \in Savers : saver[s].pc # "idle" ~> saver[s].pc \in {"idle", "ok", "failed"}

\* What the contract calls a save's status.
Status(s) ==
    IF saver[s].pc \in {"idle", "ok", "failed"} THEN saver[s].pc
    ELSE IF At(s, "cleanup") THEN "failed"
    ELSE IF At(s, "syncdir") THEN "replaced"
    ELSE IF saver[s].round = 3 THEN "settled" ELSE "running"

Contract == INSTANCE SaveContract WITH status <- [s \in Savers |-> Status(s)]

\* The calls, in the order the code makes them, implement the contract of an atomic save.
ImplementsContract == Contract!Spec

=============================================================================
