---------------------------- MODULE SaveContract ----------------------------
(***************************************************************************)
(* What an atomic save promises whoever reads the file, whatever the       *)
(* power, the process and other programs do: the path always leads to one  *)
(* complete file, a save replaces it at most once, and one that reported   *)
(* success has pushed everything it replaced beyond the reach of a power   *)
(* cut.  A save that reports an error may have replaced the file or not.   *)
(***************************************************************************)
CONSTANTS
    Savers,         \* the threads that save
    None            \* no file

VARIABLES
    entry,          \* the file at the path, or None
    survivors,      \* what a power cut may leave at the path
    status          \* saver -> idle, running, replaced, settled, ok or failed

vars == <<entry, survivors, status>>

Init ==
    /\ survivors = {entry}
    /\ status = [s \in Savers |-> "idle"]

Becomes(s, value) == status' = [status EXCEPT ![s] = value]

Begin(s) ==
    /\ status[s] \in {"idle", "ok", "failed"}
    /\ Becomes(s, "running")
    /\ UNCHANGED <<entry, survivors>>

Replace(s) ==
    /\ status[s] = "running" /\ Becomes(s, "replaced")
    /\ entry' # None
    /\ survivors' = survivors \cup {entry'}

Settle(s) ==
    /\ status[s] = "replaced" /\ Becomes(s, "settled")
    /\ survivors' = {entry}
    /\ UNCHANGED entry

Succeed(s) ==
    /\ status[s] = "settled" /\ Becomes(s, "ok")
    /\ UNCHANGED <<entry, survivors>>

Fail(s) ==
    /\ status[s] \in {"running", "replaced", "settled"} /\ Becomes(s, "failed")
    /\ UNCHANGED <<entry, survivors>>

Outside ==
    /\ survivors' = survivors \cup {entry'}
    /\ UNCHANGED status

Restart == status' = [s \in Savers |-> "idle"]

Kill == Restart /\ UNCHANGED <<entry, survivors>>

PowerCut ==
    /\ entry' \in survivors /\ survivors' = {entry'}
    /\ Restart

Next ==
    \/ \E s \in Savers : Begin(s) \/ Replace(s) \/ Settle(s) \/ Succeed(s) \/ Fail(s)
    \/ Outside \/ Kill \/ PowerCut

Spec == Init /\ [][Next]_vars

=============================================================================
