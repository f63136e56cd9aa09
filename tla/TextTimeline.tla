---------------------------- MODULE TextTimeline ----------------------------
(***************************************************************************)
(* What undo and redo promise the user: the texts the document had, in     *)
(* order.  An edit starts a new present, or continues the last one, and    *)
(* forgets what was undone; undo and redo step through texts that were     *)
(* shown, and through nothing else.                                        *)
(***************************************************************************)
EXTENDS Sequences

VARIABLES
    past,           \* the texts undo goes back to, nearest first
    present,        \* the text shown
    future          \* the texts redo goes on to, nearest first

vars == <<past, present, future>>

Init == past = <<>> /\ future = <<>>

NewEdit == past' = <<present>> \o past /\ future' = <<>>

\* Typing goes on where it stopped: one undo takes it all back.
ContinuedEdit == past # <<>> /\ future = <<>> /\ UNCHANGED <<past, future>>

\* Typing over a selection deletes it first, which is an edit of its own.
TypeOver ==
    /\ past' # <<>> /\ Tail(past') = <<present>> \o past
    /\ future' = <<>>

Undo ==
    /\ past # <<>>
    /\ present' = Head(past) /\ past' = Tail(past)
    /\ future' = <<present>> \o future

Redo ==
    /\ future # <<>>
    /\ present' = Head(future) /\ future' = Tail(future)
    /\ past' = <<present>> \o past

Next == ContinuedEdit \/ NewEdit \/ TypeOver \/ Undo \/ Redo

Spec == Init /\ [][Next]_vars

=============================================================================
