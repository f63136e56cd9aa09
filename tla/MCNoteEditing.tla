--------------------------- MODULE MCNoteEditing ---------------------------
(* Two notes, or one, and a file less taken: there a note may move to. *)
EXTENDS NoteEditingProps, TLC

TwoFiles == "n1" :> "a" @@ "n2" :> "b"
OneFile == "n1" :> "a"
=============================================================================
