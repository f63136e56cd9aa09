-------------------------- MODULE EditHistoryProps --------------------------
(***************************************************************************)
(* What undo, redo and the dirty flag must guarantee.                      *)
(***************************************************************************)
EXTENDS EditHistory

Types == {"other", "write", "delete"}
Entries == [cursorBefore : Nat, generation : Nat, at : Nat, deleted : Texts, added : Texts]
Anchors == [kind : {"insert", "delete"}, offset : Nat]
Buffers ==
    [text : Texts, generation : Nat, cursor : Nat, undo : Seq(Entries), redo : Seq(Entries),
     lastType : Types, anchor : Anchors \cup {None}]

\* Every variable holds what the code's types allow.
TypeOK ==
    /\ tb \in Buffers /\ tb.cursor <= Len(tb.text)
    /\ saveGeneration \in Nat /\ revision \in Nat
    /\ saving \in [revision : Nat, text : Texts] \cup {None} /\ saved \in Texts

\* An edit that may be continued is the last one, and nothing was undone since: a
\* continuation, which leaves the redo stack alone, never finds anything on it.
AnchorIsOnTop ==
    tb.anchor # None =>
        /\ tb.undo # <<>> /\ tb.redo = <<>>
        /\ tb.anchor.offset = Last(tb.undo).at + Len(Last(tb.undo).added)

\* Older entries began at older generations: entries of equal generation are one group.
GenerationsGrow ==
    /\ \A i, j \in DOMAIN tb.undo : i < j => tb.undo[i].generation <= tb.undo[j].generation
    /\ tb.undo # <<>> => Last(tb.undo).generation < tb.generation

-----------------------------------------------------------------------------
(* The inductive invariant, with what it needs besides *)

\* Undone entries lead forward in generations, as the others lead back.
RedoIsAhead ==
    /\ \A i, j \in DOMAIN tb.redo : i < j => tb.redo[i].generation >= tb.redo[j].generation
    /\ tb.redo # <<>> => Last(tb.redo).generation > tb.generation

\* An edit that skips a new entry finds one to extend.
RunHasEntry == tb.lastType # "other" => tb.undo # <<>>

\* The deletions an anchor continues added nothing.
DeletionsAddNothing ==
    tb.anchor # None /\ tb.anchor.kind = "delete" => Last(tb.undo).added = <<>>

\* The save under way has the text of its revision.
SaveIsOfItsRevision ==
    saving # None =>
        /\ saving.revision <= revision
        /\ saving.revision = revision => saving.text = tb.text

IInv ==
    /\ TypeOK /\ AnchorIsOnTop /\ RunHasEntry /\ DeletionsAddNothing
    /\ GenerationsGrow /\ RedoIsAhead /\ SaveIsOfItsRevision

-----------------------------------------------------------------------------
\* The texts a stack leads to, nearest first: those after whole groups of its entries.
Shown(stack) ==
    LET size == Len(stack)
        text == TextsBack(tb.text, stack)
        EndsGroup(k) == k = size \/ Top(stack, k).generation # Top(stack, k + 1).generation
        ends == SelectSeq([k \in 1..size |-> k], EndsGroup)
    IN  [i \in DOMAIN ends |-> text[ends[i]]]

Timeline == INSTANCE TextTimeline
              WITH past <- Shown(tb.undo), present <- tb.text,
                   future <- Shown(tb.redo)

\* Undo and redo go through the texts that were shown, in order, and nothing else.
ImplementsTimeline == Timeline!Spec

\* Redoing what was just undone gives the text back: an entry says where its text is.
UndoIsReversible ==
    tb.undo # <<>> =>
        UndoRedo(UndoRedo(tb, "undo", "redo"), "redo", "undo").text = tb.text

\* A late completion of an older save never makes newer text clean.
CompletionsKeepNewText ==
    [][CompleteSave /\ saveGeneration' # saveGeneration => saved' = tb.text]_vars

\* The buffer needs no saving only if the file has its text.
CleanIsSaved == ~IsDirty => tb.text = saved

=============================================================================
