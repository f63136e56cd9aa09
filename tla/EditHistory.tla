----------------------------- MODULE EditHistory -----------------------------
(***************************************************************************)
(* Undo, redo and the dirty flag of one document: TextBuffer's history     *)
(* stacks (edit_begin, edit_write, edit_delete, edit_replace, undo_redo),  *)
(* the commands of DocumentModel and the edit transactions that use them,  *)
(* and the saves that make the document clean.                             *)
(*                                                                         *)
(* A text is a sequence of characters of one byte, on one line, so that    *)
(* logical positions and offsets are the same numbers.  The selection is   *)
(* an input of the commands that use it.                                   *)
(***************************************************************************)
EXTENDS Integers, Sequences, SequencesExt

CONSTANTS
    Chars,          \* the characters that are typed
    Initial,        \* the text that was loaded
    None,           \* Option::None
    Env,            \* what may happen: "save", and "deleteAfterUndo" by the user
    UndoLimit,      \* entries the undo stack keeps (1000)
    MaxLen,         \* bound: length of the text
    MaxRevisions    \* bound: content revisions

Texts == Seq(Chars \cup ToSet(Initial))
ShortTexts == {text \in Texts : Len(text) <= MaxLen}

ASSUME ConstantsAssumption ==
    /\ Initial \in Seq(ToSet(Initial)) /\ None \notin Nat
    /\ Env \subseteq {"save", "deleteAfterUndo"}
    /\ UndoLimit \in Nat \ {0} /\ MaxLen \in Nat /\ MaxRevisions \in Nat

VARIABLES
    tb,             \* TextBuffer: text, generation, cursor, undo, redo, lastType, anchor
    saveGeneration, \* TextBuffer.last_save_generation
    revision,       \* DocumentModel.content_revision
    saving,         \* the save under way, or None
    saved           \* history: the text in the file

vars == <<tb, saveGeneration, revision, saving, saved>>

Init ==
    /\ tb = [text |-> Initial, generation |-> 0, cursor |-> 0, undo |-> <<>>, redo |-> <<>>,
             lastType |-> "other", anchor |-> None]
    /\ saveGeneration = 0 /\ revision = 0
    /\ saving = None /\ saved = Initial

IsDirty == saveGeneration # tb.generation

-----------------------------------------------------------------------------
(* One edit *)

Splice(text, from, to, replacement) ==
    SubSeq(text, 1, from) \o replacement \o SubSeq(text, to + 1, Len(text))

\* TextBuffer::edit_begin, outside any other edit.  Inside a group (group is what the
\* buffer was when it began) the entry starts where the group did.
Begin(b, type, at, group) ==
    LET origin == IF group = None THEN b ELSE group
        entry == [cursorBefore |-> origin.cursor, generation |-> origin.generation,
                  at |-> at, deleted |-> <<>>, added |-> <<>>]
        kept == SubSeq(b.undo, Len(b.undo) - UndoLimit + 1, Len(b.undo))
        continued == [b EXCEPT !.anchor = None, !.cursor = at]
    IN  IF type = b.lastType /\ type # "other" THEN continued
        ELSE [continued EXCEPT !.redo = <<>>, !.lastType = type,
                 !.undo = Append(IF Len(b.undo) > UndoLimit THEN kept ELSE b.undo, entry)]

\* Mutated form: a continued backspace appends what it deletes.
ReplacedAppending(b, from, to, replacement) ==
    LET entry == Last(b.undo)
    IN  [b EXCEPT !.text = Splice(b.text, from, to, replacement),
                  !.generation = b.generation + 1,
                  !.cursor = from + Len(replacement),
                  !.undo = Append(Front(b.undo),
                     [entry EXCEPT !.deleted = entry.deleted \o SubSeq(b.text, from + 1, to),
                                   !.added = entry.added \o replacement,
                                   !.at = IF from < entry.at THEN from ELSE entry.at])]

\* edit_write, edit_delete and edit_replace: what is deleted before the entry's position
\* goes in front of what the entry deleted already.
Replaced(b, from, to, replacement) ==
    LET entry == Last(b.undo)
        cut == SubSeq(b.text, from + 1, to)
    IN  [b EXCEPT !.text = Splice(b.text, from, to, replacement),
                  !.generation = b.generation + 1,
                  !.cursor = from + Len(replacement),
                  !.undo = Append(Front(b.undo),
                     IF from < entry.at
                     THEN [entry EXCEPT !.deleted = cut \o entry.deleted, !.at = from,
                                        !.added = entry.added \o replacement]
                     ELSE [entry EXCEPT !.deleted = entry.deleted \o cut,
                                        !.added = entry.added \o replacement])]

\* Mutated form: any edit of the same kind continues the last one.
ContinuesAnywhere(anchor, kind, r) ==
    anchor # None /\ anchor.kind = kind /\ kind \in {"insert", "delete"}

\* EditMergeAnchor::continues and after_edit.
Continues(anchor, kind, r) ==
    /\ anchor # None /\ anchor.kind = kind
    /\ \/ kind = "insert" /\ r.from = r.to /\ r.from = anchor.offset
       \/ kind = "delete" /\ r.text = <<>> /\ anchor.offset \in {r.from, r.to}

AnchorAfter(kind, r) ==
    IF kind = "insert" THEN [kind |-> kind, offset |-> r.from + Len(r.text)]
    ELSE IF kind = "delete" /\ r.text = <<>> THEN [kind |-> kind, offset |-> r.from]
    ELSE None

TypeOf(kind) ==
    IF kind = "insert" THEN "write" ELSE IF kind = "delete" THEN "delete" ELSE "other"

\* TextBuffer::replace_range_with_history: only the anchor decides about coalescing.
ReplaceRange(b, r, kind, group) ==
    LET type == IF Continues(b.anchor, kind, r) THEN TypeOf(kind) ELSE "other"
        begun == Begin([b EXCEPT !.lastType = type], TypeOf(kind), r.from, group)
    IN  IF r.from = r.to /\ r.text = <<>> THEN b
        ELSE [Replaced(begun, r.from, r.to, r.text) EXCEPT !.anchor = AnchorAfter(kind, r)]

\* A caret movement: set_cursor ends a run of deletions, and the user's ends the anchor.
MovedTo(b, offset) == [b EXCEPT !.cursor = offset, !.lastType = "other"]

-----------------------------------------------------------------------------
(* Undo and redo *)

\* The k-th entry from the top, and the text after the k entries on top are taken back.
Top(stack, k) == stack[Len(stack) - k + 1]

TextsBack(text, stack) ==
    LET Without(e) == [t \in Texts |-> Splice(t, e.at, e.at + Len(e.added), e.deleted)]
        back[k \in 0..Len(stack)] == IF k = 0 THEN text ELSE Without(Top(stack, k))[back[k - 1]]
    IN  back

\* cursor_move_to_logical_internal: not beyond the end of the text.
Clamped(offset, text) == IF Len(text) \in 0..offset THEN Len(text) ELSE offset

\* The entries on top of a stack that began at the same generation.
GroupSize(stack) ==
    LET Ends(i) == i = 0 \/ stack[i].generation # Last(stack).generation
        below == CHOOSE i \in 0..Len(stack) : Ends(i) /\ \A j \in (i + 1)..Len(stack) : ~Ends(j)
    IN  Len(stack) - below

\* undo_redo's loop, size rounds of it: each moves an entry to the other stack, with
\* what it adds and deletes swapped, and goes back to where the entry began.
Moved(b, from, to, size) ==
    LET stack == b[from]
        text == TextsBack(b.text, stack)
        CursorAfter(k) == IF k = 0 THEN b.cursor ELSE Clamped(Top(stack, k).cursorBefore, text[k])
        Turned(k) == [cursorBefore |-> CursorAfter(k - 1), generation |-> b.generation,
                      at |-> Top(stack, k).at, deleted |-> Top(stack, k).added,
                      added |-> Top(stack, k).deleted]
    IN  [b EXCEPT ![from] = SubSeq(stack, 1, Len(stack) - size),
                  ![to] = @ \o [k \in 1..size |-> Turned(k)],
                  !.text = text[size],
                  !.generation = Last(stack).generation,
                  !.cursor = CursorAfter(size),
                  !.anchor = None,
                  !.lastType = IF from = "undo" /\ size = Len(stack) THEN "other" ELSE @]

\* Mutated form: one entry at a time.
UndoRedoOne(b, from, to) ==
    IF b[from] = <<>> THEN [b EXCEPT !.anchor = None] ELSE Moved(b, from, to, 1)

\* TextBuffer::undo_redo.
UndoRedo(b, from, to) ==
    IF b[from] = <<>> THEN [b EXCEPT !.anchor = None]
    ELSE Moved(b, from, to, GroupSize(b[from]))

-----------------------------------------------------------------------------
(* Commands *)

Ranges == {range \in (0..Len(tb.text)) \X (0..Len(tb.text)) : range[1] <= range[2]}
Replacements(texts) ==
    {[from |-> range[1], to |-> range[2], text |-> text] : range \in Ranges, text \in texts}
Typed == {<<c>> : c \in Chars}

\* DocumentModel::sync_after_edit: every edit makes a new content revision.
ChangedBy(b, edits) ==
    /\ revision + edits <= MaxRevisions /\ b.text \in ShortTexts
    /\ tb' = b /\ revision' = revision + edits
    /\ UNCHANGED <<saveGeneration, saving, saved>>

Changed(b) == ChangedBy(b, 1)

\* apply_text_edit: one replacement, then the caret is set.
Transaction(kind, texts) ==
    \E r \in Replacements(texts) :
       /\ r.from < r.to \/ r.text # <<>>
       /\ Changed(MovedTo(ReplaceRange(tb, r, kind, tb), r.from + Len(r.text)))

InsertText == Transaction("insert", Typed)
DeleteText == Transaction("delete", {<<>>})
ReplaceText == Transaction("standalone", Typed \cup {<<>>})

\* execute_grouped_replacements: from the last replacement to the first, in one group.
ReplaceGroup ==
    \E first, last \in Replacements(Typed) :
       /\ first.from < first.to /\ first.to <= last.from /\ last.from < last.to
       /\ LET one == ReplaceRange(tb, last, "standalone", tb)
          IN  Changed(MovedTo(ReplaceRange(one, first, "standalone", tb), first.from))

\* DocumentModel::delete_selection moves the cursor over the selection.
SelectionDeleted(b, from, to) ==
    IF from = to THEN b
    ELSE Replaced(Begin(MovedTo(b, to), "delete", from, None), from, to, <<>>)

\* EditCommand::InsertChar: the selection is deleted, then write_raw.
InsertChar ==
    \E range \in Ranges, text \in Typed :
       LET b == SelectionDeleted(tb, range[1], range[2])
           none == range[1] = range[2]
           at == IF none THEN tb.cursor ELSE range[1]
       IN  ChangedBy(Replaced(Begin(b, "other", at, None), at, at, text), IF none THEN 1 ELSE 2)

\* Whether the user may press Backspace or Delete now.
MayDelete == "deleteAfterUndo" \in Env \/ tb.redo = <<>> \/ tb.lastType = "other"

\* EditCommand::Backspace and DeleteForward.
DeleteChar ==
    /\ MayDelete
    /\ \/ \E range \in Ranges : /\ range[1] < range[2]
                                /\ Changed(SelectionDeleted(tb, range[1], range[2]))
       \/ \E from \in {tb.cursor - 1, tb.cursor} :
             /\ from \in 0..(Len(tb.text) - 1)
             /\ Changed(Replaced(Begin(tb, "delete", from, None), from, from + 1, <<>>))

Undo == Changed(UndoRedo(tb, "undo", "redo"))
Redo == Changed(UndoRedo(tb, "redo", "undo"))

\* Keys and clicks break the run (break_edit_merge); other caret movements need not.
MoveCursor ==
    /\ \E offset \in 0..Len(tb.text), anchor \in {tb.anchor, None} :
          tb' = [MovedTo(tb, offset) EXCEPT !.anchor = anchor]
    /\ UNCHANGED <<saveGeneration, revision, saving, saved>>

SubmitSave ==
    /\ "save" \in Env /\ saving = None
    /\ saving' = [revision |-> revision, text |-> tb.text]
    /\ UNCHANGED <<tb, saveGeneration, revision, saved>>

\* Mutated form: every completion makes the document clean.
CompleteSaveAlways ==
    /\ saving # None /\ saved' = saving.text /\ saving' = None
    /\ saveGeneration' = tb.generation
    /\ UNCHANGED <<tb, revision>>

\* DocumentModel::apply_save_completion and mark_as_clean.
CompleteSave ==
    /\ saving # None /\ saved' = saving.text /\ saving' = None
    /\ saveGeneration' = IF saving.revision = revision THEN tb.generation ELSE saveGeneration
    /\ UNCHANGED <<tb, revision>>

Next ==
    \/ InsertText \/ DeleteText \/ ReplaceText \/ ReplaceGroup
    \/ InsertChar \/ DeleteChar \/ Undo \/ Redo \/ MoveCursor
    \/ SubmitSave \/ CompleteSave

Spec == Init /\ [][Next]_vars

=============================================================================
