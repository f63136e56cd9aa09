------------------------- MODULE EditHistory_proofs -------------------------
(***************************************************************************)
(* Proofs about undo, redo and the dirty flag: the buffer stays sound and  *)
(* its caret in the text whatever is typed, undone and redone, and the     *)
(* generations of the stacks' entries tell groups apart, for any text, any *)
(* limit of the undo stack and any number of edits.                        *)
(***************************************************************************)
EXTENDS EditHistoryProps, TLAPS, SequenceTheorems, WellFoundedInduction

-----------------------------------------------------------------------------
(* Buffers *)

Sorted(stack) ==
    \A i, j \in DOMAIN stack : i < j => stack[i].generation <= stack[j].generation
Falling(stack) ==
    \A i, j \in DOMAIN stack : i < j => stack[i].generation >= stack[j].generation

\* IInv's parts about the buffer, of any buffer.
Sound(b) ==
    /\ b \in Buffers
    /\ b.lastType # "other" => b.undo # <<>>
    /\ b.anchor # None =>
          /\ b.undo # <<>> /\ b.redo = <<>>
          /\ b.anchor.offset = Last(b.undo).at + Len(Last(b.undo).added)
          /\ b.anchor.kind = "delete" => Last(b.undo).added = <<>>

\* The order of the generations, of any buffer.
Grown(b) ==
    /\ Sorted(b.undo) /\ \A i \in DOMAIN b.undo : b.undo[i].generation < b.generation
    /\ Falling(b.redo) /\ \A i \in DOMAIN b.redo : b.redo[i].generation > b.generation

\* A buffer between edit_begin and the edit.
Begun(b) ==
    /\ b \in Buffers /\ b.undo # <<>> /\ b.anchor = None

GrownBegun(b) ==
    /\ Sorted(b.undo) /\ \A i \in DOMAIN b.undo : b.undo[i].generation <= b.generation
    /\ b.redo = <<>>

-----------------------------------------------------------------------------
(* Texts and stacks *)

\* Any part of a text is one.
LEMMA PartIsText ==
    ASSUME NEW text \in Texts, NEW from \in 0..Len(text), NEW to \in from..Len(text)
    PROVE  /\ SubSeq(text, from + 1, to) \in Texts
           /\ Len(SubSeq(text, from + 1, to)) = to - from
<1>1. \A i \in (from + 1)..to : text[i] \in Chars \cup ToSet(Initial)
  BY DEF Texts
<1>2. from + 1 \in Int /\ to \in Int
  BY DEF Texts
<1> QED BY <1>1, <1>2, SubSeqProperties DEF Texts

\* Two texts one after the other are a text.
LEMMA ConcatIsText ==
    ASSUME NEW t \in Texts, NEW u \in Texts
    PROVE  t \o u \in Texts /\ Len(t \o u) = Len(t) + Len(u)
BY DEF Texts

\* A text has a length.
LEMMA TextLen == \A t \in Texts : Len(t) \in Nat
BY DEF Texts

\* What a splice gives is a text of the length one expects.
LEMMA SpliceIsText ==
    ASSUME NEW text \in Texts, NEW from \in 0..Len(text), NEW to \in from..Len(text),
           NEW replacement \in Texts
    PROVE  /\ Splice(text, from, to, replacement) \in Texts
           /\ Len(Splice(text, from, to, replacement)) =
                Len(text) - (to - from) + Len(replacement)
<1> DEFINE front == SubSeq(text, 1, from)
           back == SubSeq(text, to + 1, Len(text))
<1>1. Len(text) \in Nat
  BY DEF Texts
<1>2. front \in Texts /\ Len(front) = from
  BY <1>1, PartIsText, 0 \in 0..Len(text), from \in 0..Len(text)
<1>3. back \in Texts /\ Len(back) = Len(text) - to
  BY <1>1, PartIsText, to \in 0..Len(text), Len(text) \in to..Len(text)
<1>4. front \o replacement \in Texts /\ Len(front \o replacement) = from + Len(replacement)
  BY <1>2, ConcatIsText
<1> DEFINE head == front \o replacement
<1> HIDE DEF head
<1>7. head \in Texts /\ Len(head) = from + Len(replacement)
  BY <1>4 DEF head
<1> HIDE DEF front, back
<1>5. /\ head \o back \in Texts
      /\ Len(head \o back) = from + Len(replacement) + (Len(text) - to)
  BY <1>3, <1>7, ConcatIsText
<1>8. Splice(text, from, to, replacement) = head \o back
  BY DEF Splice, head, front, back
<1>9. Len(replacement) \in Nat
  BY TextLen
<1> QED BY <1>1, <1>5, <1>8, <1>9

\* Every generation a buffer holds is a number.
LEMMA GenerationsAreNumbers ==
    \A b \in Buffers :
        /\ b.generation \in Nat
        /\ \A i \in DOMAIN b.undo : b.undo[i].generation \in Nat
        /\ \A i \in DOMAIN b.redo : b.redo[i].generation \in Nat
<1> TAKE b \in Buffers
<1>1. b.generation \in Nat /\ b.undo \in Seq(Entries) /\ b.redo \in Seq(Entries)
  BY DEF Buffers
<1>2. \A i \in DOMAIN b.undo : b.undo[i] \in Entries
  BY <1>1, LenProperties, ElementOfSeq
<1>3. \A i \in DOMAIN b.redo : b.redo[i] \in Entries
  BY <1>1, LenProperties, ElementOfSeq
<1> QED BY <1>1, <1>2, <1>3 DEF Entries

\* The empty text.
LEMMA EmptyIsText == <<>> \in Texts /\ Len(<<>>) = 0
BY DEF Texts

\* The places below the last one.
LEMMA BelowTop ==
    \A n, m \in Nat : m + 1 = n => \A i \in 1..n : i # n => i \in 1..m /\ i \in 1..(n - 1)
OBVIOUS

\* A stack with another entry on top.
LEMMA Appended ==
    ASSUME NEW stack \in Seq(Entries), NEW e \in Entries
    PROVE  LET s == Append(stack, e)
           IN  /\ s \in Seq(Entries) /\ s # <<>> /\ Len(s) = Len(stack) + 1 /\ Last(s) = e
               /\ DOMAIN s = 1..(Len(stack) + 1)
               /\ \A i \in 1..Len(stack) : s[i] = stack[i]
               /\ s[Len(stack) + 1] = e
<1> DEFINE s == Append(stack, e)
<1>1. /\ s \in Seq(Entries) /\ s # <<>> /\ Len(s) = Len(stack) + 1
      /\ \A i \in 1..Len(stack) : s[i] = stack[i]
      /\ s[Len(stack) + 1] = e
  BY AppendProperties
<1> HIDE DEF s
<1>2. Last(s) = e
  BY <1>1 DEF Last
<1>3. DOMAIN s = 1..(Len(stack) + 1)
  BY <1>1, LenProperties
<1> QED BY <1>1, <1>2, <1>3 DEF s

\* A stack whose top entry was written to again.
LEMMA TopReplaced ==
    ASSUME NEW stack \in Seq(Entries), stack # <<>>, NEW e \in Entries
    PROVE  LET s == Append(Front(stack), e)
           IN  /\ s \in Seq(Entries) /\ s # <<>> /\ DOMAIN s = DOMAIN stack /\ Last(s) = e
               /\ \A i \in DOMAIN s : i # Len(stack) => s[i] = stack[i]
               /\ s[Len(stack)] = e /\ Len(s) = Len(stack)
<1>1. Len(stack) \in Nat \ {0} /\ DOMAIN stack = 1..Len(stack)
  BY EmptySeq, LenProperties
<1>2. \A i \in 1..(Len(stack) - 1) : stack[i] \in Entries
  BY <1>1
<1>3. /\ Front(stack) \in Seq(Entries) /\ Len(Front(stack)) = Len(stack) - 1
      /\ \A i \in 1..(Len(stack) - 1) : Front(stack)[i] = stack[i]
  BY <1>1, <1>2, SubSeqProperties DEF Front
<1> DEFINE front == Front(stack)
<1> HIDE DEF front
<1>4. front \in Seq(Entries) /\ Len(front) + 1 = Len(stack)
  BY <1>1, <1>3 DEF front
<1>5. \A i \in 1..(Len(stack) - 1) : front[i] = stack[i]
  BY <1>3 DEF front
<1> DEFINE s == Append(front, e)
<1>6. /\ s \in Seq(Entries) /\ s # <<>> /\ Len(s) = Len(front) + 1 /\ Last(s) = e
      /\ DOMAIN s = 1..(Len(front) + 1) /\ s[Len(front) + 1] = e
      /\ \A i \in 1..Len(front) : s[i] = front[i]
  BY <1>4, Appended
<1> HIDE DEF s
<1>7. /\ s \in Seq(Entries) /\ s # <<>> /\ DOMAIN s = DOMAIN stack /\ Last(s) = e
      /\ \A i \in DOMAIN s : i # Len(stack) => s[i] = stack[i]
      /\ s[Len(stack)] = e /\ Len(s) = Len(stack)
  <2>1. Len(front) \in Nat /\ Len(front) + 1 = Len(stack)
    BY <1>4, LenProperties
  <2>2. DOMAIN s = 1..Len(stack) /\ s[Len(stack)] = e /\ Len(s) = Len(stack)
    BY <1>6, <2>1
  <2>3. \A i \in 1..Len(stack) : i # Len(stack) => i \in 1..Len(front) /\ i \in 1..(Len(stack) - 1)
    BY <1>1, <2>1, BelowTop
  <2>4. \A i \in 1..Len(stack) : i # Len(stack) => s[i] = stack[i]
    BY <1>5, <1>6, <2>3
  <2> QED BY <1>1, <1>6, <2>2, <2>4
<1> QED BY <1>7 DEF s, front

\* What edit_begin keeps of a stack beyond the limit.
LEMMA KeptStack ==
    ASSUME NEW stack \in Seq(Entries), Len(stack) > UndoLimit
    PROVE  LET s == SubSeq(stack, Len(stack) - UndoLimit + 1, Len(stack))
           IN  /\ s \in Seq(Entries) /\ Len(s) = UndoLimit
               /\ \A i \in 1..Len(s) : s[i] = stack[Len(stack) - UndoLimit + i]
<1>1. UndoLimit \in Nat \ {0} /\ Len(stack) \in Nat
  BY ConstantsAssumption
<1>2. \A i \in (Len(stack) - UndoLimit + 1)..Len(stack) : stack[i] \in Entries
  BY <1>1
<1> QED BY <1>1, <1>2, SubSeqProperties

-----------------------------------------------------------------------------
(* One edit *)

\* Whether edit_begin goes on with the entry on top.
Skips(b, type) == type = b.lastType /\ type # "other"

\* A group began no later than the buffer, and no earlier than its entries.
Groups(b, group) ==
    group = None \/
      /\ group.generation <= b.generation
      /\ \A i \in DOMAIN b.undo : b.undo[i].generation <= group.generation

\* Begin's local definitions.
Origin(b, group) == IF group = None THEN b ELSE group
NewEntry(b, at, group) ==
    [cursorBefore |-> Origin(b, group).cursor, generation |-> Origin(b, group).generation,
     at |-> at, deleted |-> <<>>, added |-> <<>>]
Kept(stack) ==
    IF Len(stack) > UndoLimit THEN SubSeq(stack, Len(stack) - UndoLimit + 1, Len(stack))
    ELSE stack

\* Whether or not the limit is reached, the newest entries are kept in order.
LEMMA KeptIsStack ==
    ASSUME NEW stack \in Seq(Entries)
    PROVE  /\ Kept(stack) \in Seq(Entries) /\ Len(Kept(stack)) <= Len(stack)
           /\ \A i \in 1..Len(Kept(stack)) :
                 Kept(stack)[i] = stack[Len(stack) - Len(Kept(stack)) + i]
<1>1. UndoLimit \in Nat \ {0} /\ Len(stack) \in Nat
  BY ConstantsAssumption, LenProperties
<1>2. CASE Len(stack) > UndoLimit
  BY <1>1, <1>2, KeptStack DEF Kept
<1>3. CASE ~(Len(stack) > UndoLimit)
  BY <1>1, <1>3 DEF Kept
<1> QED BY <1>2, <1>3

\* What edit_begin makes of a buffer.
BegunFrom(c, b, type, at) ==
    /\ Begun(c) /\ c.text = b.text /\ c.generation = b.generation /\ c.cursor = at
    /\ Skips(b, type) => c.undo = b.undo /\ c.redo = b.redo /\ c.lastType = b.lastType
    /\ ~Skips(b, type) =>
          /\ c.redo = <<>> /\ c.lastType = type
          /\ Last(c.undo).at = at /\ Last(c.undo).added = <<>>

\* What the edit makes of it then.
ReplacedFrom(d, c, from, to, replacement) ==
    /\ d \in Buffers /\ d.undo # <<>> /\ d.anchor = None
    /\ d.text = Splice(c.text, from, to, replacement)
    /\ d.generation = c.generation + 1
    /\ d.cursor = from + Len(replacement)
    /\ d.lastType = c.lastType /\ d.redo = c.redo
    /\ DOMAIN d.undo = DOMAIN c.undo
    /\ \A i \in DOMAIN d.undo : d.undo[i].generation = c.undo[i].generation
    /\ Last(d.undo).added = Last(c.undo).added \o replacement
    /\ Last(d.undo).at = IF from < Last(c.undo).at THEN from ELSE Last(c.undo).at

\* edit_begin leaves an entry to write to, and the text as it is.
LEMMA BeginIsBegun ==
    ASSUME NEW b, Sound(b), NEW type \in Types, NEW at \in Nat, NEW group \in Buffers \cup {None}
    PROVE  BegunFrom(Begin(b, type, at, group), b, type, at)
<1> DEFINE c == Begin(b, type, at, group)
<1>1. b \in Buffers /\ b.undo \in Seq(Entries)
  BY DEF Sound, Buffers
<1>2. CASE Skips(b, type)
  <2>1. c = [b EXCEPT !.anchor = None, !.cursor = at]
    BY <1>1, <1>2 DEF Begin, Skips, Kept, NewEntry, Origin, Buffers
  <2>2. b.undo # <<>>
    BY <1>2 DEF Sound, Skips
  <2> HIDE DEF c
  <2>3. c \in Buffers /\ c.undo = b.undo /\ c.redo = b.redo /\ c.lastType = b.lastType
        /\ c.text = b.text /\ c.generation = b.generation /\ c.cursor = at /\ c.anchor = None
    BY <1>1, <2>1 DEF Buffers
  <2> QED BY <1>2, <2>2, <2>3 DEF BegunFrom, Begun, c
<1>3. CASE ~Skips(b, type)
  <2>0. c = [b EXCEPT !.anchor = None, !.cursor = at, !.redo = <<>>, !.lastType = type,
                      !.undo = Append(Kept(b.undo), NewEntry(b, at, group))]
    BY <1>1, <1>3 DEF Begin, Skips, Kept, NewEntry, Origin, Buffers
  <2> DEFINE entry == NewEntry(b, at, group)
             undo == Append(Kept(b.undo), entry)
  <2> HIDE DEF c
  <2>1. entry \in Entries /\ entry.at = at /\ entry.added = <<>>
    <3>1. Origin(b, group) \in Buffers
      BY <1>1 DEF Origin
    <3> QED BY <3>1, EmptyIsText DEF NewEntry, Entries, Buffers
  <2>3. c = [b EXCEPT !.anchor = None, !.cursor = at, !.redo = <<>>, !.lastType = type,
                      !.undo = undo]
    BY <2>0
  <2> HIDE DEF entry
  <2>2. undo \in Seq(Entries) /\ undo # <<>> /\ Last(undo) = entry
    BY <1>1, <2>1, KeptIsStack, Appended
  <2> HIDE DEF undo
  <2>4. <<>> \in Seq(Entries)
    BY EmptySeq
  <2>5. c \in Buffers /\ c.undo = undo /\ c.redo = <<>> /\ c.lastType = type
        /\ c.text = b.text /\ c.generation = b.generation /\ c.cursor = at /\ c.anchor = None
    BY <1>1, <2>2, <2>3, <2>4 DEF Buffers
  <2> QED BY <1>3, <2>1, <2>2, <2>5 DEF BegunFrom, Begun, c
<1> QED BY <1>2, <1>3

\* edit_begin keeps the generations of a buffer in order.
LEMMA BeginIsGrown ==
    ASSUME NEW b, Sound(b), Grown(b), NEW type \in Types, NEW at \in Nat,
           NEW group \in Buffers \cup {None}, Groups(b, group), Skips(b, type) => b.redo = <<>>
    PROVE  GrownBegun(Begin(b, type, at, group))
<1> DEFINE c == Begin(b, type, at, group)
<1>1. /\ b \in Buffers /\ b.undo \in Seq(Entries) /\ b.generation \in Nat
      /\ \A i \in DOMAIN b.undo : b.undo[i].generation \in Nat
  <2>1. b \in Buffers /\ b.undo \in Seq(Entries) /\ b.generation \in Nat
    BY DEF Sound, Buffers
  <2>2. \A i \in DOMAIN b.undo : b.undo[i] \in Entries
    BY <2>1, LenProperties, ElementOfSeq
  <2> QED BY <2>1, <2>2 DEF Entries
<1>0. BegunFrom(c, b, type, at)
  BY BeginIsBegun
<1>2. c.generation = b.generation /\ (~Skips(b, type) => c.redo = <<>>)
      /\ (Skips(b, type) => c.redo = b.redo /\ c.undo = b.undo)
  BY <1>0 DEF BegunFrom
<1>3. CASE Skips(b, type)
  <2> HIDE DEF c
  <2> QED BY <1>1, <1>2, <1>3 DEF GrownBegun, Grown, Sorted, c
<1>4. CASE ~Skips(b, type)
  <2> DEFINE entry == NewEntry(b, at, group)
             kept == Kept(b.undo)
             undo == Append(kept, entry)
  <2>0. c = [b EXCEPT !.anchor = None, !.cursor = at, !.redo = <<>>, !.lastType = type,
                      !.undo = Append(Kept(b.undo), NewEntry(b, at, group))]
    BY <1>1, <1>4 DEF Begin, Skips, Kept, NewEntry, Origin, Buffers
  <2>1. c.undo = undo
    <3> HIDE DEF c
    <3> QED BY <1>1, <2>0 DEF Buffers
  <2>2. /\ entry \in Entries /\ entry.generation \in Nat /\ entry.generation <= b.generation
        /\ \A i \in DOMAIN b.undo : b.undo[i].generation <= entry.generation
    <3>1. Origin(b, group) \in Buffers
      BY <1>1 DEF Origin
    <3>2. /\ entry \in Entries /\ entry.generation = Origin(b, group).generation
          /\ entry.generation \in Nat
      BY <3>1, EmptyIsText DEF NewEntry, Entries, Buffers
    <3>3. CASE group = None
      <4>1. entry.generation = b.generation
        BY <3>2, <3>3 DEF Origin
      <4>2. \A i \in DOMAIN b.undo : b.undo[i].generation < b.generation
        BY DEF Grown
      <4> HIDE DEF entry
      <4> QED BY <1>1, <3>2, <4>1, <4>2
    <3>4. CASE group # None
      <4>1. entry.generation = group.generation
        BY <3>2, <3>4 DEF Origin
      <4> HIDE DEF entry
      <4> QED BY <3>2, <3>4, <4>1 DEF Groups
    <3> QED BY <3>3, <3>4
  <2>3. /\ kept \in Seq(Entries) /\ Len(kept) <= Len(b.undo)
        /\ \A i \in 1..Len(kept) : kept[i] = b.undo[Len(b.undo) - Len(kept) + i]
    BY <1>1, KeptIsStack
  <2> HIDE DEF entry, kept
  <2>4. /\ DOMAIN undo = 1..(Len(kept) + 1) /\ undo[Len(kept) + 1] = entry
        /\ \A i \in 1..Len(kept) : undo[i] = kept[i]
    BY <2>2, <2>3, Appended
  <2> HIDE DEF undo, c
  <2>5. Len(kept) \in Nat /\ Len(b.undo) \in Nat /\ DOMAIN b.undo = 1..Len(b.undo)
    BY <1>1, <2>3, LenProperties
  <2>6. \A i \in 1..Len(kept) :
           /\ Len(b.undo) - Len(kept) + i \in DOMAIN b.undo
           /\ undo[i].generation = b.undo[Len(b.undo) - Len(kept) + i].generation
    BY <2>3, <2>4, <2>5
  <2>7. \A i \in 1..Len(kept) : undo[i].generation <= entry.generation
    BY <2>2, <2>6
  <2>8. \A i, j \in 1..Len(kept) : i < j => undo[i].generation <= undo[j].generation
    <3> SUFFICES ASSUME NEW i \in 1..Len(kept), NEW j \in 1..Len(kept), i < j
                 PROVE  undo[i].generation <= undo[j].generation
      OBVIOUS
    <3>1. Len(b.undo) - Len(kept) + i < Len(b.undo) - Len(kept) + j
      BY <2>5
    <3> QED BY <2>6, <3>1 DEF Grown, Sorted
  <2>9. \A i \in 1..(Len(kept) + 1) : i \in 1..Len(kept) \/ i = Len(kept) + 1
    BY <2>5
  <2>10. Sorted(undo)
    <3> SUFFICES ASSUME NEW i \in 1..(Len(kept) + 1), NEW j \in 1..(Len(kept) + 1), i < j
                 PROVE  undo[i].generation <= undo[j].generation
      BY <2>4 DEF Sorted
    <3>1. i \in 1..Len(kept)
      BY <2>5
    <3> QED BY <2>4, <2>7, <2>8, <2>9, <3>1
  <2>11. \A i \in DOMAIN undo : undo[i].generation <= b.generation
    <3>1. \A i \in 1..Len(kept) : undo[i].generation \in Nat
      BY <1>1, <2>6
    <3> QED BY <1>1, <2>2, <2>4, <2>7, <2>9, <3>1
  <2> QED BY <1>2, <1>4, <2>1, <2>10, <2>11 DEF GrownBegun, c
<1> QED BY <1>3, <1>4

\* What edit_write and edit_delete do to the entry on top.
LEMMA ReplacedShape ==
    ASSUME NEW c, Begun(c), NEW from \in 0..Len(c.text), NEW to \in from..Len(c.text),
           NEW replacement \in Texts
    PROVE  ReplacedFrom(Replaced(c, from, to, replacement), c, from, to, replacement)
<1> DEFINE d == Replaced(c, from, to, replacement)
           entry == Last(c.undo)
           cut == SubSeq(c.text, from + 1, to)
           written == IF from < entry.at
                      THEN [entry EXCEPT !.deleted = cut \o entry.deleted, !.at = from,
                                         !.added = entry.added \o replacement]
                      ELSE [entry EXCEPT !.deleted = entry.deleted \o cut,
                                         !.added = entry.added \o replacement]
           text == Splice(c.text, from, to, replacement)
           undo == Append(Front(c.undo), written)
<1>1. /\ c \in Buffers /\ c.undo \in Seq(Entries) /\ c.undo # <<>> /\ c.text \in Texts
      /\ c.anchor = None /\ c.generation \in Nat
  BY DEF Begun, Buffers
<1>2. d = [c EXCEPT !.text = text, !.generation = c.generation + 1,
                    !.cursor = from + Len(replacement), !.undo = undo]
  BY DEF Replaced
<1> HIDE DEF d
<1>3. text \in Texts
  BY <1>1, SpliceIsText
<1> HIDE DEF text
<1>4. cut \in Texts
  BY <1>1, PartIsText
<1> HIDE DEF cut
<1>5. Len(c.undo) \in Nat \ {0} /\ DOMAIN c.undo = 1..Len(c.undo)
  BY <1>1, LenProperties, EmptySeq
<1>6. entry \in Entries /\ entry = c.undo[Len(c.undo)]
  BY <1>1, <1>5, ElementOfSeq DEF Last
<1> HIDE DEF entry
<1>7. /\ written \in Entries /\ written.generation = entry.generation
      /\ written.added = entry.added \o replacement
      /\ written.at = IF from < entry.at THEN from ELSE entry.at
  <2>1. entry.deleted \in Texts /\ entry.added \in Texts /\ entry.at \in Nat
    BY <1>6 DEF Entries
  <2>2. /\ cut \o entry.deleted \in Texts /\ entry.deleted \o cut \in Texts
        /\ entry.added \o replacement \in Texts
    BY <1>4, <2>1, ConcatIsText
  <2>3. from \in Nat
    OBVIOUS
  <2> QED BY <1>6, <2>1, <2>2, <2>3 DEF Entries
<1> HIDE DEF written
<1>8. /\ undo \in Seq(Entries) /\ undo # <<>> /\ DOMAIN undo = DOMAIN c.undo
      /\ Last(undo) = written /\ undo[Len(c.undo)] = written
      /\ \A i \in DOMAIN undo : i # Len(c.undo) => undo[i] = c.undo[i]
  BY <1>1, <1>7, TopReplaced
<1> HIDE DEF undo
<1>9. from + Len(replacement) \in Nat
  BY TextLen
<1> DEFINE cursor == from + Len(replacement)
           generation == c.generation + 1
<1>12. cursor \in Nat /\ generation \in Nat
  BY <1>1, <1>9
<1>13. d = [c EXCEPT !.text = text, !.generation = generation, !.cursor = cursor,
                     !.undo = undo]
  BY <1>2
<1> HIDE DEF cursor, generation
<1>14. /\ d.undo = undo /\ d.anchor = c.anchor /\ d.text = text
       /\ d.generation = generation /\ d.cursor = cursor
       /\ d.lastType = c.lastType /\ d.redo = c.redo
  BY <1>1, <1>13 DEF Buffers
<1>15. d \in Buffers
  BY <1>1, <1>3, <1>8, <1>12, <1>13 DEF Buffers
<1>10. /\ d \in Buffers /\ d.undo = undo /\ d.anchor = None /\ d.text = text
       /\ d.generation = c.generation + 1 /\ d.cursor = from + Len(replacement)
       /\ d.lastType = c.lastType /\ d.redo = c.redo
  BY <1>1, <1>14, <1>15 DEF cursor, generation
<1>11. \A i \in DOMAIN undo : undo[i].generation = c.undo[i].generation
  BY <1>6, <1>7, <1>8
<1> QED BY <1>7, <1>8, <1>10, <1>11 DEF ReplacedFrom, d, text, entry

\* An edit leaves a sound buffer, with its caret in the text.
LEMMA ReplacedIsSound ==
    ASSUME NEW c, Begun(c), NEW from \in 0..Len(c.text), NEW to \in from..Len(c.text),
           NEW replacement \in Texts
    PROVE  LET d == Replaced(c, from, to, replacement)
           IN  Sound(d) /\ d.cursor \in 0..Len(d.text)
<1>1. /\ Len(Splice(c.text, from, to, replacement)) = Len(c.text) - (to - from) + Len(replacement)
      /\ Len(c.text) \in Nat /\ Len(replacement) \in Nat
  BY SpliceIsText, TextLen DEF Begun, Buffers
<1> DEFINE d == Replaced(c, from, to, replacement)
<1>2. /\ d \in Buffers /\ d.undo # <<>> /\ d.anchor = None
      /\ d.text = Splice(c.text, from, to, replacement) /\ d.cursor = from + Len(replacement)
  BY ReplacedShape DEF ReplacedFrom
<1> HIDE DEF d
<1>3. d.cursor \in 0..Len(d.text)
  BY <1>1, <1>2
<1> QED BY <1>2, <1>3 DEF Sound, d

\* An edit's generation is the newest.
LEMMA ReplacedIsGrown ==
    ASSUME NEW c, Begun(c), GrownBegun(c), NEW from \in 0..Len(c.text),
           NEW to \in from..Len(c.text), NEW replacement \in Texts
    PROVE  Grown(Replaced(c, from, to, replacement))
<1> DEFINE d == Replaced(c, from, to, replacement)
<1>1. /\ d.generation = c.generation + 1 /\ d.redo = <<>>
      /\ DOMAIN d.undo = DOMAIN c.undo
      /\ \A i \in DOMAIN d.undo : d.undo[i].generation = c.undo[i].generation
  BY ReplacedShape DEF GrownBegun, ReplacedFrom
<1>2. c.generation \in Nat /\ c.undo \in Seq(Entries)
  BY DEF Begun, Buffers
<1>3. \A i \in DOMAIN c.undo : c.undo[i].generation \in Nat
  <2>1. \A i \in DOMAIN c.undo : c.undo[i] \in Entries
    BY <1>2, LenProperties, ElementOfSeq
  <2> QED BY <2>1 DEF Entries
<1> HIDE DEF d
<1>4. Sorted(d.undo) /\ \A i \in DOMAIN d.undo : d.undo[i].generation < d.generation
  BY <1>1, <1>2, <1>3 DEF GrownBegun, Sorted
<1>5. Falling(d.redo) /\ \A i \in DOMAIN d.redo : d.redo[i].generation > d.generation
  BY <1>1 DEF Falling
<1> QED BY <1>4, <1>5 DEF Grown, d

-----------------------------------------------------------------------------
(* Commands *)

Kinds == {"insert", "delete", "standalone"}

\* Where an anchored edit may go on is where the entry on top ends.
LEMMA ReplaceRangeIsSound ==
    ASSUME NEW b, Sound(b), NEW r, r.from \in 0..Len(b.text), r.to \in r.from..Len(b.text),
           r.text \in Texts, r.from < r.to \/ r.text # <<>>, NEW kind \in Kinds,
           NEW group \in Buffers \cup {None}
    PROVE  LET e == ReplaceRange(b, r, kind, group)
           IN  /\ Sound(e) /\ e.generation = b.generation + 1
               /\ e.text = Splice(b.text, r.from, r.to, r.text)
               /\ Grown(b) /\ Groups(b, group) => Grown(e)
<1> DEFINE continues == Continues(b.anchor, kind, r)
           type == IF continues THEN TypeOf(kind) ELSE "other"
           b2 == [b EXCEPT !.lastType = type]
           c == Begin(b2, TypeOf(kind), r.from, group)
           d == Replaced(c, r.from, r.to, r.text)
           anchor == AnchorAfter(kind, r)
           e == [d EXCEPT !.anchor = anchor]
<1>1. /\ b \in Buffers /\ Len(b.text) \in Nat /\ Len(r.text) \in Nat
      /\ r.from \in Nat /\ r.to \in Nat
  BY TextLen DEF Sound, Buffers
<1>2. TypeOf(kind) \in Types /\ type \in Types
  BY DEF TypeOf, Types
<1>3. ReplaceRange(b, r, kind, group) = e
  BY <1>1 DEF ReplaceRange
<1>4. continues => /\ b.anchor # None /\ TypeOf(kind) # "other"
  BY DEF Continues, TypeOf
<1> HIDE DEF type
<1>5. /\ b2 \in Buffers /\ b2.lastType = type /\ b2.text = b.text /\ b2.undo = b.undo
      /\ b2.redo = b.redo /\ b2.anchor = b.anchor /\ b2.generation = b.generation
  BY <1>1, <1>2 DEF Buffers
<1>6. Skips(b2, TypeOf(kind)) <=> continues
  BY <1>4, <1>5 DEF Skips, type
<1> HIDE DEF b2
<1>7. Sound(b2) /\ (Grown(b) => Grown(b2)) /\ (Groups(b, group) => Groups(b2, group))
  <2>1. b2.lastType # "other" => b2.undo # <<>>
    BY <1>4, <1>5 DEF type, Sound
  <2> QED BY <1>5, <2>1 DEF Sound, Grown, Groups
<1>20. BegunFrom(c, b2, TypeOf(kind), r.from)
  BY <1>1, <1>2, <1>7, BeginIsBegun
<1>8. /\ Begun(c) /\ c.text = b.text /\ c.generation = b.generation
      /\ continues => c.undo = b.undo /\ c.redo = b.redo
      /\ ~continues =>
            c.redo = <<>> /\ Last(c.undo).at = r.from /\ Last(c.undo).added = <<>>
  BY <1>5, <1>6, <1>20 DEF BegunFrom
<1>9. c.redo = <<>>
  BY <1>4, <1>8 DEF Sound
<1>10. Grown(b) /\ Groups(b, group) => GrownBegun(c)
  <2>1. Skips(b2, TypeOf(kind)) => b2.redo = <<>>
    BY <1>4, <1>5, <1>6 DEF Sound
  <2> QED BY <1>1, <1>2, <1>7, <2>1, BeginIsGrown
<1> HIDE DEF c
<1>19. r.from \in 0..Len(c.text) /\ r.to \in r.from..Len(c.text) /\ r.text \in Texts
  BY <1>8
<1>21. ReplacedFrom(d, c, r.from, r.to, r.text)
  BY <1>8, <1>19, ReplacedShape
<1>11. /\ d \in Buffers /\ d.undo # <<>> /\ d.redo = <<>>
       /\ d.text = Splice(b.text, r.from, r.to, r.text) /\ d.generation = b.generation + 1
       /\ Last(d.undo).added = Last(c.undo).added \o r.text
       /\ Last(d.undo).at = IF r.from < Last(c.undo).at THEN r.from ELSE Last(c.undo).at
  BY <1>8, <1>9, <1>21 DEF ReplacedFrom
<1>12. Grown(b) /\ Groups(b, group) => Grown(d)
  BY <1>8, <1>10, ReplacedIsGrown
<1> HIDE DEF d
<1>13. c.undo # <<>> /\ Last(c.undo).at \in Nat /\ Last(c.undo).added \in Texts
  <2>1. c.undo \in Seq(Entries) /\ c.undo # <<>>
    BY <1>8 DEF Begun, Buffers
  <2>2. Len(c.undo) \in Nat \ {0}
    BY <2>1, EmptySeq
  <2>3. Last(c.undo) \in Entries
    BY <2>1, <2>2, ElementOfSeq DEF Last
  <2> QED BY <2>1, <2>3 DEF Entries
<1>14. anchor \in Anchors \cup {None} /\ (anchor # None => anchor.kind = kind)
  BY <1>1 DEF AnchorAfter, Anchors
<1>15. ASSUME anchor # None
       PROVE  /\ anchor.offset = Last(d.undo).at + Len(Last(d.undo).added)
              /\ anchor.kind = "delete" => Last(d.undo).added = <<>>
  <2> DEFINE added == Last(c.undo).added
  <2>1. Len(added \o r.text) = Len(added) + Len(r.text) /\ Len(added) \in Nat
    BY <1>13, ConcatIsText, TextLen
  <2>2. ASSUME kind = "delete" PROVE r.text = <<>> /\ Len(r.text) = 0
    BY <1>15, <2>2, EmptyIsText DEF AnchorAfter
  <2>3. anchor.offset = IF kind = "insert" THEN r.from + Len(r.text) ELSE r.from
    BY <1>15 DEF AnchorAfter
  <2>4. kind \in {"insert", "delete"}
    BY <1>15 DEF AnchorAfter, Kinds
  <2>5. CASE ~continues
    <3>1. added = <<>> /\ Len(added) = 0 /\ Last(c.undo).at = r.from
      BY <1>8, <2>5, EmptyIsText
    <3>2. added \o r.text = r.text
      BY <3>1 DEF Texts
    <3>3. Last(d.undo).added = r.text /\ Last(d.undo).at = r.from
      BY <1>11, <3>1, <3>2
    <3> QED BY <1>1, <1>14, <1>15, <2>2, <2>3, <2>4, <3>3
  <2>6. CASE continues
    <3>1. /\ b.anchor # None /\ b.anchor.kind = kind /\ c.undo = b.undo
          /\ b.anchor.offset = Last(c.undo).at + Len(added)
          /\ kind = "delete" => added = <<>>
      BY <1>4, <1>8, <2>6 DEF Sound, Continues
    <3>2. CASE kind = "insert"
      <4>1. r.from = Last(c.undo).at + Len(added)
        BY <2>6, <3>1, <3>2 DEF Continues
      <4> HIDE DEF added
      <4>2. Last(d.undo).at = Last(c.undo).at
        BY <1>1, <1>11, <1>13, <2>1, <4>1
      <4>3. Len(Last(d.undo).added) = Len(added) + Len(r.text)
        BY <1>11, <2>1 DEF added
      <4>4. Last(d.undo).at \in Nat
        BY <4>2, <1>13
      <4>5. anchor.kind # "delete"
        BY <1>14, <1>15, <3>2
      <4> QED BY <1>1, <2>1, <2>3, <3>2, <4>1, <4>2, <4>3, <4>4, <4>5
    <3>3. CASE kind = "delete"
      <4>1. added = <<>> /\ Len(added) = 0 /\ r.text = <<>> /\ r.from <= r.to
        BY <1>1, <2>2, <3>1, <3>3, EmptyIsText
      <4>2. b.anchor.offset \in {r.from, r.to}
        BY <2>6, <3>3 DEF Continues
      <4>3. Last(c.undo).at \in {r.from, r.to}
        BY <1>13, <3>1, <4>1, <4>2
      <4>4. Last(d.undo).at = r.from
        BY <1>1, <1>11, <4>1, <4>3
      <4>5. Last(d.undo).added = <<>>
        BY <1>11, <4>1
      <4> QED BY <1>1, <2>3, <3>3, <4>4, <4>5, EmptyIsText
    <3> QED BY <2>4, <3>2, <3>3
  <2> QED BY <2>5, <2>6
<1> HIDE DEF anchor
<1>16. /\ e \in Buffers /\ e.undo = d.undo /\ e.redo = d.redo /\ e.text = d.text
       /\ e.generation = d.generation /\ e.anchor = anchor
  BY <1>11, <1>14 DEF Buffers
<1> HIDE DEF e
<1>17. Sound(e)
  BY <1>11, <1>15, <1>16 DEF Sound
<1>18. Grown(d) => Grown(e)
  BY <1>16 DEF Grown
<1> QED BY <1>3, <1>11, <1>12, <1>16, <1>17, <1>18

\* A caret movement keeps the buffer as it is.
LEMMA MovedIsSound ==
    ASSUME NEW b, Sound(b), NEW offset \in 0..Len(b.text)
    PROVE  /\ Sound(MovedTo(b, offset)) /\ MovedTo(b, offset).text = b.text
           /\ MovedTo(b, offset).cursor = offset /\ MovedTo(b, offset).lastType = "other"
           /\ Grown(b) => Grown(MovedTo(b, offset))
<1> DEFINE c == MovedTo(b, offset)
<1>1. b \in Buffers /\ offset \in Nat
  BY TextLen DEF Sound, Buffers
<1>2. c = [b EXCEPT !.cursor = offset, !.lastType = "other"]
  BY <1>1 DEF MovedTo
<1> HIDE DEF c
<1>3. /\ c \in Buffers /\ c.text = b.text /\ c.undo = b.undo /\ c.redo = b.redo
      /\ c.generation = b.generation /\ c.cursor = offset /\ c.lastType = "other"
      /\ c.anchor = b.anchor
  BY <1>1, <1>2 DEF Buffers, Types
<1>4. Sound(c)
  BY <1>3 DEF Sound
<1>5. Grown(b) => Grown(c)
  BY <1>3 DEF Grown
<1> QED BY <1>3, <1>4, <1>5 DEF c

\* So does the end of a run of edits.
LEMMA AnchorEnds ==
    ASSUME NEW b, Sound(b), NEW anchor \in {b.anchor, None}
    PROVE  LET c == [b EXCEPT !.anchor = anchor]
           IN  /\ Sound(c) /\ c.text = b.text /\ c.cursor = b.cursor
               /\ Grown(b) => Grown(c)
<1> DEFINE c == [b EXCEPT !.anchor = anchor]
<1>1. b \in Buffers
  BY DEF Sound
<1> HIDE DEF c
<1>3. /\ c \in Buffers /\ c.text = b.text /\ c.undo = b.undo /\ c.redo = b.redo
      /\ c.generation = b.generation /\ c.cursor = b.cursor /\ c.lastType = b.lastType
      /\ c.anchor = anchor
  BY <1>1 DEF Buffers, c
<1>4. Sound(c)
  BY <1>3 DEF Sound
<1>5. Grown(b) => Grown(c)
  BY <1>3 DEF Grown
<1> QED BY <1>3, <1>4, <1>5 DEF c

DirectEdit(b, type, from, to, text) == Replaced(Begin(b, type, from, None), from, to, text)

\* The direct commands: edit_begin, then the edit.
LEMMA DirectEditIsSound ==
    ASSUME NEW b, Sound(b), NEW type \in Types, NEW from \in 0..Len(b.text),
           NEW to \in from..Len(b.text), NEW text \in Texts
    PROVE  /\ Sound(DirectEdit(b, type, from, to, text))
           /\ DirectEdit(b, type, from, to, text).cursor \in
                0..Len(DirectEdit(b, type, from, to, text).text)
           /\ DirectEdit(b, type, from, to, text).text = Splice(b.text, from, to, text)
           /\ Grown(b) /\ (Skips(b, type) => b.redo = <<>>)
                => Grown(DirectEdit(b, type, from, to, text))
<1> DEFINE c == Begin(b, type, from, None)
           d == Replaced(c, from, to, text)
<1>1. from \in Nat
  OBVIOUS
<1>2. BegunFrom(c, b, type, from)
  BY <1>1, BeginIsBegun
<1>3. Begun(c) /\ c.text = b.text
  BY <1>2 DEF BegunFrom
<1>4. Grown(b) /\ (Skips(b, type) => b.redo = <<>>) => GrownBegun(c)
  BY <1>1, BeginIsGrown DEF Groups
<1> HIDE DEF c
<1>5. from \in 0..Len(c.text) /\ to \in from..Len(c.text)
  BY <1>3
<1>6. Sound(d) /\ d.cursor \in 0..Len(d.text)
  BY <1>3, <1>5, ReplacedIsSound
<1>7. ReplacedFrom(d, c, from, to, text)
  BY <1>3, <1>5, ReplacedShape
<1>8. GrownBegun(c) => Grown(d)
  BY <1>3, <1>5, ReplacedIsGrown
<1>9. DirectEdit(b, type, from, to, text) = d
  BY DEF DirectEdit, c
<1> HIDE DEF d
<1>10. d.text = Splice(b.text, from, to, text)
  BY <1>3, <1>7 DEF ReplacedFrom
<1> QED BY <1>4, <1>6, <1>8, <1>9, <1>10

\* A deleted selection leaves a sound buffer, shorter by its length.
LEMMA SelectionDeletedIsSound ==
    ASSUME NEW b, Sound(b), b.cursor \in 0..Len(b.text), NEW from \in 0..Len(b.text),
           NEW to \in from..Len(b.text)
    PROVE  LET d == SelectionDeleted(b, from, to)
           IN  /\ Sound(d) /\ d.cursor \in 0..Len(d.text) /\ from \in 0..Len(d.text)
               /\ Grown(b) => Grown(d)
<1>1. CASE from = to
  BY <1>1 DEF SelectionDeleted
<1>2. CASE from # to
  <2> DEFINE moved == MovedTo(b, to)
             d == DirectEdit(moved, "delete", from, to, <<>>)
  <2>1. to \in 0..Len(b.text) /\ b.text \in Texts /\ Len(b.text) \in Nat
    BY TextLen DEF Sound, Buffers
  <2>2. /\ Sound(moved) /\ moved.text = b.text /\ moved.lastType = "other"
        /\ Grown(b) => Grown(moved)
    BY <2>1, MovedIsSound
  <2> HIDE DEF moved
  <2>3. "delete" \in Types /\ ~Skips(moved, "delete")
    BY <2>2 DEF Types, Skips
  <2>4. from \in 0..Len(moved.text) /\ to \in from..Len(moved.text)
    BY <2>2
  <2>5. /\ Sound(d) /\ d.cursor \in 0..Len(d.text) /\ d.text = Splice(b.text, from, to, <<>>)
        /\ Grown(b) => Grown(d)
    BY <2>2, <2>3, <2>4, EmptyIsText, DirectEditIsSound
  <2>6. Len(Splice(b.text, from, to, <<>>)) = Len(b.text) - (to - from)
    <3>1. Len(Splice(b.text, from, to, <<>>)) = Len(b.text) - (to - from) + Len(<<>>)
      BY <2>1, EmptyIsText, SpliceIsText
    <3> QED BY <2>1, <3>1, EmptyIsText
  <2>7. SelectionDeleted(b, from, to) = d
    BY <1>2 DEF SelectionDeleted, DirectEdit, moved
  <2> HIDE DEF d
  <2> QED BY <2>1, <2>5, <2>6, <2>7
<1> QED BY <1>1, <1>2

-----------------------------------------------------------------------------
(* The actions that edit *)

\* What an edit makes of a buffer that was good.
Good(b) == Sound(b) /\ b.cursor \in 0..Len(b.text)
Deletes == "deleteAfterUndo" \in Env
Edited(b) == Good(b) /\ (Grown(tb) /\ ~Deletes => Grown(b))
EditStep == \E b : \E edits \in {1, 2} : ChangedBy(b, edits) /\ Edited(b)

\* What is typed is a text of one character.
LEMMA TypedAreTexts == Typed \subseteq Texts /\ \A text \in Typed : text # <<>> /\ Len(text) = 1
<1> SUFFICES ASSUME NEW text \in Typed
             PROVE  text \in Texts /\ text # <<>> /\ Len(text) = 1
  OBVIOUS
<1>1. PICK c \in Chars : text = <<c>>
  BY DEF Typed
<1>2. c \in Chars \cup ToSet(Initial)
  OBVIOUS
<1> QED BY <1>1, <1>2 DEF Texts

\* The ends of a selection are in the text.
LEMMA RangeFields ==
    ASSUME NEW range \in Ranges, tb.text \in Texts
    PROVE  /\ range[1] \in 0..Len(tb.text) /\ range[2] \in range[1]..Len(tb.text)
           /\ range[1] \in Nat /\ range[2] \in Nat
BY TextLen DEF Ranges

\* So are those of a replacement.
LEMMA ReplacementFields ==
    ASSUME NEW texts, NEW r \in Replacements(texts), tb.text \in Texts
    PROVE  /\ r.from \in 0..Len(tb.text) /\ r.to \in r.from..Len(tb.text) /\ r.text \in texts
           /\ r.from \in Nat /\ r.to \in Nat
<1> PICK range \in Ranges, text \in texts : r = [from |-> range[1], to |-> range[2], text |-> text]
  BY DEF Replacements
<1> QED BY RangeFields

\* One edit makes one revision.
LEMMA ChangedEdits ==
    ASSUME NEW b, Changed(b), Edited(b)
    PROVE  EditStep
BY DEF Changed, EditStep

\* A transaction's replacement, then its caret.
LEMMA TransactionEdits ==
    ASSUME Good(tb), NEW kind \in Kinds, NEW texts \in SUBSET Texts, Transaction(kind, texts)
    PROVE  EditStep
<1>1. tb \in Buffers /\ tb.text \in Texts /\ Len(tb.text) \in Nat
  BY TextLen DEF Good, Sound, Buffers
<1>2. PICK r \in Replacements(texts) :
         /\ r.from < r.to \/ r.text # <<>>
         /\ Changed(MovedTo(ReplaceRange(tb, r, kind, tb), r.from + Len(r.text)))
  BY DEF Transaction
<1>3. /\ r.from \in 0..Len(tb.text) /\ r.to \in r.from..Len(tb.text) /\ r.text \in Texts
      /\ r.from \in Nat /\ r.to \in Nat
  BY <1>1, ReplacementFields
<1> DEFINE e == ReplaceRange(tb, r, kind, tb)
           offset == r.from + Len(r.text)
<1>4. Grown(tb) => Groups(tb, tb)
  <2>1. tb.generation \in Nat /\ \A i \in DOMAIN tb.undo : tb.undo[i].generation \in Nat
    BY <1>1, GenerationsAreNumbers
  <2> QED BY <2>1 DEF Grown, Groups
<1>5. /\ Sound(e) /\ e.text = Splice(tb.text, r.from, r.to, r.text)
      /\ Grown(tb) => Grown(e)
  BY <1>1, <1>2, <1>3, <1>4, ReplaceRangeIsSound DEF Good
<1> HIDE DEF e
<1>6. offset \in 0..Len(e.text)
  <2>1. Len(Splice(tb.text, r.from, r.to, r.text)) =
          Len(tb.text) - (r.to - r.from) + Len(r.text)
    BY <1>1, <1>3, SpliceIsText
  <2>2. Len(r.text) \in Nat
    BY <1>3, TextLen
  <2> QED BY <1>1, <1>3, <1>5, <2>1, <2>2
<1> HIDE DEF offset
<1>7. Edited(MovedTo(e, offset))
  BY <1>5, <1>6, MovedIsSound DEF Edited, Good
<1> QED BY <1>2, <1>7, ChangedEdits DEF e, offset

\* Two replacements in one group: the first one in the text leaves room for the second.
LEMMA ReplaceGroupEdits ==
    ASSUME Good(tb), ReplaceGroup
    PROVE  EditStep
<1>1. tb \in Buffers /\ tb.text \in Texts /\ Len(tb.text) \in Nat
  BY TextLen DEF Good, Sound, Buffers
<1>2. PICK first \in Replacements(Typed), last \in Replacements(Typed) :
         /\ first.from < first.to /\ first.to <= last.from /\ last.from < last.to
         /\ Changed(MovedTo(ReplaceRange(ReplaceRange(tb, last, "standalone", tb),
                                         first, "standalone", tb), first.from))
  BY DEF ReplaceGroup
<1>3. /\ last.from \in 0..Len(tb.text) /\ last.to \in last.from..Len(tb.text)
      /\ last.text \in Typed /\ last.from \in Nat /\ last.to \in Nat
  BY <1>1, ReplacementFields
<1>4. first.text \in Typed /\ first.from \in Nat /\ first.to \in Nat
  BY <1>1, ReplacementFields
<1> DEFINE one == ReplaceRange(tb, last, "standalone", tb)
           two == ReplaceRange(one, first, "standalone", tb)
<1>5. "standalone" \in Kinds
  BY DEF Kinds
<1>6. Grown(tb) => Groups(tb, tb)
  <2>1. tb.generation \in Nat /\ \A i \in DOMAIN tb.undo : tb.undo[i].generation \in Nat
    BY <1>1, GenerationsAreNumbers
  <2> QED BY <2>1 DEF Grown, Groups
<1>7. /\ Sound(one) /\ one.text = Splice(tb.text, last.from, last.to, last.text)
      /\ one.generation = tb.generation + 1
      /\ Grown(tb) => Grown(one)
  BY <1>1, <1>2, <1>3, <1>5, <1>6, TypedAreTexts, ReplaceRangeIsSound DEF Good
<1> HIDE DEF one
<1>8. /\ one \in Buffers /\ one.text \in Texts
      /\ Len(one.text) = Len(tb.text) - (last.to - last.from) + 1
  <2>1. last.text \in Texts /\ Len(last.text) = 1
    BY <1>3, TypedAreTexts
  <2>2. Len(Splice(tb.text, last.from, last.to, last.text)) =
          Len(tb.text) - (last.to - last.from) + Len(last.text)
    BY <1>1, <1>3, <2>1, SpliceIsText
  <2>3. one \in Buffers /\ one.text \in Texts
    BY <1>7 DEF Sound, Buffers
  <2> QED BY <1>7, <2>1, <2>2, <2>3
<1>9. first.from \in 0..Len(one.text) /\ first.to \in first.from..Len(one.text)
  BY <1>1, <1>2, <1>3, <1>4, <1>8
<1>10. Grown(one) => Groups(one, tb)
  <2>1. tb.generation \in Nat /\ \A i \in DOMAIN one.undo : one.undo[i].generation \in Nat
    BY <1>1, <1>8, GenerationsAreNumbers
  <2> QED BY <1>7, <2>1 DEF Grown, Groups
<1>11. /\ Sound(two) /\ two.text = Splice(one.text, first.from, first.to, first.text)
       /\ Grown(tb) => Grown(two)
  BY <1>1, <1>2, <1>4, <1>5, <1>7, <1>9, <1>10, TypedAreTexts, ReplaceRangeIsSound
<1> HIDE DEF two
<1>12. first.from \in 0..Len(two.text)
  <2>1. first.text \in Texts /\ Len(first.text) = 1
    BY <1>4, TypedAreTexts
  <2>2. Len(Splice(one.text, first.from, first.to, first.text)) =
          Len(one.text) - (first.to - first.from) + Len(first.text)
    BY <1>8, <1>9, <2>1, SpliceIsText
  <2>3. Len(one.text) \in Nat
    BY <1>8, TextLen
  <2> QED BY <1>4, <1>9, <1>11, <2>1, <2>2, <2>3
<1>13. Edited(MovedTo(two, first.from))
  BY <1>11, <1>12, MovedIsSound DEF Edited, Good
<1> QED BY <1>2, <1>13, ChangedEdits DEF two, one

\* A typed character, after the selection was deleted.
LEMMA InsertCharEdits ==
    ASSUME Good(tb), InsertChar
    PROVE  EditStep
<1>1. tb \in Buffers /\ tb.text \in Texts
  BY DEF Good, Sound, Buffers
<1> DEFINE Deleted(range) == SelectionDeleted(tb, range[1], range[2])
           At(range) == IF range[1] = range[2] THEN tb.cursor ELSE range[1]
           Count(range) == IF range[1] = range[2] THEN 1 ELSE 2
<1>2. PICK range \in Ranges, text \in Typed :
         ChangedBy(DirectEdit(Deleted(range), "other", At(range), At(range), text), Count(range))
  BY DEF InsertChar, DirectEdit
<1>3. range[1] \in 0..Len(tb.text) /\ range[2] \in range[1]..Len(tb.text)
  BY <1>1, RangeFields
<1> DEFINE b == Deleted(range)
           at == At(range)
           count == Count(range)
<1>4. /\ Sound(b) /\ b.cursor \in 0..Len(b.text) /\ range[1] \in 0..Len(b.text)
      /\ Grown(tb) => Grown(b)
  BY <1>3, SelectionDeletedIsSound DEF Good
<1>5. at \in 0..Len(b.text)
  <2>1. CASE range[1] = range[2]
    BY <2>1 DEF SelectionDeleted, Good
  <2>2. CASE range[1] # range[2]
    BY <1>4, <2>2
  <2> QED BY <2>1, <2>2
<1>6. count \in {1, 2}
  OBVIOUS
<1> HIDE DEF b, at, count
<1>7. at \in at..Len(b.text) /\ text \in Texts
  BY <1>5, TypedAreTexts
<1>8. "other" \in Types /\ ~Skips(b, "other")
  BY DEF Types, Skips
<1>9. Edited(DirectEdit(b, "other", at, at, text))
  BY <1>4, <1>5, <1>7, <1>8, DirectEditIsSound DEF Edited, Good
<1>10. ChangedBy(DirectEdit(b, "other", at, at, text), count)
  BY <1>2 DEF b, at, count
<1> QED BY <1>6, <1>9, <1>10 DEF EditStep

\* Backspace and Delete, of the selection or of a character: undone entries are there
\* still only if the user deletes right after an undo.
LEMMA DeleteCharEdits ==
    ASSUME Good(tb), DeleteChar
    PROVE  EditStep
<1>1. tb \in Buffers /\ tb.text \in Texts /\ Len(tb.text) \in Nat
  BY TextLen DEF Good, Sound, Buffers
<1>2. CASE \E range \in Ranges : Changed(SelectionDeleted(tb, range[1], range[2]))
  <2>1. PICK range \in Ranges : Changed(SelectionDeleted(tb, range[1], range[2]))
    BY <1>2
  <2>2. range[1] \in 0..Len(tb.text) /\ range[2] \in range[1]..Len(tb.text)
    BY <1>1, RangeFields
  <2> DEFINE b == SelectionDeleted(tb, range[1], range[2])
  <2>3. /\ Sound(b) /\ b.cursor \in 0..Len(b.text)
        /\ Grown(tb) => Grown(b)
    BY <2>2, SelectionDeletedIsSound DEF Good
  <2> HIDE DEF b
  <2> QED BY <2>1, <2>3, ChangedEdits DEF b, Edited, Good
<1>3. CASE \E from \in {tb.cursor - 1, tb.cursor} :
              /\ from \in 0..(Len(tb.text) - 1)
              /\ Changed(DirectEdit(tb, "delete", from, from + 1, <<>>))
  <2>1. PICK from \in 0..(Len(tb.text) - 1) :
           Changed(DirectEdit(tb, "delete", from, from + 1, <<>>))
    BY <1>3
  <2>2. from \in 0..Len(tb.text) /\ from + 1 \in from..Len(tb.text)
    BY <1>1
  <2>3. "delete" \in Types /\ (~Deletes => (Skips(tb, "delete") => tb.redo = <<>>))
    BY DEF DeleteChar, MayDelete, Deletes, Types, Skips
  <2> DEFINE b == DirectEdit(tb, "delete", from, from + 1, <<>>)
  <2>4. /\ Sound(b) /\ b.cursor \in 0..Len(b.text)
        /\ Grown(tb) /\ ~Deletes => Grown(b)
    BY <2>2, <2>3, EmptyIsText, DirectEditIsSound DEF Good
  <2> HIDE DEF b
  <2> QED BY <2>1, <2>4, ChangedEdits DEF b, Edited, Good
<1> QED BY <1>2, <1>3 DEF DeleteChar, DirectEdit

-----------------------------------------------------------------------------
(* Undo and redo *)

Before == {pair \in Nat \X Nat : pair[1] < pair[2]}

\* A bounded set of numbers has a largest one.
LEMMA MaxExists ==
    ASSUME NEW n \in Nat, NEW S \in SUBSET (0..n), S # {}
    PROVE  \E m \in S : \A k \in S : k <= m
<1> DEFINE T == {i \in 0..n : n - i \in S}
<1>1. T \subseteq Nat /\ T # {}
  <2>1. PICK s \in S : TRUE
    OBVIOUS
  <2>2. n - s \in T
    BY <2>1
  <2> QED BY <2>2
<1>2. IsWellFoundedOn(Before, Nat)
  BY NatLessThanWellFounded DEF OpToRel, Before
<1>3. PICK y \in T : \A z \in T : ~(<<z, y>> \in Before)
  <2> HIDE DEF T
  <2> QED BY <1>1, <1>2, WFMin
<1>4. \A z \in T : ~(z < y)
  BY <1>1, <1>3 DEF Before
<1>5. \A k \in S : k <= n - y
  <2> TAKE k \in S
  <2>1. n - k \in T
    OBVIOUS
  <2> QED BY <2>1, <1>4
<1> QED BY <1>5

\* The entries an undo takes are those of the generation on top, and all of them that
\* are next to each other.
LEMMA GroupSizeIsOfGroup ==
    ASSUME NEW stack \in Seq(Entries), stack # <<>>
    PROVE  /\ GroupSize(stack) \in 1..Len(stack)
           /\ LET below == Len(stack) - GroupSize(stack)
              IN  below # 0 => stack[below].generation # Last(stack).generation
<1> DEFINE n == Len(stack)
           Ends(i) == i = 0 \/ stack[i].generation # Last(stack).generation
           Is(i) == Ends(i) /\ \A j \in (i + 1)..n : ~Ends(j)
           below == CHOOSE i \in 0..n : Is(i)
<1>1. n \in Nat \ {0}
  BY EmptySeq
<1>2. \E i \in 0..n : Is(i)
  <2> DEFINE S == {i \in 0..n : Ends(i)}
  <2>1. 0 \in S /\ S \in SUBSET (0..n)
    BY <1>1
  <2>2. PICK m \in S : \A k \in S : k <= m
    <3> HIDE DEF S
    <3> QED BY <1>1, <2>1, MaxExists
  <2>3. \A j \in (m + 1)..n : ~Ends(j)
    <3> SUFFICES ASSUME NEW j \in (m + 1)..n, Ends(j) PROVE FALSE
      OBVIOUS
    <3>1. j \in 0..n /\ m < j
      BY <2>2
    <3>2. j \in S
      BY <3>1
    <3> QED BY <2>2, <3>1, <3>2
  <2> QED BY <2>2, <2>3
<1> HIDE DEF Is
<1>3. below \in 0..n /\ Is(below)
  BY <1>2
<1>4. GroupSize(stack) = n - below
  BY DEF GroupSize, Is
<1> HIDE DEF below
<1>5. ~Ends(n)
  BY <1>1 DEF Last
<1>6. Ends(below)
  BY <1>3 DEF Is
<1>7. below # n
  BY <1>5, <1>6
<1> QED BY <1>1, <1>3, <1>4, <1>6, <1>7

\* Moved's local definitions.
CursorAfter(b, stack, text, k) ==
    IF k = 0 THEN b.cursor ELSE Clamped(Top(stack, k).cursorBefore, text[k])
Turned(b, stack, text, k) ==
    [cursorBefore |-> CursorAfter(b, stack, text, k - 1), generation |-> b.generation,
     at |-> Top(stack, k).at, deleted |-> Top(stack, k).added, added |-> Top(stack, k).deleted]
TurnedGroup(b, stack, text, size) == [k \in 1..size |-> Turned(b, stack, text, k)]

\* The entries that undo and redo move are entries of the buffer they were moved in.
LEMMA TurnedAreEntries ==
    ASSUME NEW b \in Buffers, NEW stack \in Seq(Entries), NEW text, NEW size \in 1..Len(stack)
    PROVE  /\ TurnedGroup(b, stack, text, size) \in Seq(Entries)
           /\ Len(TurnedGroup(b, stack, text, size)) = size
           /\ \A k \in 1..size :
                 TurnedGroup(b, stack, text, size)[k].generation = b.generation
           /\ CursorAfter(b, stack, text, size) \in Nat
           /\ text[size] \in Texts =>
                 CursorAfter(b, stack, text, size) \in 0..Len(text[size])
<1>1. size \in Nat /\ size # 0 /\ Len(stack) \in Nat
  OBVIOUS
<1>2. \A k \in 1..size : Top(stack, k) \in Entries
  <2> SUFFICES ASSUME NEW k \in 1..size PROVE Top(stack, k) \in Entries
    OBVIOUS
  <2>1. Len(stack) - k + 1 \in 1..Len(stack)
    BY <1>1
  <2> QED BY <2>1, ElementOfSeq DEF Top
<1>3. \A k \in 0..size : CursorAfter(b, stack, text, k) \in Nat
  <2> SUFFICES ASSUME NEW k \in 0..size PROVE CursorAfter(b, stack, text, k) \in Nat
    OBVIOUS
  <2>1. CASE k = 0
    BY <2>1 DEF CursorAfter, Buffers
  <2>2. CASE k # 0
    <3>1. Top(stack, k).cursorBefore \in Nat
      BY <1>1, <1>2, <2>2 DEF Entries
    <3> QED BY <2>2, <3>1 DEF CursorAfter, Clamped
  <2> QED BY <2>1, <2>2
<1>4. \A k \in 1..size : Turned(b, stack, text, k) \in Entries
  <2> SUFFICES ASSUME NEW k \in 1..size PROVE Turned(b, stack, text, k) \in Entries
    OBVIOUS
  <2>1. CursorAfter(b, stack, text, k - 1) \in Nat
    BY <1>1, <1>3
  <2>2. b.generation \in Nat
    BY DEF Buffers
  <2>3. /\ Top(stack, k).at \in Nat /\ Top(stack, k).added \in Texts
        /\ Top(stack, k).deleted \in Texts
    BY <1>2 DEF Entries
  <2> QED BY <2>1, <2>2, <2>3 DEF Turned, Entries
<1>5. TurnedGroup(b, stack, text, size) \in Seq(Entries)
  BY <1>1, <1>4 DEF TurnedGroup
<1>6. Len(TurnedGroup(b, stack, text, size)) = size
  BY <1>1 DEF TurnedGroup
<1>7. \A k \in 1..size : TurnedGroup(b, stack, text, size)[k].generation = b.generation
  BY DEF TurnedGroup, Turned
<1>8. ASSUME text[size] \in Texts
      PROVE  CursorAfter(b, stack, text, size) \in 0..Len(text[size])
  <2>1. Top(stack, size).cursorBefore \in Nat
    BY <1>1, <1>2 DEF Entries
  <2>2. Len(text[size]) \in Nat
    BY <1>8, TextLen
  <2> QED BY <1>1, <2>1, <2>2 DEF CursorAfter, Clamped
<1>9. CursorAfter(b, stack, text, size) \in Nat
  BY <1>1, <1>3
<1> QED BY <1>5, <1>6, <1>7, <1>8, <1>9

\* A stack without its top entries, and one with others on top.
LEMMA RestOfStack ==
    ASSUME NEW stack \in Seq(Entries), NEW m \in 0..Len(stack)
    PROVE  /\ SubSeq(stack, 1, m) \in Seq(Entries) /\ Len(SubSeq(stack, 1, m)) = m
           /\ DOMAIN SubSeq(stack, 1, m) = 1..m
           /\ \A i \in 1..m : SubSeq(stack, 1, m)[i] = stack[i]
<1>1. \A i \in 1..m : stack[i] \in Entries
  BY ElementOfSeq
<1>2. /\ SubSeq(stack, 1, m) \in Seq(Entries) /\ Len(SubSeq(stack, 1, m)) = m
      /\ \A i \in 1..m : SubSeq(stack, 1, m)[i] = stack[i]
  BY <1>1, SubSeqProperties
<1> QED BY <1>2, LenProperties

\* A stack with another one on top.
LEMMA StackOnStack ==
    ASSUME NEW s \in Seq(Entries), NEW t \in Seq(Entries)
    PROVE  /\ s \o t \in Seq(Entries) /\ Len(s \o t) = Len(s) + Len(t)
           /\ DOMAIN (s \o t) = 1..(Len(s) + Len(t))
           /\ \A i \in 1..(Len(s) + Len(t)) :
                 \/ i \in 1..Len(s) /\ (s \o t)[i] = s[i]
                 \/ /\ i - Len(s) \in 1..Len(t) /\ i > Len(s)
                    /\ (s \o t)[i] = t[i - Len(s)]
<1>1. Len(s) \in Nat /\ Len(t) \in Nat
  OBVIOUS
<1>2. s \o t \in Seq(Entries) /\ Len(s \o t) = Len(s) + Len(t)
  OBVIOUS
<1>3. \A i \in 1..(Len(s) + Len(t)) :
         (s \o t)[i] = IF i <= Len(s) THEN s[i] ELSE t[i - Len(s)]
  BY ConcatProperties
<1>4. \A i \in 1..(Len(s) + Len(t)) :
         \/ i \in 1..Len(s) /\ i <= Len(s)
         \/ i - Len(s) \in 1..Len(t) /\ i > Len(s) /\ ~(i <= Len(s))
  BY <1>1
<1> DEFINE c == s \o t
<1> HIDE DEF c
<1>5. DOMAIN c = 1..(Len(s) + Len(t))
  BY <1>2, LenProperties DEF c
<1>6. \A i \in 1..(Len(s) + Len(t)) :
         \/ i \in 1..Len(s) /\ c[i] = s[i]
         \/ i - Len(s) \in 1..Len(t) /\ i > Len(s) /\ c[i] = t[i - Len(s)]
  BY <1>3, <1>4 DEF c
<1> QED BY <1>2, <1>5, <1>6 DEF c

\* What undo_redo makes of a stack that is not empty.
MovedFrom(c, b, from, to, stack, rest, turned) ==
    /\ c \in Buffers /\ c[from] = rest /\ c[to] = b[to] \o turned
    /\ c.anchor = None /\ c.generation = Last(stack).generation
    /\ c.cursor \in 0..Len(c.text)
    /\ c.lastType = b.lastType \/ c.lastType = "other"
    /\ from = "undo" /\ rest = <<>> => c.lastType = "other"

\* What moves is what undo_redo's rounds turned, and all else is as MovedFrom says.
LEMMA MovedShape ==
    ASSUME NEW b, Sound(b), NEW from \in {"undo", "redo"}, NEW to \in {"undo", "redo"},
           from # to, b[from] # <<>>, NEW size \in 1..Len(b[from]),
           Moved(b, from, to, size).text \in Texts
    PROVE  \E turned \in Seq(Entries) :
              /\ Len(turned) = size
              /\ \A k \in 1..size : turned[k].generation = b.generation
              /\ MovedFrom(Moved(b, from, to, size), b, from, to, b[from],
                           SubSeq(b[from], 1, Len(b[from]) - size), turned)
<1> DEFINE stack == b[from]
           text == TextsBack(b.text, stack)
           turned == TurnedGroup(b, stack, text, size)
           rest == SubSeq(stack, 1, Len(stack) - size)
           cursor == CursorAfter(b, stack, text, size)
           generation == Last(stack).generation
           lastType == IF from = "undo" /\ size = Len(stack) THEN "other" ELSE b.lastType
           onto == b[to] \o turned
           c == Moved(b, from, to, size)
<1>1. b \in Buffers /\ stack \in Seq(Entries) /\ b[to] \in Seq(Entries)
  BY DEF Sound, Buffers
<1>2. Len(stack) \in Nat \ {0} /\ size \in Nat
  BY <1>1
<1>3. c = [b EXCEPT ![from] = rest, ![to] = onto, !.text = text[size],
                    !.generation = generation, !.cursor = cursor, !.anchor = None,
                    !.lastType = lastType]
  BY <1>1 DEF Moved, CursorAfter, TurnedGroup, Turned, Buffers
<1> HIDE DEF c, text
<1>4. /\ turned \in Seq(Entries) /\ Len(turned) = size
      /\ \A k \in 1..size : turned[k].generation = b.generation
      /\ cursor \in Nat /\ (text[size] \in Texts => cursor \in 0..Len(text[size]))
  BY <1>1, TurnedAreEntries
<1> HIDE DEF turned, cursor
<1>5. Len(stack) - size \in 0..Len(stack)
  BY <1>2
<1>6. rest \in Seq(Entries) /\ Len(rest) = Len(stack) - size
  BY <1>1, <1>5, RestOfStack
<1>7. onto \in Seq(Entries)
  BY <1>1, <1>4, StackOnStack
<1>8. generation \in Nat
  <2>1. Len(stack) \in 1..Len(stack)
    BY <1>2
  <2>2. stack[Len(stack)] \in Entries
    BY <1>1, <2>1, ElementOfSeq
  <2> QED BY <2>2 DEF Last, Entries
<1>9. lastType \in Types
  BY <1>1 DEF Types, Buffers
<1>10. rest = <<>> => size = Len(stack)
  BY <1>2, <1>6, EmptySeq
<1> HIDE DEF rest, onto, generation
<1>11. lastType \in {b.lastType, "other"} /\ (from = "undo" /\ rest = <<>> => lastType = "other")
  BY <1>10
<1> HIDE DEF lastType
<1>12. /\ c[from] = rest /\ c[to] = onto /\ c.text = text[size] /\ c.generation = generation
       /\ c.cursor = cursor /\ c.anchor = None /\ c.lastType = lastType
  BY <1>1, <1>3 DEF Buffers
<1>13. c.text \in Texts
  BY DEF c
<1>14. c \in Buffers
  BY <1>1, <1>3, <1>4, <1>6, <1>7, <1>8, <1>9, <1>12, <1>13 DEF Buffers
<1>15. c.cursor \in 0..Len(c.text)
  BY <1>4, <1>12, <1>13
<1>16. MovedFrom(c, b, from, to, stack, rest, turned)
  BY <1>11, <1>12, <1>14, <1>15 DEF MovedFrom, onto, generation
<1> QED BY <1>4, <1>16 DEF c, rest

\* Undo and redo leave a sound buffer, with its caret in the text.
LEMMA UndoRedoIsSound ==
    ASSUME NEW b, Good(b), NEW from \in {"undo", "redo"}, NEW to \in {"undo", "redo"},
           from # to, UndoRedo(b, from, to).text \in Texts
    PROVE  Good(UndoRedo(b, from, to))
<1>1. Sound(b) /\ b \in Buffers
  BY DEF Good, Sound
<1>2. CASE b[from] = <<>>
  <2>1. UndoRedo(b, from, to) = [b EXCEPT !.anchor = None]
    BY <1>2 DEF UndoRedo
  <2> QED BY <1>1, <2>1, AnchorEnds DEF Good
<1>3. CASE b[from] # <<>>
  <2> DEFINE size == GroupSize(b[from])
             rest == SubSeq(b[from], 1, Len(b[from]) - size)
             c == Moved(b, from, to, size)
  <2>1. UndoRedo(b, from, to) = c
    BY <1>3 DEF UndoRedo
  <2>2. b[from] \in Seq(Entries) /\ b[to] \in Seq(Entries)
    BY <1>1 DEF Buffers
  <2>3. size \in 1..Len(b[from])
    BY <1>3, <2>2, GroupSizeIsOfGroup
  <2> HIDE DEF size
  <2>4. PICK turned \in Seq(Entries) :
           Len(turned) = size /\ MovedFrom(c, b, from, to, b[from], rest, turned)
    BY <1>1, <1>3, <2>1, <2>3, MovedShape
  <2> HIDE DEF c, rest
  <2>5. c \in Buffers /\ c.cursor \in 0..Len(c.text) /\ c.anchor = None
    BY <2>4 DEF MovedFrom
  <2>6. c.lastType # "other" => c.undo # <<>>
    <3>1. CASE from = "undo"
      BY <2>4, <3>1 DEF MovedFrom
    <3>2. CASE from = "redo"
      <4>1. c.undo = b.undo \o turned /\ b.undo \in Seq(Entries)
        BY <2>2, <2>4, <3>2 DEF MovedFrom
      <4>2. Len(b.undo \o turned) = Len(b.undo) + Len(turned) /\ Len(b.undo) \in Nat
        BY <4>1, StackOnStack
      <4>3. size \in Nat /\ size > 0
        BY <2>2, <2>3
      <4>4. Len(b.undo \o turned) # 0
        BY <2>4, <4>2, <4>3
      <4> QED BY <4>1, <4>4
    <3> QED BY <3>1, <3>2
  <2> QED BY <2>1, <2>5, <2>6 DEF Good, Sound
<1> QED BY <1>2, <1>3

\* What is left of a stack in order after its group on top is gone is beyond the group,
\* and with entries of one generation on top the other stack is in order.
LEMMA GroupLeavesSorted ==
    ASSUME NEW stack \in Seq(Entries), stack # <<>>, Sorted(stack)
    PROVE  LET rest == SubSeq(stack, 1, Len(stack) - GroupSize(stack))
           IN  Sorted(rest) /\ \A i \in DOMAIN rest : rest[i].generation < Last(stack).generation
<1> DEFINE m == Len(stack) - GroupSize(stack)
           rest == SubSeq(stack, 1, m)
<1>1. /\ GroupSize(stack) \in 1..Len(stack) /\ Len(stack) \in Nat \ {0}
      /\ m # 0 => stack[m].generation # Last(stack).generation
  BY GroupSizeIsOfGroup
<1>2. m \in 0..Len(stack)
  BY <1>1
<1> HIDE DEF m
<1>3. DOMAIN rest = 1..m /\ \A i \in 1..m : rest[i] = stack[i]
  BY <1>2, RestOfStack
<1> HIDE DEF rest
<1>4. \A i \in 1..Len(stack) : i \in DOMAIN stack /\ stack[i].generation \in Nat
  <2>1. \A i \in 1..Len(stack) : stack[i] \in Entries /\ i \in DOMAIN stack
    BY ElementOfSeq, LenProperties
  <2> QED BY <2>1 DEF Entries
<1>5. \A i \in 1..m : i \in 1..Len(stack)
  BY <1>1, <1>2
<1>6. Sorted(rest)
  BY <1>3, <1>4, <1>5 DEF Sorted
<1>7. ASSUME NEW i \in 1..m
      PROVE  rest[i].generation < Last(stack).generation
  <2>1. m # 0 /\ m \in 1..Len(stack) /\ Len(stack) \in 1..Len(stack)
    BY <1>1, <1>2
  <2>2. m # Len(stack)
    BY <1>1, <2>1 DEF Last
  <2>3. stack[m].generation < stack[Len(stack)].generation
    BY <1>1, <1>4, <2>1, <2>2 DEF Last, Sorted
  <2>4. i = m \/ stack[i].generation <= stack[m].generation
    BY <1>4, <1>5, <2>1 DEF Sorted
  <2>5. stack[i].generation < stack[Len(stack)].generation
    BY <1>4, <1>5, <2>1, <2>3, <2>4
  <2> QED BY <1>3, <2>5 DEF Last
<1>8. \A i \in DOMAIN rest : rest[i].generation < Last(stack).generation
  BY <1>3, <1>7
<1> QED BY <1>6, <1>8 DEF rest, m

\* The same of the undone entries, which lead the other way.
LEMMA GroupLeavesFalling ==
    ASSUME NEW stack \in Seq(Entries), stack # <<>>, Falling(stack)
    PROVE  LET rest == SubSeq(stack, 1, Len(stack) - GroupSize(stack))
           IN  Falling(rest) /\ \A i \in DOMAIN rest : rest[i].generation > Last(stack).generation
<1> DEFINE m == Len(stack) - GroupSize(stack)
           rest == SubSeq(stack, 1, m)
<1>1. /\ GroupSize(stack) \in 1..Len(stack) /\ Len(stack) \in Nat \ {0}
      /\ m # 0 => stack[m].generation # Last(stack).generation
  BY GroupSizeIsOfGroup
<1>2. m \in 0..Len(stack)
  BY <1>1
<1> HIDE DEF m
<1>3. DOMAIN rest = 1..m /\ \A i \in 1..m : rest[i] = stack[i]
  BY <1>2, RestOfStack
<1> HIDE DEF rest
<1>4. \A i \in 1..Len(stack) : i \in DOMAIN stack /\ stack[i].generation \in Nat
  <2>1. \A i \in 1..Len(stack) : stack[i] \in Entries /\ i \in DOMAIN stack
    BY ElementOfSeq, LenProperties
  <2> QED BY <2>1 DEF Entries
<1>5. \A i \in 1..m : i \in 1..Len(stack)
  BY <1>1, <1>2
<1>6. Falling(rest)
  BY <1>3, <1>4, <1>5 DEF Falling
<1>7. ASSUME NEW i \in 1..m
      PROVE  rest[i].generation > Last(stack).generation
  <2>1. m # 0 /\ m \in 1..Len(stack) /\ Len(stack) \in 1..Len(stack)
    BY <1>1, <1>2
  <2>2. m # Len(stack)
    BY <1>1, <2>1 DEF Last
  <2>3. stack[m].generation > stack[Len(stack)].generation
    BY <1>1, <1>4, <2>1, <2>2 DEF Last, Falling
  <2>4. i = m \/ stack[i].generation >= stack[m].generation
    BY <1>4, <1>5, <2>1 DEF Falling
  <2>5. stack[i].generation > stack[Len(stack)].generation
    BY <1>4, <1>5, <2>1, <2>3, <2>4
  <2> QED BY <1>3, <2>5 DEF Last
<1>8. \A i \in DOMAIN rest : rest[i].generation > Last(stack).generation
  BY <1>3, <1>7
<1> QED BY <1>6, <1>8 DEF rest, m

\* Entries of the buffer's generation on top of the older ones, or of the newer ones.
LEMMA TurnedOnSorted ==
    ASSUME NEW s \in Seq(Entries), NEW t \in Seq(Entries), NEW g \in Nat, NEW now \in Nat,
           Sorted(s), \A i \in DOMAIN s : s[i].generation < now,
           \A i \in DOMAIN t : t[i].generation = now, now < g
    PROVE  Sorted(s \o t) /\ \A i \in DOMAIN (s \o t) : (s \o t)[i].generation < g
<1> DEFINE c == s \o t
<1>1. Len(s) \in Nat /\ Len(t) \in Nat /\ DOMAIN s = 1..Len(s) /\ DOMAIN t = 1..Len(t)
  BY LenProperties
<1>2. /\ DOMAIN c = 1..(Len(s) + Len(t))
      /\ \A i \in 1..(Len(s) + Len(t)) :
            \/ i \in 1..Len(s) /\ c[i] = s[i]
            \/ i - Len(s) \in 1..Len(t) /\ i > Len(s) /\ c[i] = t[i - Len(s)]
  BY StackOnStack
<1>3. \A i \in 1..Len(s) : s[i].generation \in Nat
  <2>1. \A i \in 1..Len(s) : s[i] \in Entries
    BY ElementOfSeq
  <2> QED BY <2>1 DEF Entries
<1> HIDE DEF c
<1>4. \A i \in DOMAIN c :
         \/ i \in 1..Len(s) /\ c[i].generation = s[i].generation
         \/ i > Len(s) /\ c[i].generation = now
  BY <1>1, <1>2
<1>5. ASSUME NEW i \in DOMAIN c, NEW j \in DOMAIN c, i < j
      PROVE  c[i].generation <= c[j].generation
  <2>1. CASE j \in 1..Len(s)
    BY <1>1, <1>2, <1>4, <1>5, <2>1 DEF Sorted
  <2>2. CASE j \notin 1..Len(s)
    <3>1. c[j].generation = now
      BY <1>4, <2>2
    <3>2. c[i].generation = now \/ (c[i].generation \in Nat /\ c[i].generation < now)
      BY <1>1, <1>3, <1>4
    <3> QED BY <3>1, <3>2
  <2> QED BY <2>1, <2>2
<1>6. \A i \in DOMAIN c : c[i].generation < g
  BY <1>1, <1>3, <1>4
<1> QED BY <1>5, <1>6 DEF Sorted, c

\* The same on top of the undone entries.
LEMMA TurnedOnFalling ==
    ASSUME NEW s \in Seq(Entries), NEW t \in Seq(Entries), NEW g \in Nat, NEW now \in Nat,
           Falling(s), \A i \in DOMAIN s : s[i].generation > now,
           \A i \in DOMAIN t : t[i].generation = now, now > g
    PROVE  Falling(s \o t) /\ \A i \in DOMAIN (s \o t) : (s \o t)[i].generation > g
<1> DEFINE c == s \o t
<1>1. Len(s) \in Nat /\ Len(t) \in Nat /\ DOMAIN s = 1..Len(s) /\ DOMAIN t = 1..Len(t)
  BY LenProperties
<1>2. /\ DOMAIN c = 1..(Len(s) + Len(t))
      /\ \A i \in 1..(Len(s) + Len(t)) :
            \/ i \in 1..Len(s) /\ c[i] = s[i]
            \/ i - Len(s) \in 1..Len(t) /\ i > Len(s) /\ c[i] = t[i - Len(s)]
  BY StackOnStack
<1>3. \A i \in 1..Len(s) : s[i].generation \in Nat
  <2>1. \A i \in 1..Len(s) : s[i] \in Entries
    BY ElementOfSeq
  <2> QED BY <2>1 DEF Entries
<1> HIDE DEF c
<1>4. \A i \in DOMAIN c :
         \/ i \in 1..Len(s) /\ c[i].generation = s[i].generation
         \/ i > Len(s) /\ c[i].generation = now
  BY <1>1, <1>2
<1>5. ASSUME NEW i \in DOMAIN c, NEW j \in DOMAIN c, i < j
      PROVE  c[i].generation >= c[j].generation
  <2>1. CASE j \in 1..Len(s)
    BY <1>1, <1>2, <1>4, <1>5, <2>1 DEF Falling
  <2>2. CASE j \notin 1..Len(s)
    <3>1. c[j].generation = now
      BY <1>4, <2>2
    <3>2. c[i].generation = now \/ (c[i].generation \in Nat /\ c[i].generation > now)
      BY <1>1, <1>3, <1>4
    <3> QED BY <3>1, <3>2
  <2> QED BY <2>1, <2>2
<1>6. \A i \in DOMAIN c : c[i].generation > g
  BY <1>1, <1>3, <1>4
<1> QED BY <1>5, <1>6 DEF Falling, c

\* Undo goes back to the generation its group began at, redo ahead to it.
LEMMA UndoRedoIsGrown ==
    ASSUME NEW b, Good(b), Grown(b), NEW from \in {"undo", "redo"}, NEW to \in {"undo", "redo"},
           from # to, UndoRedo(b, from, to).text \in Texts
    PROVE  Grown(UndoRedo(b, from, to))
<1>1. Sound(b) /\ b \in Buffers
  BY DEF Good, Sound
<1>2. CASE b[from] = <<>>
  <2>1. UndoRedo(b, from, to) = [b EXCEPT !.anchor = None]
    BY <1>2 DEF UndoRedo
  <2> QED BY <1>1, <2>1, AnchorEnds DEF Good
<1>3. CASE b[from] # <<>>
  <2> DEFINE stack == b[from]
             size == GroupSize(stack)
             rest == SubSeq(stack, 1, Len(stack) - size)
             c == Moved(b, from, to, size)
             now == b.generation
             g == Last(stack).generation
  <2>1. UndoRedo(b, from, to) = c
    BY <1>3 DEF UndoRedo
  <2>2. stack \in Seq(Entries) /\ b[to] \in Seq(Entries)
    BY <1>1 DEF Buffers
  <2>3. size \in 1..Len(stack)
    BY <1>3, <2>2, GroupSizeIsOfGroup
  <2>9. (Sorted(stack) => Sorted(rest) /\ \A i \in DOMAIN rest : rest[i].generation < g)
        /\ (Falling(stack) => Falling(rest) /\ \A i \in DOMAIN rest : rest[i].generation > g)
    BY <1>3, <2>2, GroupLeavesSorted, GroupLeavesFalling
  <2> HIDE DEF size
  <2>4. PICK turned \in Seq(Entries) :
           /\ Len(turned) = size /\ \A k \in 1..size : turned[k].generation = now
           /\ MovedFrom(c, b, from, to, stack, rest, turned)
    BY <1>1, <1>3, <2>1, <2>3, MovedShape
  <2> HIDE DEF c, rest
  <2>5. \A k \in DOMAIN turned : turned[k].generation = now
    BY <2>4, LenProperties
  <2>6. Len(stack) \in DOMAIN stack /\ g \in Nat /\ now \in Nat
    <3>1. Len(stack) \in Nat \ {0}
      BY <1>3, <2>2
    <3>2. Len(stack) \in 1..Len(stack) /\ DOMAIN stack = 1..Len(stack)
      BY <2>2, <3>1, LenProperties
    <3>3. stack[Len(stack)] \in Entries
      BY <2>2, <3>2, ElementOfSeq
    <3> QED BY <1>1, <3>2, <3>3 DEF Last, Entries, Buffers
  <2>7. CASE from = "undo"
    <3>1. c.undo = rest /\ c.redo = b.redo \o turned /\ c.generation = g
      BY <2>4, <2>7 DEF MovedFrom
    <3>2. Sorted(stack) /\ g < now
      BY <1>1, <2>6, <2>7 DEF Grown, Last
    <3>3. /\ b.redo \in Seq(Entries) /\ Falling(b.redo)
          /\ \A i \in DOMAIN b.redo : b.redo[i].generation > now
      BY <2>2, <2>7 DEF Grown
    <3>4. /\ Falling(b.redo \o turned)
          /\ \A i \in DOMAIN (b.redo \o turned) : (b.redo \o turned)[i].generation > g
      <4> HIDE DEF g, now
      <4>1. now > g
        BY <2>6, <3>2
      <4> QED BY <2>5, <2>6, <3>3, <4>1, TurnedOnFalling
    <3> QED BY <2>1, <2>9, <3>1, <3>2, <3>4 DEF Grown
  <2>8. CASE from = "redo"
    <3>1. c.redo = rest /\ c.undo = b.undo \o turned /\ c.generation = g
      BY <2>4, <2>8 DEF MovedFrom
    <3>2. Falling(stack) /\ now < g
      BY <1>1, <2>6, <2>8 DEF Grown, Last
    <3>3. /\ b.undo \in Seq(Entries) /\ Sorted(b.undo)
          /\ \A i \in DOMAIN b.undo : b.undo[i].generation < now
      BY <2>2, <2>8 DEF Grown
    <3>4. /\ Sorted(b.undo \o turned)
          /\ \A i \in DOMAIN (b.undo \o turned) : (b.undo \o turned)[i].generation < g
      <4> HIDE DEF g, now
      <4> QED BY <2>5, <2>6, <3>2, <3>3, TurnedOnSorted
    <3> QED BY <2>1, <2>9, <3>1, <3>2, <3>4 DEF Grown
  <2> QED BY <2>7, <2>8
<1> QED BY <1>2, <1>3

\* Undo.
LEMMA UndoEdits ==
    ASSUME Good(tb), Undo PROVE EditStep
<1> DEFINE b == UndoRedo(tb, "undo", "redo")
<1>1. Changed(b) /\ b.text \in Texts
  BY DEF Undo, Changed, ChangedBy, ShortTexts
<1>2. Good(b) /\ (Grown(tb) => Grown(b))
  BY <1>1, UndoRedoIsSound, UndoRedoIsGrown
<1> HIDE DEF b
<1> QED BY <1>1, <1>2, ChangedEdits DEF Edited

\* Redo.
LEMMA RedoEdits ==
    ASSUME Good(tb), Redo PROVE EditStep
<1> DEFINE b == UndoRedo(tb, "redo", "undo")
<1>1. Changed(b) /\ b.text \in Texts
  BY DEF Redo, Changed, ChangedBy, ShortTexts
<1>2. Good(b) /\ (Grown(tb) => Grown(b))
  BY <1>1, UndoRedoIsSound, UndoRedoIsGrown
<1> HIDE DEF b
<1> QED BY <1>1, <1>2, ChangedEdits DEF Edited

Edits ==
    \/ InsertText \/ DeleteText \/ ReplaceText \/ ReplaceGroup
    \/ InsertChar \/ DeleteChar \/ Undo \/ Redo

\* Every command that edits leaves a good buffer and a newer revision.
LEMMA EveryEditEdits ==
    ASSUME Good(tb), Edits
    PROVE  EditStep
<1>1. {<<>>} \in SUBSET Texts /\ Typed \in SUBSET Texts /\ Typed \cup {<<>>} \in SUBSET Texts
  BY EmptyIsText, TypedAreTexts
<1>2. CASE InsertText
  BY <1>1, <1>2, TransactionEdits DEF InsertText, Kinds
<1>3. CASE DeleteText
  BY <1>1, <1>3, TransactionEdits DEF DeleteText, Kinds
<1>4. CASE ReplaceText
  BY <1>1, <1>4, TransactionEdits DEF ReplaceText, Kinds
<1> QED
  BY <1>2, <1>3, <1>4, ReplaceGroupEdits, InsertCharEdits, DeleteCharEdits, UndoEdits,
     RedoEdits DEF Edits

-----------------------------------------------------------------------------
(* The invariant *)

\* IInv without the order of the generations, which a deletion after an undo breaks.
StableInv ==
    /\ TypeOK /\ AnchorIsOnTop /\ RunHasEntry /\ DeletionsAddNothing
    /\ SaveIsOfItsRevision

\* The caret's place and the parts of the invariant that are about the buffer.
LEMMA StableParts == StableInv <=>
    /\ Good(tb) /\ saveGeneration \in Nat /\ revision \in Nat
    /\ saving \in [revision : Nat, text : Texts] \cup {None} /\ saved \in Texts
    /\ SaveIsOfItsRevision
<1>1. tb \in Buffers => (tb.cursor <= Len(tb.text) <=> tb.cursor \in 0..Len(tb.text))
  <2> SUFFICES ASSUME tb \in Buffers
               PROVE  tb.cursor <= Len(tb.text) <=> tb.cursor \in 0..Len(tb.text)
    OBVIOUS
  <2>1. tb.cursor \in Nat /\ Len(tb.text) \in Nat
    BY TextLen DEF Buffers
  <2> QED BY <2>1
<1> QED
  BY <1>1 DEF StableInv, TypeOK, AnchorIsOnTop, RunHasEntry, DeletionsAddNothing, Good, Sound

\* The parts of the invariant that are about generations.
LEMMA GrownParts ==
    StableInv => (Grown(tb) <=> GenerationsGrow /\ RedoIsAhead)
<1> SUFFICES ASSUME StableInv PROVE Grown(tb) <=> GenerationsGrow /\ RedoIsAhead
  OBVIOUS
<1>1. tb \in Buffers
  BY DEF StableInv, TypeOK
<1>2. /\ tb.generation \in Nat
      /\ \A i \in DOMAIN tb.undo : tb.undo[i].generation \in Nat
      /\ \A i \in DOMAIN tb.redo : tb.redo[i].generation \in Nat
  BY <1>1, GenerationsAreNumbers
<1>3. ASSUME NEW stack \in Seq(Entries), stack # <<>>
      PROVE  /\ Len(stack) \in DOMAIN stack
             /\ \A i \in DOMAIN stack : i < Len(stack) \/ i = Len(stack)
  <2>1. Len(stack) \in Nat \ {0} /\ DOMAIN stack = 1..Len(stack)
    BY <1>3, EmptySeq, LenProperties
  <2> QED BY <2>1
<1>4. tb.undo \in Seq(Entries) /\ tb.redo \in Seq(Entries)
  BY <1>1 DEF Buffers
<1>5. Sorted(tb.undo) =>
        ((\A i \in DOMAIN tb.undo : tb.undo[i].generation < tb.generation)
           <=> (tb.undo # <<>> => Last(tb.undo).generation < tb.generation))
  <2>1. CASE tb.undo = <<>>
    BY <2>1
  <2>2. CASE tb.undo # <<>>
    <3> DEFINE n == Len(tb.undo)
    <3>1. n \in DOMAIN tb.undo /\ \A i \in DOMAIN tb.undo : i < n \/ i = n
      BY <1>3, <1>4, <2>2
    <3> HIDE DEF n
    <3>2. Last(tb.undo) = tb.undo[n]
      BY DEF Last, n
    <3> QED BY <1>2, <2>2, <3>1, <3>2 DEF Sorted
  <2> QED BY <2>1, <2>2
<1>6. Falling(tb.redo) =>
        ((\A i \in DOMAIN tb.redo : tb.redo[i].generation > tb.generation)
           <=> (tb.redo # <<>> => Last(tb.redo).generation > tb.generation))
  <2>1. CASE tb.redo = <<>>
    BY <2>1
  <2>2. CASE tb.redo # <<>>
    <3> DEFINE n == Len(tb.redo)
    <3>1. n \in DOMAIN tb.redo /\ \A i \in DOMAIN tb.redo : i < n \/ i = n
      BY <1>3, <1>4, <2>2
    <3> HIDE DEF n
    <3>2. Last(tb.redo) = tb.redo[n]
      BY DEF Last, n
    <3> QED BY <1>2, <2>2, <3>1, <3>2 DEF Falling
  <2> QED BY <2>1, <2>2
<1> QED BY <1>5, <1>6 DEF Grown, GenerationsGrow, RedoIsAhead, Sorted, Falling

\* The document that was just loaded.
LEMMA InitHolds == Init => StableInv /\ Grown(tb)
<1> SUFFICES ASSUME Init PROVE StableInv /\ Grown(tb)
  OBVIOUS
<1>1. Initial \in Texts
  BY ConstantsAssumption DEF Texts
<1>2. tb.text = Initial /\ tb.generation = 0 /\ tb.cursor = 0 /\ tb.undo = <<>>
      /\ tb.redo = <<>> /\ tb.lastType = "other" /\ tb.anchor = None
  BY DEF Init
<1>3. tb \in Buffers
  BY <1>1 DEF Init, Buffers, Types
<1>4. Good(tb)
  BY <1>1, <1>2, <1>3, TextLen DEF Good, Sound
<1>5. Grown(tb)
  BY <1>2 DEF Grown, Sorted, Falling
<1>6. SaveIsOfItsRevision
  BY DEF Init, SaveIsOfItsRevision
<1> QED BY <1>1, <1>4, <1>5, <1>6, StableParts DEF Init

\* What every step keeps, and what it keeps besides when no deletion follows an undo.
LEMMA StepHolds ==
    ASSUME StableInv, [Next]_vars
    PROVE  StableInv' /\ (Grown(tb) /\ ~Deletes => Grown(tb'))
<1>1. /\ Good(tb) /\ saveGeneration \in Nat /\ revision \in Nat
      /\ saving \in [revision : Nat, text : Texts] \cup {None} /\ saved \in Texts
      /\ SaveIsOfItsRevision
  BY StableParts
<1>2. SUFFICES
        /\ Good(tb') /\ saveGeneration' \in Nat /\ revision' \in Nat
        /\ saving' \in [revision : Nat, text : Texts] \cup {None} /\ saved' \in Texts
        /\ SaveIsOfItsRevision'
        /\ Grown(tb) /\ ~Deletes => Grown(tb')
  <2>1. tb' \in Buffers => (tb'.cursor \in 0..Len(tb'.text) => tb'.cursor <= Len(tb'.text))
    OBVIOUS
  <2> QED
    BY <2>1 DEF StableInv, TypeOK, AnchorIsOnTop, RunHasEntry, DeletionsAddNothing, Good, Sound
<1>3. tb \in Buffers /\ tb.text \in Texts /\ tb.generation \in Nat
  BY <1>1 DEF Good, Sound, Buffers
<1>4. CASE Edits
  <2>9. EditStep
    BY <1>1, <1>4, EveryEditEdits
  <2>8. PICK b : \E edits \in {1, 2} : ChangedBy(b, edits) /\ Edited(b)
    BY <2>9 DEF EditStep
  <2>1. PICK edits \in {1, 2} : ChangedBy(b, edits) /\ Edited(b)
    BY <2>8
  <2>2. /\ tb' = b /\ revision' = revision + edits
        /\ UNCHANGED <<saveGeneration, saving, saved>>
    BY <2>1 DEF ChangedBy
  <2>3. Good(tb') /\ (Grown(tb) /\ ~Deletes => Grown(tb'))
    BY <2>1, <2>2 DEF Edited
  <2>4. SaveIsOfItsRevision'
    <3> SUFFICES ASSUME saving # None
                 PROVE  saving.revision <= revision' /\ saving.revision # revision'
      BY <2>2 DEF SaveIsOfItsRevision
    <3>1. saving.revision \in Nat /\ saving.revision <= revision
      BY <1>1 DEF SaveIsOfItsRevision
    <3> QED BY <1>1, <2>2, <3>1
  <2> QED BY <1>1, <2>2, <2>3, <2>4
<1>5. CASE MoveCursor
  <2>1. PICK offset \in 0..Len(tb.text), anchor \in {tb.anchor, None} :
           tb' = [MovedTo(tb, offset) EXCEPT !.anchor = anchor]
    BY <1>5 DEF MoveCursor
  <2> DEFINE b == MovedTo(tb, offset)
  <2>2. /\ Sound(b) /\ b.text = tb.text /\ b.cursor = offset
        /\ Grown(tb) => Grown(b)
    BY <1>1, MovedIsSound DEF Good
  <2>3. b.anchor = tb.anchor
    BY <1>3 DEF MovedTo, Buffers
  <2> HIDE DEF b
  <2>4. tb' = [b EXCEPT !.anchor = anchor]
    BY <2>1 DEF b
  <2>5. /\ Sound(tb') /\ tb'.text = tb.text /\ tb'.cursor = offset
        /\ Grown(tb) => Grown(tb')
    BY <2>2, <2>3, <2>4, AnchorEnds
  <2>6. UNCHANGED <<saveGeneration, revision, saving, saved>>
    BY <1>5 DEF MoveCursor
  <2> QED BY <1>1, <2>5, <2>6 DEF Good, SaveIsOfItsRevision
<1>6. CASE SubmitSave
  BY <1>1, <1>3, <1>6 DEF SubmitSave, SaveIsOfItsRevision
<1>7. CASE CompleteSave
  BY <1>1, <1>3, <1>7 DEF CompleteSave, SaveIsOfItsRevision
<1>8. CASE UNCHANGED vars
  BY <1>1, <1>8 DEF vars, SaveIsOfItsRevision
<1> QED BY <1>4, <1>5, <1>6, <1>7, <1>8 DEF Next, Edits

\* Whatever the user does, the buffer is sound, and its caret is in the text.
THEOREM StableInvariant == Spec => []StableInv
<1>1. Init => StableInv
  BY InitHolds
<1>2. StableInv /\ [Next]_vars => StableInv'
  BY StepHolds
<1> QED BY <1>1, <1>2, PTL DEF Spec

\* Every variable keeps its type under every edit, undo, redo and save: offsets computed
\* from one state of the stacks are in the text of the next.
THEOREM TypesAreKept == Spec => []TypeOK
<1>1. StableInv => TypeOK
  BY DEF StableInv
<1> QED BY <1>1, StableInvariant, PTL

\* A continuation, which leaves the redo stack alone (edit_begin), never finds anything on
\* it, and writes where the entry on top ends.
THEOREM ContinuationsFindNoRedo == Spec => []AnchorIsOnTop
<1>1. StableInv => AnchorIsOnTop
  BY DEF StableInv
<1> QED BY <1>1, StableInvariant, PTL

\* A completion makes the document clean only when it saved the text that is shown
\* (apply_save_completion).
THEOREM LateCompletionsKeepNewText == Spec => CompletionsKeepNewText
<1>1. StableInv /\ [Next]_vars =>
        [CompleteSave /\ saveGeneration' # saveGeneration => saved' = tb.text]_vars
  <2> SUFFICES ASSUME StableInv, CompleteSave, saveGeneration' # saveGeneration
               PROVE  saved' = tb.text
    OBVIOUS
  <2> QED BY DEF StableInv, SaveIsOfItsRevision, CompleteSave
<1> QED BY <1>1, StableInvariant, PTL DEF Spec, CompletionsKeepNewText

\* With no deletion right after an undo, generations tell groups apart: the inductive
\* invariant the runs check.
THEOREM InductiveInvariant ==
    ASSUME "deleteAfterUndo" \notin Env
    PROVE  Spec => []IInv
<1>1. Init => StableInv /\ Grown(tb)
  BY InitHolds
<1>2. StableInv /\ Grown(tb) /\ [Next]_vars => (StableInv /\ Grown(tb))'
  <2> SUFFICES ASSUME StableInv, Grown(tb), [Next]_vars
               PROVE  StableInv' /\ Grown(tb')
    BY DEF Grown, Sorted, Falling
  <2> QED BY StepHolds DEF Deletes
<1>3. StableInv /\ Grown(tb) => IInv
  BY GrownParts DEF StableInv, IInv
<1> QED BY <1>1, <1>2, <1>3, PTL DEF Spec

\* Undo and redo take whole groups: entries of one generation are next to each other and
\* older than the buffer.
THEOREM GroupsStayTogether ==
    ASSUME "deleteAfterUndo" \notin Env
    PROVE  Spec => []GenerationsGrow
<1>1. IInv => GenerationsGrow
  BY DEF IInv
<1> QED BY <1>1, InductiveInvariant, PTL

=============================================================================
