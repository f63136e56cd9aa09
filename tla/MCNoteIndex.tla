---------------------------- MODULE MCNoteIndex ----------------------------
(***************************************************************************)
(* Small instances of NoteIndex: a directory with two names that may       *)
(* collide, another with one of them again and with a name of its own.     *)
(***************************************************************************)
EXTENDS NoteIndexProps

CONSTANTS x, y

a == <<"notes", "one">>
b == <<"notes", "two">>
c == <<"archive", "one">>
d == <<"archive", "six">>

MCPaths == {a, b, c}
FourPaths == {a, b, c, d}
MCCaseOnly == {<<a, b>>}
NoCaseOnly == {}
MCRenamed == [p \in Paths \X Notes |-> b]
MCHome == <<a, b>>
TwinHome == <<a, c>>
MCContent == <<x, y>>
MCRank == [p \in Paths |-> IF p = a THEN 1 ELSE IF p = b THEN 2 ELSE IF p = c THEN 3 ELSE 4]

=============================================================================
