--------------------------- MODULE MCEditHistory ---------------------------
(***************************************************************************)
(* Small instances of EditHistory: a document of one or two characters.    *)
(***************************************************************************)
EXTENDS EditHistoryProps

OneCharacter == <<"a">>
TwoCharacters == <<"a", "b">>

=============================================================================
