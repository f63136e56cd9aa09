--------------------------- MODULE MCAtomicSave ---------------------------
(***************************************************************************)
(* Small instances of AtomicSave: one or two threads.                      *)
(***************************************************************************)
EXTENDS AtomicSaveProps

CONSTANTS s1, s2

OneSaver == {s1}
TwoSavers == {s1, s2}

=============================================================================
