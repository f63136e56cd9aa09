---------------------------- MODULE MCFileSafety ----------------------------
(***************************************************************************)
(* Small instances of FileSafety: two tabs, one file and the names its     *)
(* conflict copies may get.                                                *)
(***************************************************************************)
EXTENDS FileSafetyProps

CONSTANTS t1, t2, home, c1, c2

MCTabs == {t1, t2}
OneCopy == {c1}
TwoCopies == {c1, c2}
OneCopyPaths == {home, c1}
TwoCopyPaths == {home, c1, c2}

=============================================================================
