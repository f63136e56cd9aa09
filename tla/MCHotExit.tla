----------------------------- MODULE MCHotExit -----------------------------
(* Two places for tabs and two files, of which one is there at first. *)
EXTENDS HotExitProps

CONSTANTS f1, f2, none
MCTabs == {1, 2}
MCPaths == {f1, f2}
MCIds == {11, 12}
MCPresent == {f1}
=============================================================================
