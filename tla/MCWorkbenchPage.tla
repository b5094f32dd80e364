---------------------------- MODULE MCWorkbenchPage ----------------------------
(* Instances of WorkbenchPage for TLC.  The names of slots, drills and      *)
(* layouts are alike.                                                       *)
EXTENDS WorkbenchPage, TLC

Alike == Permutations(Slots) \cup Permutations(Drills) \cup Permutations(Layouts)
=============================================================================
