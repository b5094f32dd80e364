-------------------------- MODULE MCCommandService --------------------------
(* Three calls, over ids that are used for the same request, for another  *)
(* operation and for another drill.                                       *)
EXTENDS CommandService, TLC

CONSTANTS c1, c2, c3, d1, d2, d3, i1, i2

Ask(id, op, drill, expected) ==
  [id |-> id, op |-> op, drill |-> drill, expected |-> expected]

\* d3 is what a create may make.
MCDrills == {d1, d2, d3}
MCExisting == {d1, d2}
\* Calls are interchangeable; used with safety properties only.
CallSymmetry == Permutations(Calls)
MCOperations == {Create, "revise_drill", "freeze_baseline"}
MCRequests ==
  {Ask(i1, Create, d1, 0),
   Ask(i1, "revise_drill", d1, 1),
   Ask(i2, "revise_drill", d1, 1),
   Ask(i2, "revise_drill", d2, 1),
   Ask(i2, "freeze_baseline", d1, 2)}
=============================================================================
