-------------------------- MODULE MCDrillLifecycle --------------------------
(* Instances of DrillLifecycle with the tables under it and the progress    *)
(* shown of it, for TLC.  A second is two ticks, so that the truncation of  *)
(* a measured time shows; a day is forty ticks.                             *)
EXTENDS AggregateStore, ProgressSummary, TLC

CONSTANTS Ann, Bob, NoName, North, South, Partial, Cleared, Signed

MCPeople == {Ann, Bob}
MCProfiles ==
  {[lead |-> Ann, capacity |-> 2, date |-> 0],
   [lead |-> Bob, capacity |-> 1, date |-> 0],
   [lead |-> NoName, capacity |-> 2, date |-> 0],
   [lead |-> Ann, capacity |-> 6, date |-> 0]}
MCLayouts == {North, South, Partial}
MCCompleteLayouts == {North, South}
MCMaxSeconds == <<3, 2>>

Form(people, start, end, zone, outcome, evidence, recorder) ==
  [participants |-> people, start |-> start, end |-> end, zone |-> zone,
   outcome |-> outcome, evidence |-> evidence, recorder |-> recorder]

\* An early pass of the first checkpoint; a pass for either that is half a
\* second over the second one's limit, and one too slow for it; a manual
\* failure by more people than Bob's capacity; evidence of spaces only; a
\* pass late in the day; then forms that are always refused: another day in
\* the form's zone, an end before the start, no recorder and no conclusion.
MCResultInputs ==
  {Form(1, 0, 5, 0, "pass", "digest", Ann),
   Form(1, 6, 11, 0, "pass", "digest", Bob),
   Form(1, 6, 12, 0, "pass", "digest", Bob),
   Form(2, 6, 9, 0, "fail", "digest", Ann),
   Form(1, 0, 5, 0, "pass", "spaces", Ann),
   Form(1, 36, 39, 0, "pass", "digest", Ann),
   Form(1, 36, 39, 8, "pass", "digest", Ann),
   Form(1, 8, 6, 0, "pass", "digest", Ann),
   Form(1, 6, 8, 0, "other", "empty", NoName)}
\* Enough to reach review with and without a deviation.
MCFewResultInputs ==
  {Form(1, 0, 5, 0, "pass", "digest", Ann),
   Form(1, 6, 9, 0, "pass", "digest", Ann),
   Form(1, 6, 9, 0, "pass", "empty", Ann)}
MCAnswers == {Cleared, Signed}

\* The complete layouts are alike.
LayoutSymmetry == Permutations(MCCompleteLayouts)
=============================================================================
