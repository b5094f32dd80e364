--------------------------- MODULE MCWorkbenchRead ---------------------------
(* An instance of WorkbenchRead: one checkpoint, which passes or lacks its  *)
(* evidence, and commands up to an approval after one returned review.     *)
EXTENDS WorkbenchRead

CONSTANTS Ann, Bob, NoName, North, Cleared

MCPeople == {Ann, Bob}
MCProfiles == {[lead |-> Ann, capacity |-> 2, date |-> 0],
               [lead |-> Bob, capacity |-> 1, date |-> 0]}
MCLayouts == {North}
MCMaxSeconds == <<3>>
Form(start, evidence) ==
  [participants |-> 1, start |-> start, end |-> start + 3, zone |-> 0,
   outcome |-> "pass", evidence |-> evidence, recorder |-> Ann]
MCResultInputs == {Form(0, "digest"), Form(0, "empty")}
MCAnswers == {Cleared}
=============================================================================
