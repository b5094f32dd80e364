\* Three calls and a crash: safety.
SPECIFICATION Spec
CONSTANTS
  c1 = c1  c2 = c2  c3 = c3  d1 = d1  d2 = d2  d3 = d3  i1 = i1  i2 = i2
  Calls = {c1, c2, c3}
  Requests <- MCRequests
  RequestIDs = {i1, i2}
  Operations <- MCOperations
  Drills <- MCDrills
  Existing <- MCExisting
  MaxCrashes = 1
  NoCall = NoCall  NoKey = NoKey  NoRequest = NoRequest  NoResponse = NoResponse
INVARIANTS AppliedAtMostOnce NoLostUpdate AnswersAreDurable RetryIsNotRefused
PROPERTIES BusyOnlyFromOthers
SYMMETRY CallSymmetry
CHECK_DEADLOCK FALSE
