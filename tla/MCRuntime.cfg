\* Four requests.  A process that ended does nothing more.
SPECIFICATION Spec
CONSTANT Requests = {r1, r2, r3, r4}
INVARIANT CleanEndServedAll
PROPERTY StopEnds
CHECK_DEADLOCK FALSE
