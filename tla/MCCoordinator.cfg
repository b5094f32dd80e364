\* Three commands, two keys and as many addresses as commands, so that an
\* address is used again while others are in use.
SPECIFICATION Spec
CONSTANTS
  Procs = {p1, p2, p3}
  Keys = {k1, k2}
  Refs = {r1, r2, r3}
  Nobody = Nobody  NoKey = NoKey  NoRef = NoRef
INVARIANTS TableMatchesUsers ExclusionPerKey
PROPERTIES EveryWaiterEnters ImplementsKeyedMutex
