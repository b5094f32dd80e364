\* As many readers as connections.
SPECIFICATION Spec
CONSTANTS
  Readers = {r1, r2}
  Writers = {w1}
  PoolSize = 2
  Rounds <- MCRounds
INVARIANTS OnlyDetailsBlock NothingIsLeaked
PROPERTIES EveryRequestEnds
