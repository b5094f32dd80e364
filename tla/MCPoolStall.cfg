\* As many readers as connections: the promise of the read model.
SPECIFICATION Spec
CONSTANTS
  Readers = {r1, r2}
  Writers = {w1}
  PoolSize = 2
  Rounds <- MCRounds
PROPERTIES EveryDetailIsReturned
