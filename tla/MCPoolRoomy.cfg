\* More connections than readers.
SPECIFICATION Spec
CONSTANTS
  Readers = {r1, r2}
  Writers = {w1}
  PoolSize = 3
  Rounds <- MCRounds
INVARIANTS NoCircularWait
PROPERTIES EveryRequestIsServed
