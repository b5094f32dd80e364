\* The same page when no call fails.
SPECIFICATION Spec
CONSTANTS
  Drills = {d1, d2}
  Layouts = {North}
  NoDrill = NoDrill
  NoView = NoView
  NoPreview = NoPreview
  Idle = Idle
  Slots = {s1, s2}
  MaxCommands = 5
  MaxLost = 0
INVARIANT ShownDrillCanBeContinued
