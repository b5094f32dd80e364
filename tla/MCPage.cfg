\* Two drills, two calls of the page at a time, one of which may fail; five
\* commands, so that a drill is created, frozen and worked on next to another.
SPECIFICATION Spec
CONSTANTS
  Drills = {d1, d2}
  Layouts = {North, South}
  NoDrill = NoDrill
  NoView = NoView
  NoPreview = NoPreview
  Idle = Idle
  Slots = {s1, s2}
  MaxCommands = 5
  MaxLost = 1
SYMMETRY Alike
INVARIANT FreezesWhatWasPreviewed
