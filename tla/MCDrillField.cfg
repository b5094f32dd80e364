\* The field phase: revising, previewing, freezing, checks, remediation and
\* retests, up to an approval without a returned round.
SPECIFICATION StoreSpec
CONSTANTS
  Ann = Ann  Bob = Bob  NoName = NoName
  North = North  South = South  Partial = Partial
  Cleared = Cleared  Signed = Signed
  People <- MCPeople
  Blank = NoName
  NoHash = NoHash
  Profiles <- MCProfiles
  MaxCapacity = 5
  Layouts <- MCLayouts
  CompleteLayouts <- MCCompleteLayouts
  CheckpointCount = 2
  MaxSeconds <- MCMaxSeconds
  Second = 2
  Day = 40
  ResultInputs <- MCResultInputs
  MaxItems = 1
  Answers <- MCAnswers
  MaxVersion = 10
INVARIANTS TypeOK StatusMatchesProgress
  OpenDeviationIffLatestFails GateIsEarned RetestHistoryConsistent ResultsFitTheDrill FrozenAsPreviewed
  SummaryIsHonest NextActionIsAccepted DamageIsNoticed
SYMMETRY LayoutSymmetry
CHECK_DEADLOCK FALSE
