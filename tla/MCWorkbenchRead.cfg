\* Reads of a drill while its commands are committed.
SPECIFICATION ReadSpec
CONSTANTS
  Ann = Ann  Bob = Bob  NoName = NoName  North = North  Cleared = Cleared
  People <- MCPeople
  Blank = NoName
  Profiles <- MCProfiles
  MaxCapacity = 5
  Layouts <- MCLayouts
  CompleteLayouts <- MCLayouts
  CheckpointCount = 1
  MaxSeconds <- MCMaxSeconds
  Second = 1
  Day = 40
  ResultInputs <- MCResultInputs
  MaxItems = 1
  Answers <- MCAnswers
  MaxVersion = 8
INVARIANTS CurrentViewIsExact TimelineAccountsForView
  VerificationHolds ShownReviewIsWhole
