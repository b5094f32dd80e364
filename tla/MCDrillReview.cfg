\* The review phase: returned rounds, answers, resubmission and approval, with
\* few kinds of results before it.
SPECIFICATION StoreSpec
CONSTANTS
  Ann = Ann  Bob = Bob  NoName = NoName
  North = North  South = South  Partial = Partial
  Cleared = Cleared  Signed = Signed
  People <- MCPeople
  Blank = NoName
  NoHash = NoHash
  Profiles <- MCProfiles
  MaxCapacity = 5
  Layouts <- MCLayouts
  CompleteLayouts <- MCCompleteLayouts
  CheckpointCount = 2
  MaxSeconds <- MCMaxSeconds
  Second = 2
  Day = 40
  ResultInputs <- MCFewResultInputs
  MaxItems = 2
  Answers <- MCAnswers
  MaxVersion = 14
INVARIANTS OpenRoundIffReturned DecisionStands TimelineAccountsForState
  StoredAsProduced HonestChainVerifies
PROPERTIES ClosedRecordsStay
CHECK_DEADLOCK FALSE
