SPECIFICATION FairSpec
CONSTANTS
  NoSource = NoSource
  NoName = NoName
  Export = {"e1", "e2"}
  Source = {"main"}
  Name = {"n1", "n2"}
  source <- MCSource
  out <- MCOut
  Testing = FALSE
  OneAtATime = TRUE
  MaxVersion = 1
  MaxTime = 3
  MaxCrashes = 1
  MaxRemovals = 1
INVARIANTS
  VisibleComplete
  AnswerHolds
  NewestHasNewestData
  SummaryCoversRequest
PROPERTIES
  NewestRequested
CHECK_DEADLOCK FALSE
