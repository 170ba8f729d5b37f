SPECIFICATION FairSpec
CONSTANTS
  w1 = w1
  w2 = w2
  Worker <- MCWorkers
  Request <- MCRequests
  Test = {"a", "b"}
  test <- MCTest
  op <- MCOp
  Deletable = {"b"}
  NoWorker = NoWorker
  NoRequest = NoRequest
INVARIANTS
  RunsWithSchema
  NoPulledFile
  AcceptedStays
PROPERTIES
  EveryRequestAnswered
CHECK_DEADLOCK FALSE
