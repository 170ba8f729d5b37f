SPECIFICATION Spec
CONSTANTS
  w1 = w1
  w2 = w2
  Worker <- MCWorkers
  Request <- DeletedRequests
  Test = {"a", "b"}
  test <- DeletedTest
  op <- DeletedOp
  Deletable = {"b"}
  NoWorker = NoWorker
  NoRequest = NoRequest
INVARIANTS
  DeletionHandled
CHECK_DEADLOCK FALSE
