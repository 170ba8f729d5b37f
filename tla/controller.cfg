SPECIFICATION FairSpec
CONSTANTS
  Caller = {"other"}
  MaxSignals = 2
  MaxDeaths = 2
  MaxRequests = 2
  BindsFail = TRUE
INVARIANTS
  IInv
  NoLeak
  Graceful
PROPERTIES
  StopsOrDeadlocks
CHECK_DEADLOCK FALSE
