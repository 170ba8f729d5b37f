SPECIFICATION FairSpec
CONSTANTS
  w1 = w1
  w2 = w2
  Worker <- MCWorkers
  Request <- MCRequests
  Payload <- MCPayload
  Control = {"lamp"}
  Model = {"m"}
  FirstQuarter <- MCFirstQuarter
  LastQuarter = 1
  QuarterOf <- MCQuarterOf
  NoWorker = NoWorker
  NoRequest = NoRequest
INVARIANTS
  AnswersMatchCredit
  StatesFitLayout
  OffCalendarUncounted
PROPERTIES
  ImplementsLedger
  BusyForAReason
  EveryRequestSettled
CHECK_DEADLOCK FALSE
