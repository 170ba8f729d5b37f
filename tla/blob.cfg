SPECIFICATION Spec
CONSTANTS
  BucketsPerWeek = 2
  ClockCount = 2
  NumStates = 3
  Limit = 5
  Event <- MCEvent
  from <- MCFrom
  to <- MCTo
  raises <- MCRaises
  spans <- MCSpans
  NoEvent = NoEvent
INVARIANTS
  LayoutIsDense
PROPERTIES
  ImplementsTable
CHECK_DEADLOCK FALSE
