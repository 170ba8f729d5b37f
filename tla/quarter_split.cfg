SPECIFICATION Spec
CONSTANTS
  FirstMonth <- MCFirstMonth
  LastMonth <- MCLastMonth
  MonthStart <- MCMonthStart
  MonthOf <- MCMonthOf
  Interval <- MCInterval
INVARIANTS
  Tiling
  FiledRightly
  ConsecutiveQuarters
  FailsAtTheEdges
CHECK_DEADLOCK FALSE
