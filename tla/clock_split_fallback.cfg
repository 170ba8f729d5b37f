SPECIFICATION Spec
CONSTANTS
  Bucket = 3
  BucketsPerHour = 4
  HoursPerDay = 2
  DaysPerWeek = 3
  EpochDay = 1
  Minute = 2
  ProbeLimit = 5
  Clock <- OneFallBack
  Interval <- MCInterval
  BucketAt <- ClockBucket
  NextBoundary <- ClockBoundary
  Cuttable <- ClockCuttable
INVARIANTS
  FiledRightly
CHECK_DEADLOCK FALSE
