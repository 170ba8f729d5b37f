SPECIFICATION FairSpec
CONSTANTS
  Bucket = 3
  BucketsPerHour = 4
  HoursPerDay = 2
  DaysPerWeek = 3
  EpochDay = 1
  Minute = 2
  ProbeLimit = 5
  Clock <- MCClock
  Interval <- MCInterval
  BucketAt <- ClockBucket
  NextBoundary <- ClockBoundary
  Cuttable <- ClockCuttable
INVARIANTS
  FiledWhereExact
  MisfiledOnlyInFold
  DriftBounded
  SkippedIfUndefined
PROPERTIES
  Terminates
CHECK_DEADLOCK FALSE
