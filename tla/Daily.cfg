SPECIFICATION DailySpec
CONSTANTS
  Jobs <- MCJobs
  Interval <- MCInterval
  MaxTime = 8
  MaxStarts = 1
  DayLength = 2
  Retention = 5
  Slip = 1
  MaxRows = 2
  MaxFaults = 3
  MaxStops = 1
INVARIANTS
  ClosedDayIsRolledUp
  SaltFollowsUptime
  RetentionHolds
  HealthIsHonest
CHECK_DEADLOCK FALSE
