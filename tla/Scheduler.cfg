SPECIFICATION FairSpec
CONSTANTS
  fast = fast
  slow = slow
  Jobs <- MCJobs
  Interval <- MCInterval
  MaxTime = 5
  MaxStarts = 2
INVARIANTS
  NoOverlap
  NoJobIsDropped
  StopIsQuiet
PROPERTY EveryJobRunsAgain
