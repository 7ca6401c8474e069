SPECIFICATION Spec
CONSTANTS
  v1 = v1
  v2 = v2
  NULL = NULL
  Visitors <- MCVisitors
  Device <- MCDevice
  Hits <- MCHits
  Retention = 2
  Deepest = 2
  TrailingDays = {1, 3}
  MaxDay = 2
  MaxEvents = 1
  MaxBuffered = 1
INVARIANT CompletedDaysAreServed
