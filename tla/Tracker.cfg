SPECIFICATION Spec
CONSTANTS
  NULL = NULL
  Hrefs <- MCHrefs
  Signals <- MCSignals
  Offsets = {0, 1, 5}
  Heights = {0, 4}
  Kinds = {"outbound"}
  PerSecond = 2
  MaxTime = 3
  MaxSent = 5
  MaxViews = 3
  MaxShift = 1
INVARIANTS
  
  EventsNameTheirPage
  MilestonesReportedOnce
  LastReportIsWhole
CHECK_DEADLOCK FALSE
