SPECIFICATION Spec
CONSTANTS
  Clients = {c1, c2}
  TurnSize = 1
  MaxBatch = 2
  Window = 1
  TicksPerSecond = 1
  MaxEvents = 2
  MaxNow = 2
  MaxOpen = 1
  MaxSalt = 2
  MaxFaults = 1
  MaxKills = 0
  MaxSignals = 0
INVARIANT FailureIsSurvived
