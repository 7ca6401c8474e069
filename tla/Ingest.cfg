SPECIFICATION FairSpec
CONSTANTS
  Clients = {c1, c2}
  TurnSize = 1
  MaxBatch = 2
  Window = 1
  TicksPerSecond = 1
  MaxEvents = 4
  MaxNow = 2
  MaxOpen = 1
  MaxSalt = 2
  MaxFaults = 1
  MaxKills = 1
  MaxSignals = 1
INVARIANTS
  
  SessionHasOneVisitor
  LossIsBounded
PROPERTIES
  LedgerSpec
  RecordsUseCurrentSalt
  Settles
