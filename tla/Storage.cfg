SPECIFICATION Spec
CONSTANTS
  NULL = NULL
  Rows = {r1}
  Migrations = {1, 2}
  Installed = {1}
  Servers = {s1, s2}
  PortCount = 2
  Foreign = {1}
  MaxNow = 1
  MaxStarts = 2
  MaxCommands = 2
  MaxFaults = 2
SYMMETRY Symmetry
INVARIANTS
  JournalBelongs
  
  ServerRunsMigrated
  RestoreRefusesRunning
PROPERTIES
  RestoredIsTheBackup
  StatusIsHonest
CHECK_DEADLOCK FALSE
