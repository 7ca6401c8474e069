SPECIFICATION Spec
CONSTANTS
  NULL = NULL
  Rows = {r1}
  Migrations = {1, 2}
  Installed = {1}
  Servers = {s1}
  PortCount = 2
  Foreign = {1}
  MaxNow = 1
  MaxStarts = 1
  MaxCommands = 2
  MaxFaults = 1
SYMMETRY Symmetry
INVARIANT WayBackIsKept
CHECK_DEADLOCK FALSE
