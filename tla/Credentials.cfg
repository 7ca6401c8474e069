SPECIFICATION Spec
CONSTANTS
  NULL = NULL
  Own = Own
  Example = Example
  Placeholder = Placeholder
  Blank = Blank
  Processes = {p1, p2}
  HandLines <- MCHandLines
  HandFiles <- MCHandFiles
  MaxNow = 1
  MaxStarts = 2
  MaxCommands = 2
  MaxFaults = 1
  MaxEdits = 1
SYMMETRY Symmetry
INVARIANTS
  
  BackupsAreKept
  SessionsSurviveRestart
PROPERTY OnlyCredentialsChange
CHECK_DEADLOCK FALSE
