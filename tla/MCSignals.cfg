SPECIFICATION Spec
CHECK_DEADLOCK FALSE
CONSTANTS
  FMUs <- MCFMUs
  Tables = {"T"}
  Variables <- MCVariables
  Connections <- MCConnections
  Bases <- MCBases
  Patterns <- MCPatterns
  Settings <- MCSettings
  FileNames <- MCFileNames
  Intervals = {2, 4}
  BufferSize = 2
  Start = 0
  Stop = 4
  MaxTime = 4
  MaxCalls = 3
INVARIANTS
  SeriesAreTheirs
  ParametersAreKept
  CompareIsSound
