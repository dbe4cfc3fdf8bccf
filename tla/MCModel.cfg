SPECIFICATION Spec
CONSTANTS
  Setups <- MCSetups
  FileNames <- MCFileNames
  MaxTime <- MCMaxTime
  MaxCalls <- MCMaxCalls
INVARIANTS
  SimulationIsReady
  CallsAreLegal
  RowsKept
