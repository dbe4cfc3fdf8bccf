SPECIFICATION FairSpec
CONSTANTS
  Setups <- MCSetups
  MaxRuns = 2
  MaxCalls = 8
INVARIANTS
  ReportsFit
  RowsFit
  CancelIsPrompt
  NoFault
PROPERTY RunsEnd
