SPECIFICATION Spec
CHECK_DEADLOCK FALSE
CONSTANTS
  MapOrder <- MCMapOrder
  Names <- MCNames
  Bases <- MCBases
  SubModels <- MCSubModels
  Solvers <- MCSolvers
  FMUs <- MCFMUs
  Signals <- MCSignals
  Deletions <- MCDeletions
  Renamings <- MCRenamings
  Kinds = {"cs", "me", "table"}
  Methods = {"internal", "euler"}
  Values = {"half", "small", "true", "refused"}
  Settings <- MCSettings
  MaxModels = 2
  MaxCalls = 4
INVARIANTS
  SolverLinks
  ReadyModelIsStepped
  LookupsAgree
  LoadedIsSaved
