SPECIFICATION Spec
CHECK_DEADLOCK FALSE
CONSTANTS
  Top = "root"
  SubSystems <- MCSubSystems
  Components <- MCComponents
  Variables <- MCVariables
  Drafts <- MCDrafts
  Connectors <- MCConnectors
  Wirings <- MCWirings
  Settings <- MCSettings
  StepSize = 2
  StopTime = 5
  MaxCalls = 5
INVARIANT ColumnsAreTheirs
PROPERTY StepPasses
