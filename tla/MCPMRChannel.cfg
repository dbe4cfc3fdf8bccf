SPECIFICATION FairSpec
CONSTANTS
  Kinds <- MCKinds
  Ratios <- MCRatios
  Periods <- MCPeriods
INVARIANTS
  NoDataRace
  OneTurn
  NoLostWakeup
 
PROPERTIES
  ImplementsPromise
  AllCallsReturn
