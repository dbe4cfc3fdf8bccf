SPECIFICATION FairSpec
CONSTANTS
  Setups <- MCSetups
  StopTime = 4
  Halves = {1, 2}
  Garbage = {0, 1, 7}
  MaxRuns = 2
INVARIANTS
  PhasesAreBarriers
  NothingMissing
PROPERTY
  SimulateReturns
\* The client may be done, and a second call may wait for ever.
CHECK_DEADLOCK FALSE
