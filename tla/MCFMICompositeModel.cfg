SPECIFICATION FairSpec
CONSTANTS
  Setups <- MCSetups
  MaxTime <- MCMaxTime
  MaxCalls <- MCMaxCalls
INVARIANTS
  InputsFollowOutputs
PROPERTIES
  ImplementsLockstep
  CallsReturn
