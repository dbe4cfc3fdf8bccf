SPECIFICATION FairSpec
CONSTANT Setups <- MCSetups
INVARIANTS
  Coherent
PROPERTIES
  StepUntilEnds
