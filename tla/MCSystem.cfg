SPECIFICATION Spec
SYMMETRY MCSymmetry
CONSTANTS
  Names = {m, n}
  Bases <- MCBases
  Systems <- MCSystems
  Connectors <- MCConnectors
  SubModels <- MCSubModels
  Ends <- MCEnds
  Buses <- MCBuses
  Signals <- MCSignals
  TLMTypes <- MCTLMTypes
  Kinds <- MCKinds
  MaxCalls = 4
INVARIANTS
  Registered
  OneDriver
  BuiltIsAccepted
  RoundTrip
