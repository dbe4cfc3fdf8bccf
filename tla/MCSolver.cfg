SPECIFICATION FairSpec
CONSTANTS
  Setups <- MCSetups
  EndTime <- MCEndTime
  MaxResets <- MCMaxResets
INVARIANTS
  EventsInEventMode
  NoEventMissed
  StatesReachStop
PROPERTIES
  DoStepReturns
