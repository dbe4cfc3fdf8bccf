SPECIFICATION Spec
CONSTANTS
  Parts <- MCParts
  Graphs <- MCGraphs
  Connections <- MCConnections
  MaxConnections = 3
INVARIANTS
  LoopsTogether
  ProducersFirst
