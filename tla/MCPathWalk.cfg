CONSTANTS
  Inos <- MCInos
  Trees <- MCTrees
  Paths <- MCPaths
  MaxFds = 1
  SYMLOOP_MAX = 3
SPECIFICATION Spec
INVARIANTS TypeOK Jailed WalkAgrees
PROPERTIES ReturnsAcyclic
