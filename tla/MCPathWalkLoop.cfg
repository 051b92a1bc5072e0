CONSTANTS
  Inos <- MCInos
  Trees <- MCTrees
  Paths <- MCPaths
  MaxFds = 0
  SYMLOOP_MAX = 3
SPECIFICATION Spec
PROPERTIES Returns
