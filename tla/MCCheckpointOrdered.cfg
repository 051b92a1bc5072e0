CONSTANTS
  Files = {f, g}
  NBlocks = 4
  SnapLen = 1
  Journaled = TRUE
  Crashes = 1
  MaxVer = 2
SPECIFICATION Spec
INVARIANTS DataBeforeInode
SYMMETRY Symmetry
CHECK_DEADLOCK FALSE
