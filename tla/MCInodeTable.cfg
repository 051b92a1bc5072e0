CONSTANTS
  Names = {x, y}
  Values = {v}
  PerBlock = 2
  MaxExts = 2
  MaxXattrs = 1
  MaxIno = 4
  Owners = {3, 4}
  Foreign <- MCForeign
  MaxData = 1
  NBlocks = 6
SPECIFICATION Spec
INVARIANTS WellFormed InodesKept BlocksOwned
SYMMETRY Symmetry
