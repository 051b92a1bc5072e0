CONSTANTS
  Names = {a, b}
  Handles = {h1, h2}
  MaxIno = 4
  Guard = 4
  Programs <- AllPrograms
SPECIFICATION Spec
INVARIANTS WellFormed LinkCounts TreeIntact HandlesKeepInode OpenCounts
SYMMETRY Symmetry
CHECK_DEADLOCK FALSE
