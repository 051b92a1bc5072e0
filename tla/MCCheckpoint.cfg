CONSTANTS
  Files = {f, g}
  NBlocks = 4
  SnapLen = 1
  Journaled = TRUE
  Crashes = 1
  MaxVer = 3
SPECIFICATION Spec
INVARIANTS WellFormed Mountable CheckpointComplete CommittedCheckpointed Durable
SYMMETRY Symmetry
CHECK_DEADLOCK FALSE
