CONSTANTS
  Values = {v1, v2}
  Zero = Zero
  Undef = Undef
  NoBlock = NoBlock
  Capacity = 2
  MaxBlocks = 4
  GrowStep = 2
SPECIFICATION Spec
INVARIANTS WellFormed SnapshotIntact
PROPERTIES DirtyReachesImage ImplementsBlockStore
SYMMETRY Symmetry
