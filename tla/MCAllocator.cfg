CONSTANTS
  FirstData = 1
  InitialBlocks = 4
  GrowStep = 2
  ShrinkSlack = 1
  SnapUnits = 4
  SnapSlack = 2
  MaxWant = 2
  MaxBlocks = 8
SPECIFICATION Spec
INVARIANTS TypeOK Coalesced Partition StoredInImage SnapshotUsable
PROPERTIES ImplementsBlockSpace
