CONSTANTS
  Files = {f}
  Values = {a}
  Zero = Zero
  Hole = Hole
  Eio = Eio
  NoRecord = NoRecord
  UnitsPerBlock = 2
  InlineMax = 1
  RecBlocks = 2
  MaxDirect = 1
  MaxSize = 5
  MaxWrite = 2
  MaxOps = 5
  MaxShared = 4
  MaxUsed = 0
  NBlocks = 10
SPECIFICATION Spec
INVARIANTS EveryByteKept
CHECK_DEADLOCK FALSE
