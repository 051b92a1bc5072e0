CONSTANTS
  Users = {u1}
  Ctx = Ctx
  MaxFd = 5
  MaxOpen = 2
  Bits = 3
  MAX_SZ = 3
  Seeks <- MCSeeks
  MaxWrites = 2
SPECIFICATION Spec
INVARIANTS WellFormed NothingLost AppendsKept ReadsInOrder
PROPERTIES FreshFd
