CONSTANTS
  Names = {a, b}
  Handles = {h1, h2}
  MaxIno = 3
  Guard = 3
  Programs <- OnlyThreaded
SPECIFICATION Spec
INVARIANTS UnlinkWhileOpen
CHECK_DEADLOCK FALSE
