CONSTANTS
  Names <- MCNames
  Handles = {}
  MaxIno = 9
  Guard = 9
  Programs <- MCPrograms
  Threads = {t1, t2, t3}
  Targets <- MCTargets
  Layouts <- MCLayouts
SPECIFICATION TreeSpec
INVARIANTS TreeTypeOK MakersSucceed RemoversWin
PROPERTIES AllReturn
CHECK_DEADLOCK FALSE
