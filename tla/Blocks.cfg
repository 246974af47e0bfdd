CONSTANTS
  p1 = p1
  p2 = p2
  NoProc = NoProc
  Proc = {p1, p2}
  FSSIZE = 13
  NINODES = 3
  LOGSIZE = 0
  BSIZE = 2
  NDIRECT = 1
  IPB = 2
  BPB = 11
  MAXOPBLOCKS = 6
  UINT = 16
  MAXCALLS = 3
  Images <- MCImages
  Sources <- MCSources
SPECIFICATION Spec
SYMMETRY Symmetry
INVARIANTS BlocksAccounted WithinBudget
PROPERTIES FileSpec
CHECK_DEADLOCK FALSE
