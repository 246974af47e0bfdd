CONSTANTS
  p1 = p1
  p2 = p2
  NoProc = NoProc
  Proc = {p1, p2}
  NINODES = 3
  a = a
  b = b
  Name <- MCName
  Call <- MCCall
SPECIFICATION Spec
SYMMETRY Symmetry
INVARIANTS RefCounts NamesSound NoLockCycle NoLeak
CHECK_DEADLOCK FALSE
CONSTANTS
  MAXCALLS = 3
  Image <- MCImage
