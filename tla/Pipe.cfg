CONSTANTS
  p1 = p1
  p2 = p2
  p3 = p3
  NoProc = NoProc
  Proc = {p1, p2, p3}
  x = x
  y = y
  Byte = {x, y}
  PIPESIZE = 2
  UINT = 4
  MAXN = 2
SPECIFICATION Spec
SYMMETRY Symmetry
INVARIANTS NoLostWakeup
PROPERTIES ZeroIsEofOrFault FifoSpec
CHECK_DEADLOCK FALSE
