CONSTANTS
  p1 = p1
  p2 = p2
  p3 = p3
  InitProc = p1
  NoProc = NoProc
  Proc = {p1, p2, p3}
  NFILE = 3
  NOFILE = 3
  Pages = {1}
  Writes = {1, 3}
  CHUNK = 2
  MAXSIZE = 4
  MAXCALLS = 5
SPECIFICATION Spec
SYMMETRY Symmetry
INVARIANTS FileRefs OffsetsExact
CHECK_DEADLOCK FALSE
