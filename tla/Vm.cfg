CONSTANTS
  p1 = p1
  p2 = p2
  InitProc = p1
  Proc = {p1, p2}
  NPAGES = 23
  PGSIZE = 4
  FAN = 4
  USERSTACK = 1
  MAXARG = 3
  ALIGN = 2
  UINT64 = 256
  Execs <- MCExecs
  SbrkN <- MCSbrkN
  Access <- MCAccess
  MAXPIPES = 13
  MAXOPS = 3
SPECIFICATION Spec
INVARIANTS PagesAccounted CopyinSound
PROPERTIES MemSpec
CHECK_DEADLOCK FALSE
