SPECIFICATION Spec
CONSTANTS
  MAXARGS = 3
  DIRSIZ = 2
  BUFSIZE = 5
  NPROC = 7
  NBUF = 10
  Sessions <- MCSessions
  Programs <- MCPrograms
  Dirs <- MCDirs
  HEADER = 2
  INT = 64
  NALLOC = 4
  HEAPMAX = 14
  Requests = {1, 3, 5, 27, 31, 59, 63}
  Gaps = {1}
INVARIANTS TextRight JobsSound HeapSound
PROPERTY ShellReturns
CHECK_DEADLOCK FALSE
