CONSTANTS
  c0 = c0
  c1 = c1
  NoCpu = NoCpu
  NPROC = 2
  Cpu = {c0, c1}
  Cpu0 = c0
SPECIFICATION FairSpec
INVARIANTS OneStack NoLostWakeup
PROPERTIES TrapTransparent SleeperRuns
