CONSTANTS
  NPROC = 3
  MAXPID = 3
  KILLARGS = {0, 2, 3}
SPECIFICATION FairSpec
INVARIANTS FreedIsOffCpu KillHitsPid
PROPERTIES OrphanReaped KilledChildlessExits
CHECK_DEADLOCK FALSE
