CONSTANTS
  p1 = p1
  p2 = p2
  b1 = b1
  b2 = b2
  Proc = {p1, p2}
  InitProc = p1
  Block = {b1, b2}
  Value = {0, 1}
  MAXOPBLOCKS = 2
  OPBLOCKS = 2
  LOGSIZE = 4
  NLOG = 3
SPECIFICATION FairSpec
INVARIANTS LogSpace PinsMatchLog QuiescentDurable
PROPERTIES TxSpec SleeperWakes
