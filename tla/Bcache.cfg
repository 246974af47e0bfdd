CONSTANTS
  p1 = p1
  p2 = p2
  b1 = b1
  b2 = b2
  b3 = b3
  NoProc = NoProc
  NoBlock = NoBlock
  Proc = {p1, p2}
  Buf = {1, 2}
  Block = {b1, b2, b3}
  Value = {0, 1}
  LogMax = 1
SPECIFICATION FairSpec
INVARIANTS RefcntCounts
PROPERTIES StoreSpec SleeperWakes
CHECK_DEADLOCK FALSE
