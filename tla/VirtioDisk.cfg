CONSTANTS
  p1 = p1
  p2 = p2
  p3 = p3
  NoProc = NoProc
  Intr = Intr
  Proc = {p1, p2, p3}
  v1 = v1
  v2 = v2
  Value = {v1, v2}
  NUM = 7
  IDXMOD = 4
  RING = 2
SPECIFICATION Spec
SYMMETRY Symmetry
INVARIANTS ChainsPartition NoLostInterrupt
PROPERTY SyncSpec
