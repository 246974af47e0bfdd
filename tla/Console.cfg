SPECIFICATION Spec
CONSTANTS
  Proc = {p1, p2}
  NoProc = NoProc
  Intr = Intr
  NoKey = NoKey
  Char = {x}
  CR = CR
  NL = NL
  EOF = EOF
  ERASE = ERASE
  KILL = KILL
  INPUT_BUF_SIZE = 3
  UINT = 6
  UART_TX_BUF_SIZE = 2
  UINT64 = 6
  MAXN = 2
  MAXEVENTS = 4
  START = 5
INVARIANTS NoLostWakeup
PROPERTY TerminalSpec
SYMMETRY Symmetry
CHECK_DEADLOCK FALSE
