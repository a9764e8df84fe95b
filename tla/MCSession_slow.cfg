SPECIFICATION Spec
CONSTANTS
  c1 = c1
  c2 = c2
  Conns <- TwoConns
  Size = 3
  BufSize = 2
  SockCap = 2
  LowWater = 2
  PtyCap = 0
  MaxFds = 2
  MaxOut = 5
  Byte <- MCByte
  Zero = 0
  Traffic <- AnyAttach
  QueueCap = 1
SYMMETRY Symmetry
INVARIANTS NeverMixed OnlyDeadCondemned
