SPECIFICATION Spec
CONSTANTS
  c1 = c1
  c2 = c2
  Conns <- OneConn
  Size = 2
  BufSize = 1
  SockCap = 2
  LowWater = 1
  PtyCap = 1
  MaxFds = 1
  MaxOut = 1
  Byte <- MCByte
  Zero = 0
  Traffic <- Everything
  QueueCap = 2
INVARIANT SessionEnd
