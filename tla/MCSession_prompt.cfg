SPECIFICATION Spec
CONSTANTS
  c1 = c1
  c2 = c2
  Conns <- TwoConns
  Size = 2
  BufSize = 2
  SockCap = 4
  LowWater = 2
  PtyCap = 0
  MaxFds = 2
  MaxOut = 3
  Byte <- MCByte
  Zero = 0
  Traffic <- AttachAndForce
  QueueCap = 1
SYMMETRY Symmetry
INVARIANTS TypeOK FdTable ServedOnce CaughtUp
