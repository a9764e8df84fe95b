SPECIFICATION Spec
CONSTANTS
  c1 = c1
  c2 = c2
  Conns <- TwoConns
  Size = 2
  BufSize = 2
  SockCap = 1
  LowWater = 1
  PtyCap = 0
  MaxFds = 2
  MaxOut = 2
  Byte <- MCByte
  Zero = 0
  Traffic <- AttachAndForce
  QueueCap = 1
SYMMETRY Symmetry
PROPERTY ForceDetachesAll
