SPECIFICATION Spec
CONSTANTS
  Size = 4
  BufSize = 5
  MaxOut <- MCMaxOut
  Byte <- MCByte
  Zero = 0
INVARIANTS TypeOK RingIsWindow PendingIntact WithinSnapshot
PROPERTY ReplayInOrder
CHECK_DEADLOCK FALSE
