SPECIFICATION Spec
CONSTANTS
  p1 = p1
  p2 = p2
  d1 = d1
  d2 = d2
  d3 = d3
  None = None
  Procs <- OneProc
  Daemons <- ThreeDaemons
SYMMETRY Symmetry
INVARIANTS TypeOK Named LogKept StoppedIsDead
PROPERTY KeepsPromise
