SPECIFICATION Spec
CONSTANTS
  Cone <- Siblings
  Worker = {w1, w2}
  Boundary = 1000
  MaxFaults = 0
INVARIANT NoLostMark
