SPECIFICATION Spec
CONSTANTS
  c1 = c1
  c2 = c2
  c3 = c3
  c4 = c4
  c5 = c5
  Cone = {c1, c2, c3, c4, c5}
  Root = Root
  InitialCones = {c1}
  Neighbours <- Fan
  Token = {t1, t2, t3, t4, t5}
  JobSize = 2
  MaxJobQueue = 0
  MaxCones = 3
  UlongRange = 64
SYMMETRY TokenSymmetry
INVARIANTS ExactLimit
