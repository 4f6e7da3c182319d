SPECIFICATION Spec
CONSTANTS
  c1 = c1
  c2 = c2
  c3 = c3
  Cone = {c1, c2, c3}
  Root = Root
  InitialCones = {c1}
  Neighbours <- Triangle
  Worker = {w1, w2}
  JobSize = 2
  MaxRaced = 2
SYMMETRY Symmetry
CONSTRAINT RacedBound
INVARIANTS UsedByOneThread
