SPECIFICATION FairSpec
CONSTANTS
  Cone <- Siblings
  Worker = {w1, w2}
  Boundary = 1
  MaxFaults = 2
INVARIANTS NoEmptyDirectories
PROPERTIES KeepsContract CallsReturn
