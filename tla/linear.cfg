SPECIFICATION FairSpec
CONSTANTS
  Cone = {c1, c2, c3}
  Worker = {w1, w2}
INVARIANTS NoLostMark MarkedOnce
PROPERTIES KeepsContract
