SPECIFICATION WorkflowSpec
CONSTANTS
  AFace <- Columns
  Cone <- Cones
  Problem <- WorkflowProblems
  NoCone = NoCone
  Missing = Missing
  CutOff = CutOff
  MaxTruncated = 1
  computeOrbitConeForAFace <- Rays
  preimageCone <- Preimage
  intersectWithMovingCone <- Cut
  Less <- Precedes
  Worker = {w1, w2}
  GitCone = {1, 2}
  InitialCones = {1}
  Neighbours <- Pair
INVARIANTS SymbolsCurrent LoadFileUsable ResultsAgree
PROPERTIES WorkflowEnds
