SPECIFICATION Spec
CONSTANTS
  AFace <- Columns
  Cone <- Cones
  Problem <- Problems
  NoCone = NoCone
  computeOrbitConeForAFace <- Rays
  preimageCone <- Preimage
  intersectWithMovingCone <- Cut
  Less <- Precedes
INVARIANTS FilesThere CacheRecent OrbitsOnce ActionOnCones
