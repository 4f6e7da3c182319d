SPECIFICATION FairSpec
CONSTANTS
  c1 = c1
  c2 = c2
  c3 = c3
  c4 = c4
  c5 = c5
  Cone = {c1, c2, c3, c4, c5}
  Root = Root
  InitialCones = {c1}
  Neighbours <- Fan
  Token = {t1, t2, t3, t4}
  JobSize = 2
  MaxJobQueue = 3
  MaxCones <- Unlimited
  UlongRange = 64
INVARIANTS TypeOK TokensCounted NoConeForgotten ExpandedOnce CountsAddUp WithinLimits Complete
PROPERTIES EnumeratesFan Termination
