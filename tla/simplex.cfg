SPECIFICATION Spec
CONSTANTS
  MaxN = 7
  MaxInc = 60
INVARIANTS StepsReported AtItsRank NamesRoundTrip PathsRoundTrip
