SPECIFICATION MediaSpec
CONSTANTS
  N = 2
  Viewers = {"v1"}
  Indexes <- MCIndexes
  Mishaps <- MCEvents
  MaxMishaps = 1
INVARIANT MediaInv
PROPERTY ServedIsWhole
CHECK_DEADLOCK FALSE
