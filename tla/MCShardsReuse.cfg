SPECIFICATION Spec
CONSTANTS
  w1 = w1
  w2 = w2
  Workers <- MCWorkers
  Rows <- MCRows
  PartRows = 1
  Faulty <- MCWorkers
  MaxFaults = 1

INVARIANT PublishedIsReadable
CHECK_DEADLOCK FALSE
