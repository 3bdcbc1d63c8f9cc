SPECIFICATION FairEngineSpec
CONSTANTS
  v1 = v1 v2 = v2 s = s w = w x = x
  Videos = {v1, v2}
  Mine = {v1}
  Components = {w, x}
  Lanes = {0}
  Primary = 0
  LaneOf <- OneLane
  Needs <- Chain
  Writes <- EvidenceWriters
  Cohorts <- TwoCohorts
  Shards <- HeldShards
  Inapplicable <- NotForV1
  Declining = {w}
  Follow = TRUE
  Bounds <- OperatorDies
  MaxAttempts = 1
  MaxRevivals = 1
INVARIANT DoneHasEvidence
INVARIANT FailuresBounded
INVARIANT FailedIsSpent
PROPERTY RedoneOnlyIfLapsed
PROPERTY SweepCompletes
CHECK_DEADLOCK FALSE
