SPECIFICATION EngineSpec
CONSTANTS
  v1 = v1 v2 = v2 s = s w = w x = x
  Videos = {v1}
  Mine = {v1}
  Components = {s, w, x}
  Lanes = {0, 1}
  Primary = 0
  LaneOf <- TwoLanes
  Needs <- Chain
  Writes <- EvidenceWriters
  Cohorts <- OneCohort
  Shards = {}
  Inapplicable = {}
  Declining = {}
  Follow = TRUE
  Bounds <- LapseOrDefer
  MaxAttempts = 1
  MaxRevivals = 0
INVARIANT HeldIsTodo
INVARIANT GateSkipsForCause
INVARIANT InFlightIsLive
PROPERTY TableUse
PROPERTY SettledIsFinal
CHECK_DEADLOCK FALSE
