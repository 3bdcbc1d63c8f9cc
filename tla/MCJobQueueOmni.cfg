SPECIFICATION FairSpec
CONSTANTS
  j1 = j1
  j2 = j2
  Jobs <- TwoJobs
  Malformed <- NoJobs
  Queue = "QUEUE_OMNI"
  MaxRetries = 1
  MaxRecoveries = 1
  MaxKills = 1
  MaxFaults = 1
  MaxReplays = 0
INVARIANT PoisonQuarantined
PROPERTY Settles
