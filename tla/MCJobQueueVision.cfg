SPECIFICATION FairSpec
CONSTANTS
  j1 = j1
  j2 = j2
  Jobs <- TwoJobs
  Malformed <- BadJob
  Queue = "QUEUE_VISION"
  MaxRetries = 1
  MaxRecoveries = 1
  MaxKills = 2
  MaxFaults = 1
  MaxReplays = 1
INVARIANT TypeOK
INVARIANT SingleCopy
INVARIANT TriesExact
INVARIANT AckIsFinal
PROPERTY LifecycleSpec
PROPERTY LossWindows
PROPERTY Settles
