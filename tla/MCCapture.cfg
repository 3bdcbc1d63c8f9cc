SPECIFICATION CaptureFair
CONSTANTS
  Reels = {r1}
  MaxAttempts = 2
  MaxRevivals = 1
  MaxMessages = 8
  MaxTroubles = 2
  SnapshotEvery = 1
  HostileStop = 1
  SessionTries = 1
INVARIANT CaptureInv
PROPERTY NeverTwice
PROPERTY CaptureCompletes
