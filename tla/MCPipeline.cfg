SPECIFICATION Spec
CONSTANTS
  Films <- AllFilms
  Births <- LedgerRows
  Selected <- Defaults
  Cards <- BothCards
  MaxDeaths = 1
  MaxEvictions = 1
  MaxFailures = 1
INVARIANT PipelineInv
INVARIANT NothingLost
INVARIANT FitsTheCard
CHECK_DEADLOCK FALSE
