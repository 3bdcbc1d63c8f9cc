SPECIFICATION Spec
CONSTANTS
  LakeParts = 1
  MaxPosts = 2
  MaxBundles = 2
  MaxMessages = 7
  MaxFaults = 1
  Window = 4
INVARIANT BundlesInv
INVARIANT ExtraCopiesHaveACause
PROPERTY ReplacedByOneBundle
PROPERTY AppliesWhatWasShown
CHECK_DEADLOCK FALSE
