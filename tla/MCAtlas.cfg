SPECIFICATION Spec
CONSTANTS
  MaxMessages = 2
  Events <- MCEvents
  MaxEvents = 1
INVARIANT AtlasInv
PROPERTY BootLoadsCurrent
PROPERTY PublishedIsServed
CHECK_DEADLOCK FALSE
