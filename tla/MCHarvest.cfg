SPECIFICATION Spec
CONSTANTS
  Components = {"harvest", "cv"}
  Scope <- MCScope
  Videos = {1, 2}
  Old = {1}
  Categories = {"a", "b"}
  Category <- MCCategory
  AdminChoices <- MCChoices
  ShortTries = 1
  MaxTries = 1
  Events <- MCEvents
  MaxEvents = 2
INVARIANT HarvestInv
INVARIANT HarvestedIsUnderway
 
PROPERTY ResetEndsRunning
CHECK_DEADLOCK FALSE
