SPECIFICATION Spec
CONSTANTS
  Headers <- AllHeaders
  Batches <- ListBatches
  MaxJudged = 1
INVARIANT ListedIsTransparent
CHECK_DEADLOCK FALSE
