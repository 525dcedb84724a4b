SPECIFICATION FairSpec
CONSTANTS
  Headers <- SeenHeaders
  Batches <- SeenBatches
  MaxJudged = 2
INVARIANTS LevelRight EnabledWasJudged AbortsOnlyLive
PROPERTIES LevelOnlyRises LifeSpec ProbeEnds
CHECK_DEADLOCK FALSE
