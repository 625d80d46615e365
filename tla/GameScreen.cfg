SPECIFICATION FairSpec
CONSTANTS
  Unit = 2
  MAX_X = 6
  MAX_Y = 6
  Weight <- MCWeight
  Size = 2
  Counts = {1, 2}
  TargetLists <- Lists
  ObstacleLists <- Rocks
  Anywhere <- MCAnywhere
  Start <- MCStart
  PipeCap = 1
  MaxResets = 1
INVARIANTS TypeOK ScoreTrue TargetsVisible NoGhosts ObstaclesTrue OneDrone
PROPERTIES TargetsReachScreen
CHECK_DEADLOCK FALSE
