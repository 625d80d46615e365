CONSTANTS
  PipeCap = 2
  SourceCap = 1
  Forces = {0, 1}
  MaxChanges = 2
  MaxObstacles = 1
SPECIFICATION FairSpec
INVARIANTS TypeOK ForceInStep ObstaclesInStep
PROPERTIES TargetsStay TargetsShown ForcesArrive ObstaclesArrive
