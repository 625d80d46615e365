CONSTANTS
  PipeCap = 2
  SourceCap = 1
  Forces = {0, 1}
  MaxChanges = 1
  MaxObstacles = 1
SPECIFICATION FairSpec
PROPERTY NewForcesWritten
