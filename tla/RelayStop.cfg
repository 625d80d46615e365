CONSTANTS
  PipeCap = 1
  Repeats = TRUE
  MaxMessages = 1
  MaxPassed = 1
  MaxSignals = 0
  MaxMatches = 1
SPECIFICATION FairSpec
PROPERTY StopsAtAnyTime
CHECK_DEADLOCK FALSE
