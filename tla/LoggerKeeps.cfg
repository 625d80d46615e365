CONSTANTS
  Loggers = {l1}
  MAX_LINES = 5
  MaxMessages = 6
  MayCrash = FALSE
SPECIFICATION Spec
INVARIANT LastLinesRetained
SYMMETRY LoggerSymmetry
CHECK_DEADLOCK FALSE
