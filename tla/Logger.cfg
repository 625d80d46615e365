CONSTANTS
  Loggers = {l1, l2, l3}
  MAX_LINES = 3
  MaxMessages = 7
  MayCrash = TRUE
SPECIFICATION Spec
INVARIANTS TypeOK LatestKept 
SYMMETRY LoggerSymmetry
CHECK_DEADLOCK FALSE
