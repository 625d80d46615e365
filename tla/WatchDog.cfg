CONSTANTS
  NumProcs = 3
  Late = {2}
  timeout = 1
  MaxTime = 2
SPECIFICATION FairSpec
INVARIANTS TypeOK NobodyOverlooked
PROPERTIES KillsOnlyForCause DeathEndsAll SilenceIsKilled
CHECK_DEADLOCK FALSE
