CONSTANTS
  PipeCap = 1
  Repeats = TRUE
  MaxMessages = 2
  MaxPassed = 2
  MaxSignals = 1
  MaxMatches = 2
SPECIFICATION FairSpec
INVARIANTS TypeOK MatchNotMissed
PROPERTIES ImplementsFeed PublishedWhenMatched FirstComesThrough
CHECK_DEADLOCK FALSE
