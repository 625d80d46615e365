CONSTANTS
  Generators = {}
  PipeCap = 1
  KeyCap = 1
  MaxResets = 0
  MaxPauses = 1
  Keys <- PlayPauseAndQuit
  Interruptible <- NobodyInterrupted
  Late = {}
  PromptSignals = TRUE
  PacedKeys = TRUE
SPECIFICATION FairSpec
PROPERTY QuitEndsTheGame
CHECK_DEADLOCK FALSE
