CONSTANTS
  Generators = {"targets"}
  PipeCap = 1
  KeyCap = 1
  MaxResets = 1
  MaxPauses = 0
  Keys = {"reset"}
  Interruptible <- NobodyInterrupted
  Late = {}
  PromptSignals = TRUE
  PacedKeys = TRUE
SPECIFICATION Spec
INVARIANTS NoStaleMessages AllResetsTaken
CHECK_DEADLOCK FALSE
