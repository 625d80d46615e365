CONSTANTS
  Generators = {"targets", "obstacles"}
  PipeCap = 1
  KeyCap = 1
  MaxResets = 0
  MaxPauses = 2
  Keys <- PlayPauseAndQuit
  Interruptible <- OnlyTargets
  Late = {}
  PromptSignals = TRUE
  PacedKeys = FALSE
SPECIFICATION FairSpecOfPlay
INVARIANTS KilledOnlyByRestartOrStop PauseAgreement
PROPERTIES RunsUnlessPaused QuitWhenRunning
CHECK_DEADLOCK FALSE
