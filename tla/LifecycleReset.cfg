CONSTANTS
  Generators = {}
  PipeCap = 1
  KeyCap = 1
  MaxResets = 2
  MaxPauses = 0
  Keys = {"reset"}
  Interruptible <- OnlyKeyboard
  Late = {"window"}
  PromptSignals = FALSE
  PacedKeys = FALSE
SPECIFICATION Spec
INVARIANTS TypeOK Lockstep LoopsAgree NoUnrequestedReset
PROPERTY FollowsProtocol
CHECK_DEADLOCK FALSE
