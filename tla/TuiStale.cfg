SPECIFICATION Spec
CONSTANTS
  Items <- SmallMenu
  Targets <- ThreeTargets
  PiTarget = "pi"
  HasWorkflow = TRUE
  Gate <- OpenGate
  SealedTarget = "pi"
  CanApply = TRUE
  MaxPrepares = 5
  Prompt = FALSE
PROPERTIES ExecutesWhatIsShown
CHECK_DEADLOCK FALSE
