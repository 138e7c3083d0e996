SPECIFICATION RunSpec
CONSTANTS
  Pages <- AllPages
  Unsafe <- PayUnsafe
  StepIds <- ThreeSteps
  Workflows <- LoopOnly
  MaxSteps = 4
  MaxVersion = 1
CHECK_DEADLOCK FALSE
PROPERTIES
  RepetitionReplans
