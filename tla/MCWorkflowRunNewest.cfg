SPECIFICATION RunSpec
CONSTANTS
  Pages <- AllPages
  Unsafe <- PayUnsafe
  StepIds <- ThreeSteps
  Workflows <- LoopOnly
  MaxSteps = 4
  MaxVersion = 2
CHECK_DEADLOCK FALSE
PROPERTIES
  ActsOnNewest
