SPECIFICATION HandoffFairSpec
CONSTANTS
  Pages <- AllPages
  Unsafe <- PayUnsafe
  StepIds <- ThreeSteps
  Workflows <- AllWorkflows
  MaxSteps = 4
  MaxVersion = 3
  Decisions <- ManyDecisions
  NoDecision = NoDecision
  MaxCalls = 3
  MaxBudget = 3
CHECK_DEADLOCK FALSE
INVARIANTS
  HandoffTypeOK
  EffortAccounted
  SuccessIsEarned
  CallsArePaid
PROPERTIES
  PerformsOnlyAllowed
  CompletedWasVerified
  AgentActsOnlyAccepted
  ActsBehindNoEffect
  RouterAnswers
