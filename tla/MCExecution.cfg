SPECIFICATION Spec
CONSTANTS
  None = None
  StepId = {1, 2, 3}
  Projected <- Costs
  RunId = {1, 2, 3}
  OtherRun = 3
  Actual = {1, 2}
  Plans <- PlanSet
  LoopOptions <- LoopOpts
  DirectOptions <- DirectOpts
CHECK_DEADLOCK FALSE
INVARIANTS TypeOK SpendWithinCeiling CallsFollowDependencies 
PROPERTY UnprovenRunIsNotRepeated
