SPECIFICATION Spec
CONSTANTS
  Steps = {"a", "b", "c"}
  NumSteps = 3
  Dag <- Three
  ExitCodes = {1, 2}
  HasBefore = {"b"}
  Workflows <- ThreeStepWorkflows
INVARIANT NothingForgotten
INVARIANT FollowsTheController
CHECK_DEADLOCK FALSE
