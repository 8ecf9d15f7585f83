SPECIFICATION FairSpec
CONSTANTS
  Steps = {"a", "d", "r"}
  NumSteps = 3
  Dag <- ReactDag
  Deps <- ReactDeps
  Optional = {}
  ExitCodes = {1, 2}
  Self = Self
  MaxRestarts = 1
  FaultKinds = {"reject", "patchFail", "captureFail", "expire"}
  FaultOnExisting = FALSE
  MaxFaults = 1
  MaxCancels = 0
  QueueModes = {FALSE}
  Endless = {"d"}
PROPERTY Terminates
PROPERTY FailureStopsTheRest
CHECK_DEADLOCK FALSE
