SPECIFICATION FairSpec
CONSTANTS
  Steps = {"a", "d", "r"}
  NumSteps = 3
  Dag <- ReactDag
  Deps <- ReactDeps
  Optional = {}
  ExitCodes = {1, 2}
  Self = Self
  MaxRestarts = 0
  FaultKinds = {"watchFail"}
  FaultOnExisting = FALSE
  MaxFaults = 1
  MaxCancels = 0
  QueueModes = {FALSE}
  Endless = {}
PROPERTY Terminates
CHECK_DEADLOCK FALSE
