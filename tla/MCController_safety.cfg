SPECIFICATION Spec
CONSTANTS
  Steps = {"a", "d", "b"}
  NumSteps = 3
  Dag <- ForkDag
  Deps <- ForkDeps
  Optional = {}
  ExitCodes = {1, 2}
  Self = Self
  MaxRestarts = 1
  FaultKinds = {"reject", "lostReply", "deny", "transport", "saveFail", "readFail", "patchFail", "captureFail", "watchFail", "expire"}
  FaultOnExisting = TRUE
  MaxFaults = 2
  MaxCancels = 0
  QueueModes = {TRUE, FALSE}
  Endless = {}
INVARIANT TypeOK
INVARIANT DependencyOrder
INVARIANT SucceededIsReal
PROPERTY KeepsPromise
CHECK_DEADLOCK FALSE
