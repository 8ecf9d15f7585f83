SPECIFICATION Spec
CONSTANTS
  Steps = {"a", "d", "b", "r"}
  NumSteps = 4
  Dag <- MixedDag
  Deps <- MixedDeps
  Optional = {"b"}
  ExitCodes = {1, 2}
  Self = Self
  MaxRestarts = 1
  FaultKinds = {"patchFail", "captureFail", "watchFail"}
  FaultOnExisting = FALSE
  MaxFaults = 1
  MaxCancels = 1
  QueueModes = {FALSE}
  Endless = {}
INVARIANT SkippedNeverRan
INVARIANT NothingLeftRunning
INVARIANT VerdictIsReal
INVARIANT CanceledOnlyIfAsked
INVARIANT EndIsReported
PROPERTY NoFreshStartAfterFailure
PROPERTY OutcomesAreDurable
CHECK_DEADLOCK FALSE
