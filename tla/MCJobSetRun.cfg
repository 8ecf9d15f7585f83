SPECIFICATION Spec
CONSTANTS
  Pods = {"server", "worker"}
  Codes = {0, 1, 42, 137}
  Configurations <- Steps
  MaxAttempts = 3
INVARIANT SuccessIsReal
PROPERTY FatalIsNotRetried
