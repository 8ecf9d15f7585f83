SPECIFICATION Spec
CONSTANTS
  NixInit = TRUE
  ScriptCodes = {0, 42}
  MaxMishaps = 3
INVARIANT LogsAreShipped
PROPERTY KeepsPromise
PROPERTY PodStatusNeverGoesBack
PROPERTY PodEnds
