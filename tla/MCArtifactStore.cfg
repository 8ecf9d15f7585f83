SPECIFICATION Spec
CONSTANTS
  brief = brief
  long = long
  Jobs = {brief, long}
  HasSecret = {brief}
  External = TRUE
  Ttl <- MCTtl
  SecretMaxAge = 1
  TicksPerDay = 2
  MaxClock = 2
  MaxFaults = 2
INVARIANT NothingOrphaned
INVARIANT RunningHasWhatItNeeds
PROPERTY DeletedOnlyWhenExpired
CHECK_DEADLOCK FALSE
