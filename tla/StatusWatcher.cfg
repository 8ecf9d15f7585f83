SPECIFICATION FairSpec
CONSTANTS
  MaxAttempts = 2
  MaxFailures = 2
  MaxExpiries = 1
  MaxSaves = 1
  Deletable = {"job"}
  Gone = Gone
INVARIANT WaiterIsWoken
INVARIANT BadNewsIsTrue
INVARIANT PollIsTrue
PROPERTY CacheNeverGoesBack
PROPERTY WaitEnds
CHECK_DEADLOCK FALSE
