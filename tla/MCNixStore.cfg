\* Pods that have ended do nothing more.
CHECK_DEADLOCK FALSE
SPECIFICATION Spec
CONSTANTS
  Consumers = {"a", "b"}
  Builders = {"builder"}
  Paths <- MCPaths
  Refs <- MCRefs
  Top <- MCTop
  Cached = {"lib", "app"}
  Warm = {"lib"}
  Budget = 1
  Attempts = 2
  BatchSize = 2
  MaxFaults = 1
INVARIANT ToolchainIsWhole
INVARIANT WorkIsKept
PROPERTY PulledIsKept
PROPERTY BootstrapEnds
