\* Submits that are done, raised or waiting for a failed build do nothing more.
CHECK_DEADLOCK FALSE
SPECIFICATION Spec
CONSTANTS
  Submits = {"s1", "s2"}
  Machines = {"m1", "m2"}
  Machine <- MCMachine
  Workflows <- MCWorkflows
  Sources <- MCSources
  Targets <- MCTargets
  Closures <- MCClosures
  Outputs <- MCOutputs
  Stores <- MCStores
  MemoStores = {"x"}
  ShortName <- MCShortName
  Stock <- MCStock
  MaxFaults = 1
  Names = {"src", "lib", "main.py", "data"}
  PythonNames = {"main.py"}
  Trees <- MCTrees
  Includes <- MCIncludes
  Excludes <- MCExcludes
  Code <- MCCode
INVARIANT ConsumersAreSupplied
INVARIANT ClosuresAreTheirs
INVARIANT BuildsAreWired
INVARIANT TamePruningLosesNothing
