\* A graph run three times with edits between, enough for a weight to be frozen
\* anew before two runs that repeat each other; in the cache just ample room or
\* room for two copies, stale ones included, on the device just ample room or
\* room for some nodes: a repetition is placed alike and uploads nothing if there
\* is room.
CONSTANTS
  a = a
  b = b
  Slots = {1, 2, 3}
  Contents = {a, b}
  Sizes = {2}
  Devices = {"CPU"}
  Escapes = FALSE
  MaxId = 60
  Budgets = {4, 12}
  VerifyModes = {FALSE}
  HashOf <- Injective
  MaxAnswers = 60
  LaunchNs = 1
  NumInputs = 3
  Nodes <- SharedNodes
  Outputs <- SharedOutputs
  Elems <- SharedElems
  Profiles <- Table
  HasCuda = {"linear", "relu"}
  Callings <- SharedCalls
  Initially <- SharedSlots
  VramBudgets = {5, 18}
  Bandwidths = {1, 2}
  CacheModes = {TRUE, FALSE}
  Resets = FALSE
  Faults = FALSE
  MaxRuns = 3
  MaxEdits = 2
CHECK_DEADLOCK FALSE
SPECIFICATION GraphSpec
INVARIANTS
  GraphTypeOK
  PlacementStableIfRoom
PROPERTIES
  RepeatUploadsNothing
