\* One value is marked as output twice.
CONSTANTS
  a = a
  b = b
  Slots = {1, 2, 3}
  Contents = {a, b}
  Sizes = {2}
  Devices = {"CPU"}
  Escapes = FALSE
  MaxId = 60
  Budgets = {3, 9}
  VerifyModes = {FALSE}
  HashOf <- Injective
  MaxAnswers = 60
  LaunchNs = 1
  NumInputs = 3
  Nodes <- SharedNodes
  Outputs <- TwiceOutputs
  Elems <- SharedElems
  Profiles <- Table
  HasCuda = {"linear", "relu"}
  Callings <- SharedCalls
  Initially <- SharedSlots
  VramBudgets = {5, 30}
  Bandwidths = {1}
  CacheModes = {TRUE, FALSE}
  Resets = FALSE
  Faults = FALSE
  MaxRuns = 1
  MaxEdits = 0
CHECK_DEADLOCK FALSE
SPECIFICATION GraphSpec
INVARIANTS
  OneResultPerOutput
