\* The cache budget is the bytes of the weights, VRAM is ample, and a weight is
\* frozen anew.
CONSTANTS
  a = a
  b = b
  Slots = {1, 2, 3}
  Contents = {a, b}
  Sizes = {2}
  Devices = {"CPU"}
  Escapes = FALSE
  MaxId = 60
  Budgets = {4}
  VerifyModes = {FALSE}
  HashOf <- Injective
  MaxAnswers = 60
  LaunchNs = 1
  NumInputs = 3
  Nodes <- SharedNodes
  Outputs <- SharedOutputs
  Elems <- SharedElems
  Profiles <- Table
  HasCuda = {"linear", "relu"}
  Callings <- SharedCalls
  Initially <- SharedSlots
  VramBudgets = {30}
  Bandwidths = {1}
  CacheModes = {TRUE}
  Resets = FALSE
  Faults = FALSE
  MaxRuns = 3
  MaxEdits = 2
CHECK_DEADLOCK FALSE
SPECIFICATION GraphSpec
INVARIANTS
  PlacementStable
