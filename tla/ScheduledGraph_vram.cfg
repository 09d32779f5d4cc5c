\* The VRAM budget holds only what the decisions count.
CONSTANTS
  a = a
  b = b
  Slots = {1, 2, 3}
  Contents = {a, b}
  Sizes = {2}
  Devices = {"CPU"}
  Escapes = FALSE
  MaxId = 60
  Budgets = {3, 9}
  VerifyModes = {FALSE}
  HashOf <- Injective
  MaxAnswers = 60
  LaunchNs = 1
  NumInputs = 3
  Nodes <- LayerNodes
  Outputs <- LayerOutputs
  Elems <- LayerElems
  Profiles <- Table
  HasCuda = {"linear", "relu"}
  Callings <- LayerCalls
  Initially <- LayerSlots
  VramBudgets = {9}
  Bandwidths = {1}
  CacheModes = {TRUE}
  Resets = FALSE
  Faults = FALSE
  MaxRuns = 1
  MaxEdits = 0
CHECK_DEADLOCK FALSE
SPECIFICATION GraphSpec
INVARIANTS
  VramWithinBudget
