\* Two models' weights alternate, memory runs out, the caller rewrites,
\* refreezes, moves and destroys tensors between runs; the cache is too small
\* for the weights beside another copy.  Every call of execute() ends.
CONSTANTS
  a = a
  b = b
  Slots = {1, 2, 3}
  Contents = {a, b}
  Sizes = {2}
  Devices = {"CPU"}
  Escapes = FALSE
  MaxId = 60
  Budgets = {5}
  VerifyModes = {FALSE}
  HashOf <- Injective
  MaxAnswers = 60
  LaunchNs = 1
  NumInputs = 3
  Nodes <- LayerNodes
  Outputs <- LayerOutputs
  Elems <- LayerElems
  Profiles <- Table
  HasCuda = {"linear", "relu"}
  Callings <- LayerCalls
  Initially <- LayerSlots
  VramBudgets = {9}
  Bandwidths = {1}
  CacheModes = {TRUE, FALSE}
  Resets = TRUE
  Faults = TRUE
  MaxRuns = 2
  MaxEdits = 3
CHECK_DEADLOCK FALSE
SPECIFICATION GraphSpec
INVARIANTS
  ResultsCorrect
  InputsInPlace
  CudaAccounted
  OnlyLiveWeights
  PromisesKept
PROPERTIES
  RunsEnd
