\* Every graph of up to two inputs, three nodes and two outputs, its inputs
\* added before, between and after the nodes, sorted and then validated,
\* executed or optimized.
CONSTANTS
  s = s
  t = t
  Shapes = {s, t}
  NoShape = NoShape
  Ops = {"add", "pool"}
  MaxArity = 2
  Infer <- Inference
  MaxInputs = 2
  MaxNodes = 3
  MaxOutputs = 2
CHECK_DEADLOCK FALSE
SPECIFICATION Spec
INVARIANTS
  GraphTypeOK
  SortInv
  OrderTopological
  NeverThrown
  ResultsDenoted
  LiveIsReaching
  RebuiltEquivalent
  RebuiltHasNoDeadNode
