\* Freezing, moving, destroying and rewriting two tensors of different sizes,
\* nothing escaping the freeze checks; the budget holds one large or two small.
CONSTANTS
  Slots = {s1, s2}
  Contents = {c1, c2}
  Sizes = {1, 2}
  Devices = {"CPU"}
  Escapes = FALSE
  MaxId = 7
  Budgets = {2}
  VerifyModes = {FALSE}
  HashOf <- Injective
  MaxAnswers = 3
SYMMETRY Symmetry
SPECIFICATION Spec
INVARIANTS
  TypeOK
  Coherent
  CacheInv
PROPERTIES
  FreshAnswers
