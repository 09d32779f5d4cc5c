\* Raw pointers taken before freeze() are written through, on both devices;
\* verify mode is on.
CONSTANTS
  Slots = {s1, s2}
  Contents = {c1, c2}
  Sizes = {1}
  Devices = {"CPU", "CUDA"}
  Escapes = TRUE
  MaxId = 6
  Budgets = {1}
  VerifyModes = {TRUE}
  HashOf <- Injective
  MaxAnswers = 3
SYMMETRY Symmetry
SPECIFICATION Spec
PROPERTIES
  FreshAnswers
