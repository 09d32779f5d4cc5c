\* The budget is raised and lowered between calls; two copies can be resident.
CONSTANTS
  Slots = {s1, s2}
  Contents = {c1}
  Sizes = {1, 2}
  Devices = {"CPU"}
  Escapes = FALSE
  MaxId = 8
  Budgets = {2, 3}
  VerifyModes = {FALSE}
  HashOf <- Injective
  MaxAnswers = 3
SYMMETRY Symmetry
SPECIFICATION Spec
INVARIANTS
  ResidentExact
PROPERTIES
  AdmissionWithinBudget
