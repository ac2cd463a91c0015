CONSTANTS
  Owners = {"k1", "k2"}
  Dependents = {"m1", "m2"}
  States = {"Processing", "Ready"}
  Missing = Missing
  DependentRefs <- MCDependentRefs
  IsController = TRUE
  UseGenerationPredicate = FALSE
  MaxGeneration = 2
  MaxEvents = 2

SPECIFICATION Spec
INVARIANT TypeOK
INVARIANT NoLostStateChange
CHECK_DEADLOCK FALSE
