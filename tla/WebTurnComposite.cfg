CONSTANTS
  Composite = TRUE
  MaxTurns = 1
  Broken <- MCDirectRepair
  Budget = 3
SPECIFICATION Spec
INVARIANTS
  GivenIsMeant
CHECK_DEADLOCK FALSE
