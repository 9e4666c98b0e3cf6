CONSTANTS
  w = w
  d = d
  z = z
  Calls <- MCCalls
  Kind <- MCKind
  Again <- MCAgain
  Responses <- MCResponses
  MaxCalls = 3
  Budget = 1
  MaxStops = 1
SPECIFICATION Spec
INVARIANTS
  EditAppliedOnce
CHECK_DEADLOCK FALSE
