CONSTANTS
  w = w
  d = d
  z = z
  Calls <- MCCalls
  Kind <- MCKind
  Again <- MCAgain
  Responses <- MCResponses
  MaxCalls = 3
  Budget = 2
  MaxStops = 2
SPECIFICATION Spec
INVARIANTS
  TypeOK
  BatchInOrder
  BatchResumable
  BatchResultAccepted
PROPERTIES
  BatchResumesPastResults
  RecorderIsLast
CHECK_DEADLOCK FALSE
