CONSTANTS
  a = a
  b = b
  c = c
  x = x
  y = y
  Source = Source
  None = None
  Ops <- MCOps
  Paths <- MCPaths
  Scopes <- MCScopes
SPECIFICATION Spec
SYMMETRY MCSymmetry
INVARIANTS
  TypeOK
  BoundScope
  BoundTreeJournaled
CHECK_DEADLOCK FALSE
