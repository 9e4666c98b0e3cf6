CONSTANTS
  p = p
  q = q
  a = a
  s = s
  NoProcess = NoProcess
  NoEntry = NoEntry
  Processes <- MCProcesses
  Worker = {}
  Semantic = {s}
  MaxCrashes = 0
SPECIFICATION Spec
INVARIANTS
  CompletedStaysCached
