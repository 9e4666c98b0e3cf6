CONSTANTS
  p = p
  q = q
  a = a
  s = s
  NoProcess = NoProcess
  NoEntry = NoEntry
  Processes <- MCProcesses
  Worker = {a}
  Semantic = {s}
  MaxCrashes = 2
SPECIFICATION FairSpec
INVARIANTS
  TypeOK
  SingleDispatch
  RecordFollowsJournal
  IndexNeverAhead
PROPERTIES
  CompletionSticks
  ResultReachesRecord
