CONSTANTS
  w = w
  k = k
  d = d
  own = own
  shared = shared
  x = x
  y = y
  Absent = Absent
  Symlink = Symlink
  NoMatch = NoMatch
  Mismatch = Mismatch
  Calls <- MCCalls
  Files <- MCFiles
  Exclusive <- MCExclusive
  Contents <- MCContents
  Tool <- MCTool
  Target <- MCTarget
  Text <- MCText
  Rewrite <- MCRewrite
  MaxExternal = 2
SPECIFICATION ChainSpec
INVARIANTS
  TypeOK
  ResultWasHeld
  JournalTellsFile
PROPERTIES
  RecordsNeverRegress
  Implements
CHECK_DEADLOCK FALSE
