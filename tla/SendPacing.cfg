CONSTANTS
  t1 = t1
  t2 = t2
  t3 = t3
  k1 = k1
  k2 = k2
  o1 = o1
  o2 = o2
  o3 = o3
  o4 = o4
  p = p
  q = q
  r = r
  None = None
  Nobody = Nobody
  NoFile = NoFile
  Threads <- MCThreads
  Keys <- MCKeys
  Objects <- MCObjects
  MaxRounds <- MCMaxRounds
  Processes <- MCProcesses
  Interval = 3
  Settle = 2
  MaxEntries = 1
  Future = 4
  Past = 6
  MaxBack = 3
  MaxSetBacks = 2
  MaxStops = 2
SPECIFICATION FairSpec
INVARIANTS
  TypeOK
  RegistryTypeOK
  RegistryBounded
  SharedState
PROPERTIES
  Implements
  RegistryImplements
  AttemptsEnd
  SendingGoesOn
