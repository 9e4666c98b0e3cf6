CONSTANTS
  t1 = t1
  t2 = t2
  t3 = t3
  t4 = t4
  t5 = t5
  p = p
  q = q
  op = op
  op2 = op2
  NoThread = NoThread
  Threads <- MCRacing
  Processes <- MCProcesses
  Locks <- MCLocks
  ProcessOf <- MCProcessOf
  LockOf <- MCLockOf
  MayDie <- MCMayDie
  MaxNested <- MCMaxNested
  MaxRounds <- MCMaxRounds
  MaxFences <- MCMaxFences
SPECIFICATION FairSpec
PROPERTIES
  EveryThreadServed
CHECK_DEADLOCK FALSE
