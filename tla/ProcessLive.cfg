\* Two process objects besides idle: progress, and the mutex as a FIFO lock.
SPECIFICATION FairSpec
CONSTANTS
  Idle = idle
  Primordial = init
  Procs = {idle, init, a}
  None = None
  Mutexes = {m}
  SharedMutex = m
  UserSems = {s}
  InitialCount <- MCInitialCount
  MaxCount = 1
  MaxHandles = 1
  CanKill = FALSE
PROPERTIES
  ReadyRuns
  JoinReturns
  EventuallyDeleted
  MutexIsFifoLock
