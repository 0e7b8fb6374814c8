\* A fault may kill the running process: the assertion in yield() fails.
SPECIFICATION Spec
CONSTANTS
  Idle = idle
  Primordial = init
  Procs = {idle, init, a}
  None = None
  Mutexes = {m}
  SharedMutex = m
  UserSems = {s}
  InitialCount <- MCInitialCount
  MaxCount = 1
  MaxHandles = 1
  CanKill = TRUE
INVARIANT NeverBlocksInInterrupt
