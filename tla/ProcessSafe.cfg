\* Three process objects besides idle; faults may kill, and a panic stops the machine.
SPECIFICATION Spec
CONSTANTS
  Idle = idle
  Primordial = init
  Procs = {idle, init, a, b}
  None = None
  Mutexes = {m}
  SharedMutex = m
  UserSems = {s}
  InitialCount <- MCInitialCount
  MaxCount = 1
  MaxHandles = 1
  CanKill = TRUE
INVARIANTS
  TypeOK
  InterruptDiscipline
  QueuesExclusive
  ReferencesExact
  MutexConserved
  JoinAfterExit
  OnlyTheKilledBlock
CHECK_DEADLOCK FALSE
