\* Six processes: login, a shell, su or a second login, its shell, and two commands. A
\* table of three slots is full after a few commands. The system stops when login dies or
\* the process numbers are used up.
SPECIFICATION Spec
CONSTANTS
  MaxProcs = 6
  MaxSlots = 3
  Users = {"root", "cheng", "nobody"}
  Ids <- Accounts
  Disk <- Image
  NewNames = {"new"}
  Modes <- ModeTable
  Commands <- CommandLines
  Absent = Absent
INVARIANTS
  TypeOK
  OwnCredentials
  OneReader

  
CHECK_DEADLOCK FALSE
