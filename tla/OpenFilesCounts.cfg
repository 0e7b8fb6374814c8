\* Two processes that fork, chmod, execute and close a file that all may write.
SPECIFICATION Spec
CONSTANTS
  Procs = {p, q}
  First = {p, q}
  Files = {f}
  Granted <- OneReader
  WritableByAll = {f}
  MaxFds = 2
  MaxLost = 2
  Calls = {"fork", "chmod", "execv"}
INVARIANTS
  TypeOK
  CountsFileObjects
  WaitersBehindLock
\* Every process may exit, and all may wait for ever.
CHECK_DEADLOCK FALSE
