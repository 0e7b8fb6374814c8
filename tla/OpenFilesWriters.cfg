\* Two processes and a file of mode 0644 or 0664: the writer mutex is never taken.
SPECIFICATION Spec
CONSTANTS
  Procs = {p, q}
  First = {p, q}
  Files = {f}
  Granted <- AllGranted
  WritableByAll = {}
  MaxFds = 1
  MaxLost = 2
  Calls = {}
INVARIANTS
  NoConcurrentWriters
\* Every process may exit, and all may wait for ever.
CHECK_DEADLOCK FALSE
