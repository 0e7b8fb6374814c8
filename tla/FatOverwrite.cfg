\* One process that also writes in the middle of its files.
SPECIFICATION Spec
CONSTANTS
  Procs = {p}
  Names = {a}
  None = None
  nBlocks = 8
  fatBlocks = 1
  BlockSize = 3
  MetaSize = 1
  EntrySize = 2
  Image <- OneFile
  MaxLength = 7
  Seeks = "anywhere"
  Restarts = "never"
INVARIANTS
  BlocksAccountedFor
\* A full disk stops the machine.
CHECK_DEADLOCK FALSE
