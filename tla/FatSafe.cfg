\* One process that writes in the last block of its files; restarts at first.
SPECIFICATION FairSpec
CONSTANTS
  Procs = {p}
  Names = {a, b, c}
  None = None
  nBlocks = 9
  fatBlocks = 1
  BlockSize = 3
  MetaSize = 1
  EntrySize = 2
  Image <- OneFile
  MaxLength = 7
  Seeks = "last block"
  Restarts = "before allocation"
INVARIANTS
  TypeOK
  BlocksAccountedFor
  ReadsStayInChain
  OwnData
PROPERTIES
  CallsReturn
\* A full disk stops the machine.
CHECK_DEADLOCK FALSE
