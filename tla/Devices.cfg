\* Two processes at the disk, or two at the console, where nobody types for ever.
SPECIFICATION DevicesSpec
CONSTANTS
  Procs = {p, q}
  Nobody = Nobody
  Requests <- MCRequests
  nSectors = 2
  blockSize = 2
  Letters = {"a"}
  Grow = 2
  MaxTyped = 5
INVARIANTS DevicesTypeOK EachCharacterOnce ArgsAreWords
PROPERTIES  CallsReturn
CHECK_DEADLOCK FALSE
