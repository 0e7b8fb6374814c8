CONSTANTS
  Procs = {p1, p2, p3}
  First = {p1}
  limit = 8
  Pages <- MCPages
  Dir <- MCDir
  Values = {1}
  p1 = p1
  p2 = p2
  p3 = p3
  Link = 99
  None = None
SPECIFICATION Spec
INVARIANTS TypeOK FramesConserved TlbCoherent
 
CHECK_DEADLOCK FALSE
