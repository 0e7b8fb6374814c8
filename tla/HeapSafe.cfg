CONSTANTS
  len = 24
  Requests = {0, 8, 16}
  Stamps = {1}
  Panic = Panic
SPECIFICATION Spec
INVARIANTS TypeOK BlocksTile ListExact
PROPERTY IsAllocator
CHECK_DEADLOCK FALSE
