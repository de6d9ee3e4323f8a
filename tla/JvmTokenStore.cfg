\* Both arenas, and the callers each withstands.
CONSTANTS
  Threads = {t1, t2, t3}
  Slots = {s1, s2}
  MaxGeneration = 2
  MaxBatch = 2
  Modes <- Withstood
  NoValue = none
  NoSlot = noslot
SPECIFICATION Spec
SYMMETRY Symmetry
\* Every slot may be used up; the code would grow the store.
CHECK_DEADLOCK FALSE
INVARIANTS
  TypeOK
  OwnedAreLive
  SlotsAccounted
  GetsOwnValue
  StaleRejected
PROPERTIES
  HandlesAreFresh
