\* Three threads, three contexts for two slots, made at once or one after the other.
CONSTANTS
  Threads = {t1, t2, t3}
  Contexts = {c1, c2, c3}
  MaxSlots = 2
  MaxGeneration = 2
  MaxRetains = 3
  MaxClients = 2
  NoContext = null
SPECIFICATION Spec
SYMMETRY Symmetry
\* Contexts are used once; when all are released nothing is left to do.
CHECK_DEADLOCK FALSE
INVARIANTS
  TypeOK
  RetainsCountHolders
  AliveWhileHeld
  HandleNamesOne
  SlotsAccounted
  FreedByOne
