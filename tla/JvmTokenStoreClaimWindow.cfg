\* TokenStore: a token released twice while its slot is taken again.
CONSTANTS
  Threads = {t1, t2}
  Slots = {s1}
  MaxGeneration = 2
  MaxBatch = 1
  Modes <- BoxedAnything
  NoValue = none
  NoSlot = noslot
SPECIFICATION Spec
SYMMETRY Symmetry
\* Every slot may be used up; the code would grow the store.
CHECK_DEADLOCK FALSE
INVARIANTS
  OwnedSurvive
