\* Four activations and a word whose count saturates at two borrows.
CONSTANTS
  Calls = {c1, c2, c3, c4}
  ClosedBit = 3
SPECIFICATION Spec
INVARIANTS
  TypeOK
  WordCountsLoans
  NoUseAfterRelease
  ReleasedOnce
PROPERTIES
  ClosedIsFinal
  ImplementsLease
