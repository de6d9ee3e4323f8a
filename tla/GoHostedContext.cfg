\* Three threads, three references.  Liveness: no symmetry.
CONSTANTS
  Threads = {t1, t2, t3}
  Refs = {r1, r2, r3}
  First = r1
  MaxDepth = 2
SPECIFICATION Spec
\* Once the context is freed there is nothing left to call.
CHECK_DEADLOCK FALSE
INVARIANTS
  TypeOK
  RefsCountHolders
  AliveWhileUsed
  SerialProvider
PROPERTIES
  GateAnswers
  LastReleaseFrees
