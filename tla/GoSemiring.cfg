\* Two goroutines, three tokens, operations of up to two operands.
CONSTANTS
  Threads = {g1, g2}
  MaxTokens = 3
  MaxOperands = 2
SPECIFICATION Spec
\* When everything is closed no operation is left to start.
CHECK_DEADLOCK FALSE
INVARIANTS
  TypeOK
  TokensAreOwned
  CountsAreExact
  NativeCallsAreValid
PROPERTIES
  AllClosedDestroys
