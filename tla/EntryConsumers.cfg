\* Providers that keep the lease protocol and lie about everything else.
SPECIFICATION Spec
CONSTANTS
  MaxEntries = 3
  NoLength = NoLength
  Providers <- LyingProviders
INVARIANTS
  TypeOK
  BatchesAreWhole
  SeenInOrder
  
  LeasesAreSettled
  
\* Collected, or never opened: nothing more happens.
CHECK_DEADLOCK FALSE
