\* A provider that refuses to take its batch back.
SPECIFICATION Spec
CONSTANTS
  MaxEntries = 3
  NoLength = NoLength
  Providers <- LyingProviders
INVARIANTS
  BatchesAlwaysWhole
\* Collected, or never opened: nothing more happens.
CHECK_DEADLOCK FALSE
