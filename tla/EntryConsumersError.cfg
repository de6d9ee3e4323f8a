\* An honest provider, and an Error in the middle of copying a batch.
SPECIFICATION Spec
CONSTANTS
  MaxEntries = 3
  NoLength = NoLength
  Providers <- HonestProviders
INVARIANTS
  LeasesAlwaysSettled
\* Collected, or never opened: nothing more happens.
CHECK_DEADLOCK FALSE
