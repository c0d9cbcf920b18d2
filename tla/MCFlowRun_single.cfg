\* One run, and everything that can go wrong while it executes.
CONSTANTS
  NSetup = 1
  NMain = 2
  NTeardown = 1
  MaxRuns = 1
  Refs <- ChainRefs
  Faults = {"cancel", "gone", "timeout", "crash", "store"}
SPECIFICATION FairSpec
INVARIANTS
  TeardownAlwaysRuns
  SettledMeansRecorded
  CancelInTimeMarksCancelled
PROPERTIES
  EveryRunReturns
\* A finished run is the end of this instance.
CHECK_DEADLOCK FALSE
