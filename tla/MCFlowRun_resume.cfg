\* Runs that resume from whatever another left, pinned and purged meanwhile.
CONSTANTS
  NSetup = 0
  NMain = 2
  NTeardown = 0
  MaxRuns = 2
  Refs <- NoRefs
  Faults = {"cancel", "crash", "pin", "purge"}
SPECIFICATION Spec
INVARIANTS
  ResumePointIsCovered
PROPERTIES
  FinishedPinSurvives
  RecordsAreKept
\* A finished run is the end of this instance.
CHECK_DEADLOCK FALSE
