\* One process inside Acquire at a time; crashes, failed writes, failed
\* removals anywhere.
CONSTANTS
  p1 = p1
  p2 = p2
  p3 = p3
  Procs = {p1, p2, p3}
  Nobody = Nobody
  Overlap = FALSE
SPECIFICATION LockSpec
INVARIANTS
  MutualExclusion
  TakeoverNeverGivesUp
PROPERTIES
  ClaimUntilMisjudged
\* Every process may have exited.
CHECK_DEADLOCK FALSE
