\* Two processes start together on a workspace nobody ever locked.
CONSTANTS
  p1 = p1
  p2 = p2
  Procs = {p1, p2}
  Nobody = Nobody
  Overlap = TRUE
SPECIFICATION LockSpec
INVARIANTS
  MutualExclusion
CHECK_DEADLOCK FALSE
