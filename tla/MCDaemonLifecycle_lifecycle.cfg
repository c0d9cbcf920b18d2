\* Two daemons, the first of another build, and two commands of any kind.
CONSTANTS
  d1 = d1
  d2 = d2
  Daemons = {d1, d2}
  Clients = {c1, c2}
  NoProc = NoProc
  Older <- FirstIsOlder
SPECIFICATION Spec
SYMMETRY AnyClient
INVARIANTS
  OneEngine
  StopStops
  RecordNamesOwner
\* Every daemon may be dead and every command done.
CHECK_DEADLOCK FALSE
