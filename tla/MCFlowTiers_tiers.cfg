\* One flow, two requests at a time, the engine, an editor and every fault.
CONSTANTS
  Clients = {c1, c2}
  Ids = {x}
  Places <- MCPlaces
  Root = ""
  Named <- MCPlaces
  Faults = {"crash", "db", "volumes"}
  MaxTexts = 2
  MaxRequests = 2
  MaxEdits = 1
SPECIFICATION Spec
SYMMETRY MCSymmetry
INVARIANTS
  TypeOK
  SettledRowsMatchFiles
  TextsAreKept
PROPERTIES
  FoundFilesStayListed
\* The requests and edits of the instance come to an end.
CHECK_DEADLOCK FALSE
