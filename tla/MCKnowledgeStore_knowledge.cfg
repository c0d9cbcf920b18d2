\* One item, two requests at a time, the engine, an editor and every fault.
CONSTANTS
  Clients = {c1, c2}
  Kinds = {"memory", "example"}
  Tiers <- MCTiers
  Folders <- MCFolders
  Root = ""
  PathRank <- MCPathRank
  Faults = {"crash", "remove", "db"}
  MaxTexts = 2
  MaxRequests = 2
  MaxEdits = 1
SPECIFICATION Spec
SYMMETRY MCSymmetry
INVARIANTS
  TypeOK
  SettledRowMatchesFiles
  TextIsKept
\* The requests and edits of the instance come to an end.
CHECK_DEADLOCK FALSE
