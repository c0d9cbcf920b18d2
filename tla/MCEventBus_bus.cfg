\* Two publishers, two subscribers with room for one event each.
CONSTANTS
  p1 = p1
  p2 = p2
  Pubs = {p1, p2}
  Subs = {s1, s2}
  Free = Free
  Buffer = 1
  MaxEvents <- TwoAndOne
SPECIFICATION FairSpec
INVARIANTS
  NoSendOnClosed
  InPublisherOrder
  NewestKept
  CompleteStream
  DroppedIsExact
PROPERTIES
  PublishNeverBlocks
\* When everything is published and read, and the subscribers have left,
\* nothing is left to do.
CHECK_DEADLOCK FALSE
