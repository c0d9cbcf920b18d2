\* Two iterations of a polling step and a plain one, cancelled at any moment.
CONSTANTS
  NSteps = 2
  Max = 2
  Polls <- FirstPolls
  PollTimeout = 1
  PollInterval = 1
  Budget = 2
  MaxSize = 2
SPECIFICATION FairBlockSpec
INVARIANTS
  OutcomeTellsTruth
  IterationsMatch
  PollIsBounded
  CancelIsPrompt
PROPERTIES
  BlockEnds
\* The block that ended is the end of this instance.
CHECK_DEADLOCK FALSE
