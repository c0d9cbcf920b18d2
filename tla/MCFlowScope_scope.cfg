SPECIFICATION Spec
CONSTANTS
    Flows <- MCFlows
    MaxRuns = 2
    MaxIterations = 2
INVARIANTS
    TypeOK
    CleanReadsFind
    RejectedReadsFindNothing
    ReadsLatestResult
CHECK_DEADLOCK FALSE
