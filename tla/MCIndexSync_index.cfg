SPECIFICATION Spec
CONSTANTS
    Services = {s1}
    Contents = {a, b, bad}
    Broken = {bad}
    FirstContent = a
    GitSourced = {s1}
    NoContent = NoContent
    NoService = NoService
    Debounce = 2
    MaxDelay = 3
    MaxEdits = 2
    MaxOps = 2
    MaxFaults = 1
INVARIANTS SettledIsIndexed FlushWithinMaxDelay
CHECK_DEADLOCK FALSE
