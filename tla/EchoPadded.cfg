CONSTANTS
    Sizes = {1, 4}
    Overhead = 2
    InputMax = 6
    MaxSent = 6
    Resumed = FALSE
SPECIFICATION Spec
INVARIANT EchoExact
CHECK_DEADLOCK FALSE
