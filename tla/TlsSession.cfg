CONSTANTS
    Sizes = {1, 4}
    Overhead = 2
    InputMax = 6
    MaxSent = 6
    Resumed = TRUE
SPECIFICATION FairSpec
INVARIANTS TypeOK NoGaps EchoIsWhole OneMessageEchoed EmptyReadEnds
PROPERTY ClientLetGo
CHECK_DEADLOCK FALSE
