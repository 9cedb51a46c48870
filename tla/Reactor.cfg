CONSTANTS
    Threads = {t1, t2}
    Room = 2
    MaxData = 2
    MaxSockets = 2
SPECIFICATION FairSpec
INVARIANTS TypeOK NoLostEdge GuessCorrected
PROPERTIES ReadEnds WriteEnds
CHECK_DEADLOCK FALSE
