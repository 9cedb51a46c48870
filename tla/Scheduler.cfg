CONSTANTS
    Threads = {t1, t2}
    Main = main
    Ops = {a, b}
    Descriptors = {d}
    TaskOp = task
    NoOp = none
SPECIFICATION FairSpec
INVARIANTS TypeOK NoLostWakeup StopWakesAll OneTask DescriptorsDequeued WorkExact
PROPERTIES IsExecutor ReadyIsTaken StopEndsRun
CHECK_DEADLOCK FALSE
