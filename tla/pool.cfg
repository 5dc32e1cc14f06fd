\* One worker made by the constructor and a second the pool may grow to, two tasks.
SPECIFICATION FairSpec
CONSTANTS
    w1 = w1
    w2 = w2
    t1 = t1
    t2 = t2
    Workers = {w1, w2}
    Initial = {w1}
    Tasks = {t1, t2}
    Rank <- TaskRank
    Sizes = {1, 2}
    Garbage <- Uninitialised
    NoThread = NoThread
    NoTask = NoTask
INVARIANTS
    TypeOK
    NoStall
    NoLostTaskWakeup
    QuietAfterStop
PROPERTIES
    PausedAddsNoUnit
    ImplementsTaskPool
    WorkProceeds
    StopEndsUnlessStranded
CHECK_DEADLOCK FALSE
