\* One worker and a second the pool may grow to, one task, two entries of each kind.
SPECIFICATION FairSpec
CONSTANTS
    w1 = w1
    w2 = w2
    t1 = t1
    s1 = s1
    s2 = s2
    k1 = k1
    k2 = k2
    Workers = {w1, w2}
    Initial = {w1}
    Tasks = {t1, s1, s2, k1, k2}
    Waits = {s1, s2}
    Wakes = {k1, k2}
    Rank <- TaskRank
    Sizes = {1, 2}
    NoThread = NoThread
    NoTask = NoTask
INVARIANTS
    TypeOK
    NoLostTaskWakeup
PROPERTIES
    JoinEndsUnlessParked
    ImplementsTaskPool
    PausedStartsNothing
CHECK_DEADLOCK FALSE
