\* Two workers, two tasks, temporal properties: no symmetry.
SPECIFICATION FairSpec
CONSTANTS
    w1 = w1
    w2 = w2
    t1 = t1
    t2 = t2
    Workers = {w1, w2}
    Initial <- TwoInitial
    Tasks = {t1, t2}
    Rank <- TaskRank
    Sizes = {1}
    Garbage = {0}
    NoThread = NoThread
    NoTask = NoTask
PROPERTIES
    PauseHolds
CHECK_DEADLOCK FALSE
