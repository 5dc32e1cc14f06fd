\* Four callers and two entries.
SPECIFICATION FairSpec
CONSTANTS
    c1 = c1
    c2 = c2
    c3 = c3
    c4 = c4
    t1 = t1
    t2 = t2
    Threads = {c1, c2, c3, c4}
    Tasks = {t1, t2}
    Rank <- TaskRank
INVARIANTS
    TypeOK
    EntriesAnnounced
PROPERTIES
    TimedPopEnds
CHECK_DEADLOCK FALSE
