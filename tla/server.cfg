\* Two overlapping writes and a read by two workers, socket buffers of one unit.
SPECIFICATION FairSpec
CONSTANTS
    wr1 = wr1
    wr2 = wr2
    rd = rd
    fl = fl
    w1 = w1
    w2 = w2
    Reqs = {wr1, wr2, rd}
    Kind <- RequestKind
    Span <- RequestSpan
    Workers = {w1, w2}
    Cells = {1, 2}
    Capacity = 1
    Zero = Zero
    NoReq = NoReq
    Reactor = Reactor
INVARIANTS
    TypeOK
    ReadsCurrent
    AnsweredWritesStored
    RepliesFramed
    AnsweredOnce
PROPERTIES
    EveryRequestAnswered
CHECK_DEADLOCK FALSE
