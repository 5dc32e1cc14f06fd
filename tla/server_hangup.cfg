\* A write and a flush, and the device disconnected.
SPECIFICATION FairSpec
CONSTANTS
    wr1 = wr1
    wr2 = wr2
    rd = rd
    fl = fl
    w1 = w1
    w2 = w2
    Reqs = {wr1, fl}
    Kind <- RequestKind
    Span <- RequestSpan
    Workers = {w1, w2}
    Cells = {1, 2}
    Capacity = 2
    Zero = Zero
    NoReq = NoReq
    Reactor = Reactor
PROPERTIES
    RecvReturns
CHECK_DEADLOCK FALSE
