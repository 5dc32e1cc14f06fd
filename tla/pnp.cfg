SPECIFICATION PnpFairSpec
CONSTANTS
    l1 = l1
    l2 = l2
    f1 = f1
    f2 = f2
    f3 = f3
    Loaders = {l1, l2}
    Files = {f1, f2, f3}
    Batch = 2
    NoFile = NoFile
INVARIANTS
    PnpTypeOK
    OpenedInOrder
    HandlesClosed
PROPERTIES
    StayersAreTold
    MonitorStops
CHECK_DEADLOCK FALSE
