SPECIFICATION FairSpec
CONSTANTS
    th1 = th1
    th2 = th2
    th3 = th3
    Threads = {th1, th2, th3}
    Keys = {"READ", "WRITE"}
    MaxCalls = 3
    NoThread = NoThread
INVARIANTS
    TypeOK
    OneInstance
    UsesBuilt
    CreateIsCurrent
PROPERTIES
    StableDuringCreate
    EveryCallEnds
CHECK_DEADLOCK FALSE
