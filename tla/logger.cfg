\* Two clients, three messages of two levels, one change of path or more.
SPECIFICATION FairSpec
CONSTANTS
    c1 = c1
    c2 = c2
    m1 = m1
    m2 = m2
    m3 = m3
    Clients = {c1, c2}
    Msgs = {m1, m2, m3}
    Severity <- MessageLevel
    Levels <- TwoLevels
    Paths = {"initial.log"}
    LogTxt = "log.txt"
    Closed = Closed
    RawStop = {TRUE, FALSE}
    NoMsg = NoMsg
    NoClient = NoClient
INVARIANTS
    InOrder
PROPERTIES
    EveryMessageWritten
CHECK_DEADLOCK FALSE
