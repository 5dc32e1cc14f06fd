\* One client, one message, one path.
SPECIFICATION FairSpec
CONSTANTS
    c1 = c1
    c2 = c2
    m1 = m1
    m2 = m2
    m3 = m3
    Clients = {c1}
    Msgs = {m2}
    Severity <- MessageLevel
    Levels <- TwoLevels
    Paths = {"initial.log"}
    LogTxt = "log.txt"
    Closed = Closed
    RawStop = {FALSE}
    NoMsg = NoMsg
    NoClient = NoClient
PROPERTIES
    SetPathReturns
CHECK_DEADLOCK FALSE
