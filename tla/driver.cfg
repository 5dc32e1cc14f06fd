SPECIFICATION FairSpec
CONSTANTS
    Numbers = {1, 2, 3, 4, 5}
INVARIANTS
    TypeOK
    ClosesItsOwn
    NothingLeft
    ServedSocketsOpen
PROPERTIES
    UnservedEnds
CHECK_DEADLOCK FALSE
