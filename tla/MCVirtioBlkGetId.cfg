CONSTANTS
    QSize = 8
    Sectors <- MCSectors
    Vals = {"v"}
    Types = {"GET_ID"}
    Lens = {1}
    LEN_MOD = 4
    DoorbellLens = {2}
    MayFail = FALSE
    MaxReqs = 2
SPECIFICATION Spec
CHECK_DEADLOCK FALSE
INVARIANTS
    StatusWritten
