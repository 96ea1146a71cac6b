CONSTANTS
    QSize = 8
    Sectors <- MCSectors
    Vals = {"v"}
    Types = {"IN", "OUT", "GET_ID"}
    Lens = {1}
    LEN_MOD = 4
    DoorbellLens = {2}
    MayFail = FALSE
    MaxReqs = 4
SPECIFICATION Spec
CHECK_DEADLOCK FALSE
INVARIANTS
    TypeOK
    UsedIsAnnounced
