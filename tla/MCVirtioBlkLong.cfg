CONSTANTS
    QSize = 8
    Sectors <- MCSectors
    Vals = {"v"}
    Types = {"IN"}
    Lens = {2}
    LEN_MOD = 2
    DoorbellLens = {2}
    MayFail = FALSE
    MaxReqs = 2
SPECIFICATION Spec
CHECK_DEADLOCK FALSE
INVARIANTS
    ReadIsWhole
