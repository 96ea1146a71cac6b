CONSTANTS
    QSize = 8
    Sectors <- MCSectors
    Vals = {"v"}
    Types = {"IN", "OUT"}
    Lens = {1, 2}
    LEN_MOD = 4
    DoorbellLens = {2, 4}
    MayFail = TRUE
    MaxReqs = 3
SPECIFICATION LiveSpec
CHECK_DEADLOCK FALSE
INVARIANTS
    DeviceInWindow
    ChainComplete
PROPERTIES
    BlockDevSpec
    AllAnswered
