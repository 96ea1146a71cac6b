CONSTANTS
    Byte <- MCByte
    Nul = "nul"
    EscapeChar = "ctrl-a"
    ExitChar = "x"
    RegVals = {0}
    ResetVal = 0
    FIFO_LEN = 2
    UINT_MOD = 4
    MayHangUp = TRUE
    MaxTyped = 4
    MaxFaults = 1
SPECIFICATION LiveSpec
CHECK_DEADLOCK FALSE
INVARIANTS
    TypeOK
    RingBounded
    DataReady
    LineSettled
    RdiHasData
    WaiterHasBacklog
PROPERTIES
    ConsoleSpec
    InputDelivered
