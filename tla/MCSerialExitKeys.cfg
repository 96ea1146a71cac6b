CONSTANTS
    Byte <- MCByte
    Nul = "nul"
    EscapeChar = "ctrl-a"
    ExitChar = "x"
    RegVals = {0}
    ResetVal = 0
    FIFO_LEN = 2
    UINT_MOD = 4
    MayHangUp = FALSE
    MaxTyped = 4
    MaxFaults = 0
SPECIFICATION FairSpec
CHECK_DEADLOCK FALSE
PROPERTIES
    CtrlAxExits
