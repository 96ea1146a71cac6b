SPECIFICATION LiveSpec
CONSTANTS
    SIZE_MOD = 1048576
    Archs = {"x86", "arm64"}
    Kernels <- MCKernels
    Initrds <- MCInitrds
INVARIANTS
    TypeOK
    GuestReady
    ResourcesOutlive
    FaultOnlyAtTheEnd
    NetComplete
    InitrdHighest
    LayoutSound
    FdtTrue
PROPERTY ShutdownEnds
CHECK_DEADLOCK FALSE
