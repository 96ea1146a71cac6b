CONSTANTS
    NumQueues = 2
    Bits = {}
    Offered <- MCOffered
    Sizes = {2}
    MaxSize = 4
    Addrs = {1}
    MaxProbes = 2
SPECIFICATION ProbeSpec
CHECK_DEADLOCK FALSE
INVARIANTS
    TypeOK
    WindowShowsQueue
    QueuesReady
PROPERTIES
    RingsStay
