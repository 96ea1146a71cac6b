CONSTANTS
    NumQueues = 1
    Bits = {"VERSION_1"}
    Offered <- MCOffered
    Sizes = {2}
    MaxSize = 4
    Addrs = {1}
    MaxProbes = 1
SPECIFICATION ProbeSpec
CHECK_DEADLOCK FALSE
INVARIANTS
    FeaturesAgreed
