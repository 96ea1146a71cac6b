CONSTANTS
    QSize = 2
    MaxPackets = 3
    MaxFaults = 1
SPECIFICATION LiveSpec
INVARIANTS
    TypeOK
    UsedMeansDone
    InOrderOnce
    DeviceInWindow
    PacketKeepsSignal
PROPERTIES
    AllSent
