CONSTANTS
    QSize = 2
    MaxPackets = 2
    MaxFaults = 0
SPECIFICATION LiveSpec
PROPERTIES
    CompletionsFound
