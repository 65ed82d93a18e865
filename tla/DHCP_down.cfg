SPECIFICATION FairSpec
CONSTANTS
    Servers = {A}
    Addresses = {i1}
    None = None
    Default = Default
    QueueLength = 1
    MaxPackets = 1
    MaxPeriod = 1
    DownWhenFull = TRUE
    MaxReplies = 1
    MaxFaults = 1
PROPERTY Configured
CHECK_DEADLOCK FALSE
