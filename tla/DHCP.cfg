SPECIFICATION FairSpec
CONSTANTS
    Servers = {A, B}
    Addresses = {i1, i2}
    None = None
    Default = Default
    QueueLength = 2
    MaxPackets = 1
    MaxPeriod = 1
    DownWhenFull = FALSE
    MaxReplies = 2
    MaxFaults = 1
INVARIANTS TypeOK LeaseAgreed SocketMatchesState
PROPERTY Configured
CHECK_DEADLOCK FALSE
