SPECIFICATION FairSpec
CONSTANTS
    IPs = {p, q}
    MACs = {m, n, o}
    None = None
    Entries = 2
    MaxAge = 2
    MaxRetransmissions = 1
    AgeToAsk = 1
    QueueLength = 1
    Buffers = 3
    MaxPackets = 1
    MaxHeld = 1
    MaxMoves = 1
INVARIANTS TypeOK BuffersAccounted OneRowEach NeverMisdirected
PROPERTIES Corrected WaitingEnds
CHECK_DEADLOCK FALSE
