CONSTANTS
    LENGTH = 6
    SizeRange = 16
    SeqRange = 16
    MaxBytes = 6
    WriteSizes = {3}
    InitialSeq = 11
    MSS = 2
    SegmentCount = 2
    TxWindowLength = 6
    MaxTransmitCount = 2
    DuplicateAcks = 2
    SendRepeatedCount = 3
    PeerWindow = 3
    MaxAcks = 1
    Garbage = Garbage
SPECIFICATION Spec
INVARIANT WindowKept
