CONSTANTS
    LENGTH = 5
    SizeRange = 16
    SeqRange = 16
    MaxBytes = 5
    WriteSizes = {3}
    InitialSeq = 11
    MSS = 2
    SegmentCount = 2
    TxWindowLength = 6
    MaxTransmitCount = 2
    DuplicateAcks = 2
    SendRepeatedCount = 3
    PeerWindow = 3
    MaxAcks = 2
    Garbage = Garbage
SPECIFICATION FairSpec
INVARIANTS TypeOK StreamCovered SentIsStream ConfirmedReceived NeverOverruns
PROPERTY Delivered
