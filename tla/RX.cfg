CONSTANTS
    LENGTH = 6
    SizeRange = 32
    SeqRange = 32
    MaxBytes = 9
    Cuts <- BothCuts
    InitialSeq = 27
    SegmentCount = 2
    RxWindowLength = 5
    MSS = 2
    LittleSpace = 1
    EnoughSpace = 3
    Garbage = Garbage
SPECIFICATION FairSpec
INVARIANTS TypeOK StreamIntact WindowFits SackTruthful
PROPERTY Delivered
