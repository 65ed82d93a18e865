CONSTANTS
    NUM_BD = 4
    frame_size = 1
    WordRange = 6
    FifoDepth = 3
    FramesPerPass = 2
    WarmUp = 5
SPECIFICATION FairSpec
INVARIANTS NoDataError NoLostEdge
PROPERTY KeepsStreaming
