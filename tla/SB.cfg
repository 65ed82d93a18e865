CONSTANTS
    LENGTH = 5
    SizeRange = 16
    WriterPreemptible = TRUE
    MaxBytes = 11
    MaxAhead = 3
    Garbage = Garbage
SPECIFICATION Spec
INVARIANTS TypeOK BytesIntact GetReturnsStream WindowHonest
PROPERTY ImplementsFifo
CHECK_DEADLOCK FALSE
