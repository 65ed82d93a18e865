CONSTANTS
    Units <- TwoAndNone
    CloseAfterSend = {"client"}
    ZeroCopyTxDriver = TRUE
    UserCloses = {"client", "server"}
    PoolRunsOut = FALSE
    MaxRepCount = 2
    MaxKeepRepCount = 1
    SendRepeatedCount = 3
    MaxWire = 1
    Duplicates = FALSE
SPECIFICATION Spec
INVARIANTS ReceptionComplete
CHECK_DEADLOCK FALSE
