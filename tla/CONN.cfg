CONSTANTS
    Units <- TwoAndNone
    CloseAfterSend = {"client"}
    ZeroCopyTxDriver = TRUE
    UserCloses = {"client"}
    PoolRunsOut = FALSE
    MaxRepCount = 2
    MaxKeepRepCount = 1
    SendRepeatedCount = 3
    MaxWire = 2
    Duplicates = FALSE
SPECIFICATION Spec
INVARIANTS TypeOK ConfirmedReceived FinComplete
CHECK_DEADLOCK FALSE
