SPECIFICATION PgFairSpec
CONSTANTS
    Clients = {t1, t2}
    DocIds = {"d1", "d2"}
    Versions = {"x", "y"}
    RowIds = {1, 2, 3, 4, 5, 6}
    PgBatches <- MCBatches
    MaxCalls = 3
    MaxCrashes = 1
INVARIANTS PgTypeOK DocumentsAreWhole AcknowledgedIsStored
PROPERTY EveryCallEnds
CHECK_DEADLOCK FALSE
