SPECIFICATION Spec
CONSTANTS
    NoVal = NoVal
    Empty = Empty
    TokenKeys = {t1, t2}
    AssetKeys = {a1}
    Values = {v1, v2}
    RepeatWrites = FALSE
    MaxHead = 5
    MaxWrites = 3
    MaxOpen = 2
    MaxLib = 3
    MaxRestarts = 1
CONSTRAINT OneFamily
SYMMETRY Symmetry
INVARIANTS UsersCounted LockStep AssetRollbackExact
PROPERTIES MaintenanceInvisible TokenStoreSpec
