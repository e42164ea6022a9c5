SPECIFICATION CacheSpec
CONSTANTS
    NoVal = NoVal
    Empty = Empty
    TokenKeys = {t1, t2}
    AssetKeys = {}
    Values = {v1, v2}
    RepeatWrites = TRUE
    MaxHead = 4
    MaxWrites = 3
    MaxOpen = 3
    MaxLib = 2
    MaxRestarts = 0
    LateChecks = FALSE
SYMMETRY Symmetry
INVARIANTS CacheCoherent TokenRollbackExact
PROPERTIES CacheStoreSpec
