SPECIFICATION CacheSpec
CONSTANTS
    NoVal = NoVal
    Empty = Empty
    TokenKeys = {t1, t2}
    AssetKeys = {}
    Values = {v1, v2}
    RepeatWrites = TRUE
    MaxHead = 3
    MaxWrites = 2
    MaxOpen = 3
    MaxLib = 1
    MaxRestarts = 1
    LateChecks = TRUE
SYMMETRY Symmetry
PROPERTIES CoherenceLostKnowingly
