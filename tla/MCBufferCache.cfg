SPECIFICATION FairSpec
CONSTANTS
    BUFFER_CACHE_SIZE = 2
    t1 = t1
    t2 = t2
    Thread = {t1, t2}
    Calls <- MCCalls
    Sector = {a, b, c}
    Value = {v0, v1}
    Nobody = Nobody
    NoCall = NoCall
    NoValue = NoValue
INVARIANTS CacheCoherent
PROPERTIES StorageRefined CallReturns
CHECK_DEADLOCK FALSE
