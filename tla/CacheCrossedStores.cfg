\* A store of an older file beside one of the published file.
SPECIFICATION Spec
CONSTANTS
    l1 = l1
    l2 = l2
    None = None
    Loads <- TwoLoads
    Warmups <- NoWarmup
    MaxFiles = 2
    MaxDay = 1
INVARIANT CacheTransparent
