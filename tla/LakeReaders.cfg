\* Two loads of one day while it is exported, edited, cleaned and exported again.
SPECIFICATION Spec
CONSTANTS
    l1 = l1
    l2 = l2
    None = None
    Loads <- TwoLoads
    Warmups <- NoWarmup
    MaxFiles = 2
    MaxDay = 2
SYMMETRY Symmetry
INVARIANTS
    TypeOK
    CacheDescribesRow
    ServedWasPublished
    LostFileWasReplaced
