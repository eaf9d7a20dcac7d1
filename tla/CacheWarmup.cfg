\* A warm-up, then a backtest of the same columns.
SPECIFICATION Spec
CONSTANTS
    l1 = l1
    l2 = l2
    None = None
    Loads <- TwoLoads
    Warmups <- SecondWarms
    MaxFiles = 1
    MaxDay = 1
INVARIANT CacheTransparent
