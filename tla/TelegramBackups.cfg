\* Two intervals of one underlying, a day of two pieces each: two runs, with one
\* refused request or process end.
SPECIFICATION Spec
CONSTANTS
    d1 = d1
    d2 = d2
    btc = btc
    Days <- TwoDays
    Groups = {1, 2}
    GroupOf <- TwoGroups
    Underlyings = {btc}
    UnderlyingOf <- AllBtc
    Pieces = 2
    Scopes <- DayOrBoth
    MaxRuns = 2
    MaxVersion = 2
    MaxTroubles = 1
VIEW View
INVARIANTS
    TypeOK
    RunningIsAtWork
    CompletedCoversLake
    CancelLeavesNothing
PROPERTIES
    CancelledNeverCompletes
\* once the bounds are used up nothing is left to do
CHECK_DEADLOCK FALSE
