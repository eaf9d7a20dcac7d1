\* The documented promise: any completed backup can be restored.
SPECIFICATION Spec
CONSTANTS
    d1 = d1
    d2 = d2
    btc = btc
    Days <- OneDay
    Groups = {1}
    GroupOf <- OneGroup
    Underlyings = {btc}
    UnderlyingOf <- AllBtc
    Pieces = 2
    Scopes <- AllDays
    MaxRuns = 3
    MaxVersion = 2
    MaxTroubles = 1
VIEW View
INVARIANT
    CompletedIsRestorable
\* once the bounds are used up nothing is left to do
CHECK_DEADLOCK FALSE
