\* The documented promise: any completed backup can be restored.  Two intervals of
\* one underlying, a day each, two runs, and nothing fails.
SPECIFICATION Spec
CONSTANTS
    d1 = d1
    d2 = d2
    btc = btc
    Days <- TwoDays
    Groups = {1, 2}
    GroupOf <- TwoGroups
    Underlyings = {btc}
    UnderlyingOf <- AllBtc
    Pieces = 1
    Scopes <- AllDays
    MaxRuns = 2
    MaxVersion = 1
    MaxTroubles = 0
VIEW View
INVARIANT
    CompletedIsRestorable
\* once the bounds are used up nothing is left to do
CHECK_DEADLOCK FALSE
