\* A hedge is filled, then the position is reversed into its side.
CONSTANTS
    Up = Up
    Down = Down
    None = None
    One = 60
    Unlimited = 9
    Prices <- MCPrices
    Ticks <- MCTicks
    EntryOptions <- MCEntryOptions
    ExitOptions <- MCExitOptions
    LimitOptions <- MCLimitOptions
    StopOptions <- MCStopOptions
    Epsilon = 6
    LevelCapped = TRUE
    MaxOrders = 3
    MaxResting = 1
    MaxPlaced = 2
    MaxCalls = 4
    MaxRows = 2
SPECIFICATION Spec
SYMMETRY Symmetry
PROPERTY
    HedgeLotSurvives
