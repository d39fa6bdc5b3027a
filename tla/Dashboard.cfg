SPECIFICATION FairSpec
CONSTANTS
    c1 = c1
    c2 = c2
    Calls <- TwoCalls
    High <- FirstIsHigh
    Filters <- AllOrHigh
    PageSize = 1
    MaxLimit = 2
    MaxInFlight = 2
    MaxClicks = 2
    MaxFaults = 1
INVARIANTS
    TypeOK
    ReportsAreAccounted
PROPERTIES
    ScreenNeverGoesBack
    ScreenCatchesUp
