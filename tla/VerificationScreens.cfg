SPECIFICATION Spec
CONSTANTS
    p1 = p1
    p2 = p2
    k1 = k1
    Panels <- TwoPanels
    CallOf <- AllStandalone
    Codes <- OneCode
    Staff = staff
    Ttl = 2
    MaxRequests = 2
    MaxFaults = 1
    MaxRestarts = 1
    MaxTime = 2
SYMMETRY PanelSymmetry
CHECK_DEADLOCK FALSE
INVARIANTS
    RedHasAlert
    GenuineIsNotAccused
    CountdownIsHonest
    FirstTypoOfCallIsForgiven
