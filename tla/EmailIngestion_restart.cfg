SPECIFICATION FairSpec
CONSTANTS
    m1 = m1
    m2 = m2
    Mails <- TwoMails
    Lookback = 2
    PageSize = 1
    MaxFaults = 1
    MaxTime = 3
PROPERTY
    RestartRepeatsNothing
