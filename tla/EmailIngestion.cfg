SPECIFICATION FairSpec
CONSTANTS
    m1 = m1
    m2 = m2
    Mails <- TwoMails
    Lookback = 2
    PageSize = 1
    MaxFaults = 3
    MaxTime = 3
INVARIANTS
    TypeOK
    LabelledIsAnalyzed
PROPERTY
    EveryMailIsAnalyzed
