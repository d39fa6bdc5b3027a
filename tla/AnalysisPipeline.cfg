SPECIFICATION FairSpec
CONSTANTS
    a1 = a1
    a2 = a2
    t1 = t1
    t2 = t2
    v1 = v1
    Apis = {a1, a2}
    FormApis = {a1, a2}
    Requests = {t1, t2, v1}
    Audio = {v1}
    TextOf <- MCTextOf
    ApiOf <- MCApiOf
    Answers <- MCAnswers
    Recordings <- MCRecordings
    Slots = 2
    MaxFaults = 1
    MaxChoices = 2
    Beside = {v1}
CHECK_DEADLOCK FALSE
INVARIANTS
    TypeOK
    OneSlowServiceCostsNoVerdict
    VerdictIsWhole
    WaitersMeanBusy
    VerdictIsOfItsFile
PROPERTIES
    NobodyWaitsForever
