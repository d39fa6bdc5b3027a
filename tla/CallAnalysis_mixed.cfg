SPECIFICATION Spec
CONSTANTS
    e1 = e1
    e2 = e2
    call = call
    sms = sms
    email = email
    url = url
    phone = phone
    account = account
    p1 = p1
    p2 = p2
    Events <- TwoEvents
    Requests <- MixedRequests
    Channels <- AllChannels
    Email <- email
    Urls <- OneUrl
    Numbers <- OneNumber
    Malicious <- OneUrl
    Scores = {40}
    ApiProcesses <- TwoProcesses
    LlmMaxConcurrency = 2
    MaxTimeouts = 1
    MaxDatabaseFaults = 1
    WindowSeconds = 0
    MaxTime = 1
SYMMETRY Symmetry
INVARIANTS
    TypeOK
    EarlierSignalsAreFound
    MatchesAreJustified
    AnsweredIsAudited
    PairsAreSeen
