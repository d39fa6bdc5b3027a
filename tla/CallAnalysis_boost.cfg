SPECIFICATION Spec
CONSTANTS
    e1 = e1
    e2 = e2
    call = call
    sms = sms
    email = email
    url = url
    phone = phone
    account = account
    p1 = p1
    p2 = p2
    Events <- TwoEvents
    Requests <- UrlRequests
    Channels <- AllChannels
    Email <- email
    Urls <- OneUrl
    Numbers <- TwoNumbers
    Malicious <- OneUrl
    Scores = {40}
    ApiProcesses <- OneProcess
    LlmMaxConcurrency = 2
    MaxTimeouts = 0
    MaxDatabaseFaults = 0
    WindowSeconds = 1
    MaxTime = 2
SYMMETRY Symmetry
INVARIANTS
    BoostIsAsDocumented
