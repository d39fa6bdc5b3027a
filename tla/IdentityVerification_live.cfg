SPECIFICATION FairSpec
CONSTANTS
    t1 = t1
    t2 = t2
    call1 = call1
    ip1 = ip1
    ip2 = ip2
    api = api
    code1 = code1
    bank = bank
    demo = demo
    Threads <- TwoThreads
    ProcessOf <- ProcessEach
    Calls <- OneCall
    Clients <- TwoClients
    Codes <- OneCode
    Issuers <- MCIssuers
    Credentials <- Seeded
    DemoCredentials <- Seeded
    DemoIssuer <- MCDemoIssuer
    WorkerAnswers <- MCAnswers
    ApiAddress = api
    TrustedProxies <- ApiTrusted
    MaxFailures = 1
    WindowSeconds = 2
    MaxRequestSeconds = 1
    MaxRequests = 2
    MaxTime = 1
    Ttl = 1
    MaxRestarts = 1
INVARIANTS
    EndToEndBudget
    OnlyOwnFailuresLimit
    AcceptancesAreAccounted
PROPERTY EveryRequestEnds
