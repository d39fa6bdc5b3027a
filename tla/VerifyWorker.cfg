SPECIFICATION Spec
CONSTANTS
    bank = bank
    demo = demo
    hired = hired
    code1 = code1
    code2 = code2
    ip1 = ip1
    ip2 = ip2
    Issuers <- MCIssuers
    Credentials <- MCCredentials
    DemoCredentials <- MCDemoCredentials
    DemoIssuer <- MCDemoIssuer
    Codes <- MCCodes
    Clients <- OneClient
    MaxFailures = 2
    WindowSeconds = 2
    Ttl = 2
    MaxTime = 4
    MaxRestarts = 1
INVARIANTS
    TypeOK
    UsedIffAcceptedOnce
    SignaturesStayValid
    FailureBudget
    StoreIsExact
PROPERTY ImplementsOneTimeProof
