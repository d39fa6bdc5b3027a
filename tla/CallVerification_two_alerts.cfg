SPECIFICATION Spec
CONSTANTS
    t1 = t1
    t2 = t2
    call1 = call1
    ip1 = ip1
    typed = typed
    Threads <- TwoThreads
    ProcessOf <- OneProcess
    Calls <- OneCall
    Clients <- OneClient
    Codes <- OneCode
    WorkerAnswers <- AllAnswers
    MaxFailures = 2
    WindowSeconds = 3
    MaxRequestSeconds = 2
    MaxRequests = 3
    MaxTime = 2
INVARIANT OneAlertPerLimitedCall
