SPECIFICATION Spec
CONSTANTS
    a = a
    b = b
    NULL = NULL
    Clients <- MCClients
    Jobs <- MCJobs
    NumWorkers = 2
    QueueSize = 2
    WakeEarly = FALSE
    MaxRounds = 2
INVARIANT FinishedWereRun
CHECK_DEADLOCK FALSE
