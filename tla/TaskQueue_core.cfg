SPECIFICATION FairSpec
CONSTANTS
    a = a
    b = b
    NULL = NULL
    Clients <- MCClients
    Jobs <- MCJobs
    NumWorkers = 2
    QueueSize = 2
    WakeEarly = FALSE
    MaxRounds = 2
INVARIANT TypeOK
INVARIANT NoIdleWorker
INVARIANT JobsAccounted
INVARIANT NoJobWaitsForSleeper
INVARIANT AllJobsRun
INVARIANT ChunksFiltered
PROPERTY WaitReturns
\* Both clients have had their rounds.
CHECK_DEADLOCK FALSE
