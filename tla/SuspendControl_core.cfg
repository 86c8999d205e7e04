SPECIFICATION FairSpec
CONSTANTS
    Callers = {c1, c2}
    Targets = {t1, t2}
    None = None
    InitBottom = 1
    MaxBottom = 3
    TargetsExit = TRUE
INVARIANT TypeOK
INVARIANT RegisteredIsStopped
INVARIANT SentinelIsForMe
INVARIANT ResumeOnlyToSuspended
PROPERTY SuspendReturns
\* A caller may spin for ever on a target that has ended.
CHECK_DEADLOCK FALSE
