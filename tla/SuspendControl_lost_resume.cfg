SPECIFICATION Spec
CONSTANTS
    Callers = {c1}
    Targets = {t1}
    None = None
    InitBottom = 2
    MaxBottom = 2
    TargetsExit = FALSE
INVARIANT StoppedIsKnown
\* A target may stay suspended for ever while a caller spins.
CHECK_DEADLOCK FALSE
