SPECIFICATION Spec
CONSTANTS
    Start = 2
    MaxTime = 7
    WaitsForInit = TRUE
INVARIANT TypeOK
INVARIANT ElapsedTelescopes
INVARIANT TimeWithinLife
\* The clock stops at MaxTime and the thread ends.
CHECK_DEADLOCK FALSE
