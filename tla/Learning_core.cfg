SPECIFICATION Spec
CONSTANTS
    NumThreads = 2
    Speeds = {1, 2, 3}
    Gain = 1
    WarmUp = 1
    NumaPeriod = 2
    Garbage = {0, 3}
    MaxIter = 4
INVARIANT TypeOK
INVARIANT AverageWithinHistory
INVARIANT AspirationAttainable
PROPERTY NoRepeatedSwitch
\* The bound on iterations is reached.
CHECK_DEADLOCK FALSE
