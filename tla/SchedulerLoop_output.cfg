SPECIFICATION Spec
CONSTANTS
    NumThreads = 2
    SetsStatus = {TRUE}
    MainReturns = {TRUE}
INVARIANT AllResultsWritten
\* Everything ends once main and the threads are done.
CHECK_DEADLOCK FALSE
