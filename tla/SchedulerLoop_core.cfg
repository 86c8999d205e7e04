SPECIFICATION FairSpec
CONSTANTS
    NumThreads = 3
    SetsStatus = {TRUE, FALSE}
    MainReturns = {TRUE, FALSE}
INVARIANT TypeOK
INVARIANT ActiveFlagExact
INVARIANT QuietAtReturn
INVARIANT DropDetectedLater
PROPERTY RunReturns
\* Everything ends once main and the threads are done.
CHECK_DEADLOCK FALSE
