SPECIFICATION FairSpec
CONSTANTS
    Threads = {t1, t2, t3}
    None = None
    MaxRounds = 3
    MaxSpurious = 2
INVARIANT TypeOK
INVARIANT NoMissedWakeup
INVARIANT CountsOneRound
PROPERTY RefinesBarrier
PROPERTY RefinesLeaving
\* The threads stop after MaxRounds calls.
CHECK_DEADLOCK FALSE
