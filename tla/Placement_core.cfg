SPECIFICATION Spec
CONSTANTS
    NumThreads = 2
    CpuNodes <- TwoNodes
    MaxMain = 2
    MaxChild <- OneTwo
    NumaPeriod = 2
    MaxIter = 4
INVARIANT TypeOK
INVARIANT PlacementValid
INVARIANT PinnedAsChosen
PROPERTY NoQuickSwitch
PROPERTY ReshuffledExactly
\* run() returns, and the bound on iterations is reached.
CHECK_DEADLOCK FALSE
