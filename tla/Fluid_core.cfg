SPECIFICATION FairSpec
CONSTANTS
    nx = 3
    ny = 1
    nz = 1
    XDIVS = 2
    ZDIVS = 1
    numParticles = 3
    ParticlesPerCell = 2
    framenum = 2
    InitialAlloc = 1
    MaxBlocks = 6
    NULL = NULL
INVARIANT TypeOK
INVARIANT NoRace
INVARIANT ParticlesConserved
INVARIANT BlocksAccounted
INVARIANT PairsAtMostOnce
PROPERTY FramesDone
\* The threads end.
CHECK_DEADLOCK FALSE
