SPECIFICATION Spec
CONSTANTS
    nx = 3
    ny = 1
    nz = 1
    XDIVS = 2
    ZDIVS = 1
    numParticles = 4
    ParticlesPerCell = 2
    framenum = 1
    InitialAlloc = 1
    MaxBlocks = 6
    NULL = NULL
INVARIANT EachPairOnce
CHECK_DEADLOCK FALSE
