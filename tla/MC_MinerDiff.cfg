CONSTANTS
    m0 = m0
    m2 = m2
    m3 = m3
    m4 = m4
    k0 = k0
    k2 = k2
    o1 = o1
    o2 = o2
    absent = absent
    Miner0 <- m0
    Miner2 <- m2
    Miner3 <- m3
    Miner4 <- m4
    Market0 <- k0
    Market2 <- k2
    Sectors = {1, 2}
    Expirations = {10, 20}
    Others = {o1, o2}
    Absent <- absent

SPECIFICATION Spec
INVARIANT PreCommitDiffCorrect
INVARIANT SectorDiffCorrectUnlessBothLegacy
CHECK_DEADLOCK FALSE
