SPECIFICATION ProcSpec
CONSTANTS
    s1 = s1
    s2 = s2
    r1 = r1
    r2 = r2
    Subbands = {s1, s2}
    Receivers = {r1, r2}
    Owner <- TwoOwners
    realTime = TRUE
    nrBlocks = 2
    maxBlocksInFlight = 1
    outputRoom = 0
    NrBuffers = 1
    LastBlock = 2
    Null = Null
PROPERTIES
    StopsAfterLastBlock
CHECK_DEADLOCK FALSE
