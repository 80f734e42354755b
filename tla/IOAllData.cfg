SPECIFICATION ProcSpec
CONSTANTS
    s1 = s1
    s2 = s2
    r1 = r1
    r2 = r2
    Subbands = {s1, s2}
    Receivers = {r1, r2}
    Owner <- TwoOwners
    realTime = FALSE
    nrBlocks = 5
    maxBlocksInFlight = 0
    outputRoom = 0
    NrBuffers = 1
    LastBlock = 5
    Null = Null
INVARIANTS
    FileComplete
    BuffersConserved
PROPERTIES
    ReceiversGoOn
    ProcessEnds
