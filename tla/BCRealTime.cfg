SPECIFICATION FairSpec
CONSTANTS
    s1 = s1
    s2 = s2
    r1 = r1
    r2 = r2
    Subbands = {s1, s2}
    Receivers = {r1}
    Owner <- OneOwner
    realTime = TRUE
    nrBlocks = 4
    maxBlocksInFlight = 2
    outputRoom = 0
    NrBuffers = 1
    LastBlock = 4
    Null = Null
INVARIANTS
    TypeOK
    ReceivedInOrder
    DropsAccountedFor
    InFlightBound
    DiscardedFarBehind
PROPERTIES
    EmittedInOrder
    ImplementsCollector
    FinishReturns
    ThreadsFinish
