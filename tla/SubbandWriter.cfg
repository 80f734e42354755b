SPECIFICATION FairSpec
CONSTANTS
    realTime = TRUE
    NrBuffers = 2
    LastBlock = 4
    Null = Null
INVARIANTS
    BuffersConserved
PROPERTIES
    WriterStops
