SPECIFICATION FairSpec
CONSTANTS
    Writers = {s1, s2}
    NrFiles = 1
    NrBlocks = 3
    maxRetentionTime = 1
    MaxTime = 4
    Null = Null
INVARIANTS
    TypeOK
    SentInOrder
    OnePlace
    SizeLimited
    EverythingSent
PROPERTIES
    SenderEnds
CHECK_DEADLOCK FALSE
