SPECIFICATION FairSpec
CONSTANTS
    Writers = {s1}
    NrFiles = 1
    NrBlocks = 2
    maxRetentionTime = 1
    MaxTime = 3
    Null = Null
PROPERTIES
    AppendReturns
CHECK_DEADLOCK FALSE
