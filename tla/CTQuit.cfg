SPECIFICATION FairSpec
CONSTANTS
    Requests <- Observation
    MaxFaults = 0
PROPERTIES
    QuitIsCarriedOut
CHECK_DEADLOCK FALSE
