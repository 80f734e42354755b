SPECIFICATION FairSpec
CONSTANTS
    Requests <- Observation
    MaxFaults = 1
INVARIANTS
    TypeOK
    CommandsInBand
    StatesAgree
PROPERTIES
    RequestReached
CHECK_DEADLOCK FALSE
