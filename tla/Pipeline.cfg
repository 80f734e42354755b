SPECIFICATION FairSpec
CONSTANTS
    NrSubbands = 2
    NrSubbandProcs = 2
    MPIPoolSize = 2
    Retention = 4
    Observations <- Sound
INVARIANTS
    TypeOK PoolsConserved WrittenInOrder WorkingSubbandsComplete OutputPoolSuffices FlushReported
PROPERTIES
    ObservationEnds
