SPECIFICATION FairSpec
CONSTANTS
    NrSubbands = 1
    NrSubbandProcs = 1
    MPIPoolSize = 1
    Retention = 0
    Observations <- OneFails
PROPERTIES
    FailedWriterDrops
