SPECIFICATION LiveSpec
CONSTANTS
    small = small
    large = large
    Configs <- MCConfigs
    Streams <- MCStreams
    BatchSize <- MCBatchSize
    MaxWorkers = 2
    NoFile = NoFile
    Damaged = Damaged
    MaxDisturbances = 2
    MaxEdits = 2
INVARIANTS
    EvidenceOfItsContext
    SeedsUsedOnceInOrder
PROPERTIES
    EventuallyRecorded
