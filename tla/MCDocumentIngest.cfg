SPECIFICATION FairSpec
CONSTANTS
    Docs = {d1}
    Workers = {w1, w2, w3}
    Generations = {g1, g2, g3}
    ConsumedQueues = {"ingest", "default"}
    MaxRetries = 1
    MaxFaults = 3
    NoWorker = NoWorker
    NoJob = NoJob
INVARIANTS
    TypeOK
    OneGeneration
    ReadyIffIndexed
    NoStrandedDocument
PROPERTIES
    StaysSearchable
    DeletedStaysHidden
    IndexSpec
    EventuallySettled
CHECK_DEADLOCK FALSE
