SPECIFICATION Spec
CONSTANTS
    Docs = {d1}
    Workers = {w1, w2}
    Generations = {g1, g2}
    ConsumedQueues = {"ingest", "default"}
    MaxRetries = 1
    MaxFaults = 2
    NoWorker = NoWorker
    NoJob = NoJob
INVARIANTS
    OutcomeIsVisible
CHECK_DEADLOCK FALSE
