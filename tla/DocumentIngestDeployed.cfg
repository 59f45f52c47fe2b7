SPECIFICATION FairSpec
CONSTANTS
    Docs = {d1}
    Workers = {w1, w2}
    Generations = {g1, g2}
    ConsumedQueues = {"default"}
    MaxRetries = 1
    MaxFaults = 2
    NoWorker = NoWorker
    NoJob = NoJob
PROPERTIES
    EventuallySettled
CHECK_DEADLOCK FALSE
