\* The runbook's claim about stale workers, against a worker that recovers
\* stale leases only when it starts.
CONSTANTS
    Jobs = {j1}
    NoJob = NoJob
    Workers = {w1, w2}
    Producer = Producer
    JsonbAsDict = {w1, w2, Producer}
    IntervalAsText = {w1, w2}
    MaxAttempts = 2
    StaleAfter = 1
    HeartbeatEvery = 1
    RetryDelays = {1}
    Punctual = {}
    MaxLag = 0
    MaxFaults = 1
SPECIFICATION FairSpec
PROPERTIES
    HealthyWorkerRecovers
