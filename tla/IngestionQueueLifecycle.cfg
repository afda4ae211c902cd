\* A worker with all codecs, one with that of intervals only and one with none, side by
\* side.
CONSTANTS
    Jobs = {j1, j2}
    NoJob = NoJob
    Workers = {w1, w2, w3}
    Producer = Producer
    JsonbAsDict = {w1, Producer}
    IntervalAsText = {w1, w2}
    MaxAttempts = 2
    StaleAfter = 1
    HeartbeatEvery = 1
    RetryDelays = {1}
    Punctual = {}
    MaxLag = 0
    MaxFaults = 1
SYMMETRY Symmetry
SPECIFICATION Spec
PROPERTIES
    ImplementsLifecycle
