\* Three workers, one of which heartbeats on time, two jobs, two attempts each and one
\* disturbance of any kind.
CONSTANTS
    Jobs = {j1, j2}
    NoJob = NoJob
    Workers = {w1, w2, w3}
    Producer = Producer
    JsonbAsDict = {w1, w2, w3, Producer}
    IntervalAsText = {w1, w2, w3}
    MaxAttempts = 2
    StaleAfter = 1
    HeartbeatEvery = 1
    RetryDelays = {1}
    Punctual = {w3}
    MaxLag = 0
    MaxFaults = 1
SYMMETRY Symmetry
SPECIFICATION Spec
INVARIANTS
    TypeOK
    OneOwner
    NothingLeftBehind
    PunctualOwnerKeepsLease
PROPERTIES
    SuccessIsEarned
