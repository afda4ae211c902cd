\* The pool as database.py makes it, without codecs, against run_worker's docstring.
CONSTANTS
    Jobs = {j1}
    NoJob = NoJob
    Workers = {w1, w2}
    Producer = Producer
    JsonbAsDict = {}
    IntervalAsText = {}
    MaxAttempts = 2
    StaleAfter = 1
    HeartbeatEvery = 1
    RetryDelays = {1}
    Punctual = {}
    MaxLag = 0
    MaxFaults = 1
SPECIFICATION Spec
PROPERTIES
    ClaimsUntilStopped
