\* One request that expires during its check.
SPECIFICATION FairSpec
CONSTANTS
    Requests = {q1}
    Workers = {w1}
    Rechecks = TRUE
    NoWorker = NoWorker
    NoRequest = NoRequest
PROPERTIES RunningEnds
CHECK_DEADLOCK FALSE
