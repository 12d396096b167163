\* One trip, one serve process, two build-routes processes with a source each, two attempts.
SPECIFICATION FairSpec
CONSTANTS
    Requests = {q1}
    Servers = {v1}
    Batch = 1
    Workers = {w1, w2}
    w1 = w1
    w2 = w2
    NoWorker = NoWorker
    NoRequest = NoRequest
    Members <- MCMembers
    Results <- MCOneResult
    MaxAttempts = 2
INVARIANTS EndingsAgree ProgressAccepted ProjectionConverges
PROPERTIES ActiveTripAnswered CancelStopsSearch
CHECK_DEADLOCK FALSE
