\* One request, two processes, three attempts (the default): every race on one job.
SPECIFICATION Spec
CONSTANTS
    Requests = {q1}
    Workers = {w1, w2}
    w1 = w1
    w2 = w2
    NoWorker = NoWorker
    NoRequest = NoRequest
    Members <- MCMembers
    Results <- MCResults
    MaxAttempts = 3
INVARIANTS AggregateBarrier HistoryAddsUp
PROPERTIES SilentAfterCancel OnlyCurrentAttempt ImplementsLifecycle
CHECK_DEADLOCK FALSE
