\* Two requests, two processes, re-checks on.
SPECIFICATION FairSpec
CONSTANTS
    Requests = {q1, q2}
    Workers = {w1, w2}
    Rechecks = TRUE
    NoWorker = NoWorker
    NoRequest = NoRequest
INVARIANTS ShownIsSaved NothingForgotten
PROPERTIES ReportKept ChecksMade
CHECK_DEADLOCK FALSE
