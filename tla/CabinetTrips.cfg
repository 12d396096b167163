\* Two trips, two serve processes that expire one trip per pass.
SPECIFICATION FairSpec
CONSTANTS
    Requests = {q1, q2}
    Servers = {v1, v2}
    Batch = 1
    Feed <- MCFeed
INVARIANTS EventsTellStatus
PROPERTIES OverdueEnds
CHECK_DEADLOCK FALSE
