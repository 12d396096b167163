\* Trips: two relays; a message the broker takes beside one it always refuses.
\* Progress: two events of one request, two publishers, two consumers, two faults.
\* Calls: seven calls to two worlds; the sixth does not fit a frame.
SPECIFICATION WaysSpec
CONSTANTS
    m1 = m1
    m2 = m2
    Messages = {m1, m2}
    Relays = {r1, r2}
    Refused <- MCRefused
    Doublings = 2
    NoRelay = NoRelay
    NoMessage = NoMessage
    Rows = {1, 2}
    Publishers = {p1, p2}
    Consumers = {c1, c2}
    Nobody = Nobody
    MaxExtra = 1
    MaxFaults = 2
    Calls <- MCCalls
    Worlds <- MCWorlds
    MaxFrame = 1
INVARIANTS MarkedIsInTopic CommittedIsApplied AnswersAreTrue
PROPERTIES EveryEventPublished ProgressArrives CallsReturn NothingLeftRunning
CHECK_DEADLOCK FALSE
