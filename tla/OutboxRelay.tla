----------------------------- MODULE OutboxRelay -----------------------------
(***************************************************************************)
(* The publish-outbox processes of Cabinet: each claims one committed      *)
(* event under a lease, publishes it to the broker outside any             *)
(* transaction, and acknowledges it or puts it back with a delay. A write  *)
(* that timed out may still reach the broker, and a relay may stop or lose *)
(* its lease at any point.                                                 *)
(***************************************************************************)
EXTENDS Naturals, Sequences, FiniteSets, SequencesExt

CONSTANTS
    Messages,   \* rows of outbox_events
    Relays,     \* publish-outbox processes
    Refused,    \* messages the broker never takes, such as ones too large for it
    Doublings,  \* claims of a row until its retry delay is retry_max
    NoRelay,    \* the NULL lease token
    NoMessage   \* what an idle relay holds

ASSUME NoRelayAssumption == NoRelay \notin Relays
ASSUME NoMessageAssumption == NoMessage \notin Messages
ASSUME RefusedAssumption == Refused \subseteq Messages
ASSUME DoublingsAssumption == Doublings \in Nat \ {0}

VARIABLES
    row,       \* state, lease and attempts of each row; attempts is capped at Doublings
    queue,     \* the unpublished rows in the order of available_at
    due,       \* the rows whose available_at has passed
    relay,     \* what each process is doing, and with which message
    inflight,  \* messages whose write failed for the relay but not for the broker
    landed     \* messages in the topic, at least once each

vars == <<row, queue, due, relay, inflight, landed>>

------------------------------------------------------------------------------
Row ==
    [state : {"absent", "pending", "published"}, holder : Relays \cup {NoRelay},
     lease : {"none", "live", "lapsed"}, attempts : 0..Doublings]

NoRow == [state |-> "absent", holder |-> NoRelay, lease |-> "none", attempts |-> 0]

Relay ==
    [pc : {"idle", "publishing", "published", "failed"}, message : Messages \cup {NoMessage}]

Idle == [pc |-> "idle", message |-> NoMessage]

Init ==
    /\ row = [m \in Messages |-> NoRow]
    /\ queue = <<>>
    /\ due = {}
    /\ relay = [r \in Relays |-> Idle]
    /\ inflight = {}
    /\ landed = {}

Without(s, m) == SelectSeq(s, LAMBDA x : x # m)

------------------------------------------------------------------------------
\* A transaction of Cabinet commits the event; it is due at once, after those already due.
Commit(m) ==
    /\ row[m].state = "absent"
    /\ row' = [row EXCEPT ![m].state = "pending"]
    /\ queue' = InsertAt(queue, Cardinality(due) + 1, m)
    /\ due' = due \cup {m}
    /\ UNCHANGED <<relay, inflight, landed>>

\* available_at passes, for the rows in their order.
BecomesDue(m) ==
    /\ m \notin due
    /\ \E i \in DOMAIN queue : queue[i] = m /\ \A j \in 1..(i - 1) : queue[j] \in due
    /\ due' = due \cup {m}
    /\ UNCHANGED <<row, queue, relay, inflight, landed>>

LeaseLapses(m) ==
    /\ row[m].lease = "live"
    /\ row' = [row EXCEPT ![m].lease = "lapsed"]
    /\ UNCHANGED <<queue, due, relay, inflight, landed>>

------------------------------------------------------------------------------
\* Mutant of Claimable: rows whose relay is gone are not taken over.
NeverLeased(m) == m \in due /\ row[m].lease = "none"

Claimable(m) == m \in due /\ row[m].lease # "live"

\* A row under a new lease.
Leased(b, r) ==
    [b EXCEPT !.holder = r, !.lease = "live",
              !.attempts = IF @ < Doublings THEN @ + 1 ELSE @]

\* ClaimOutbox: the first row of the queue that is due and not leased.
Claim(r) ==
    /\ relay[r].pc = "idle"
    /\ \E i \in DOMAIN queue :
          /\ Claimable(queue[i])
          /\ \A j \in 1..(i - 1) : ~Claimable(queue[j])
          /\ row' = [row EXCEPT ![queue[i]] = Leased(@, r)]
          /\ relay' = [relay EXCEPT ![r] = [pc |-> "publishing", message |-> queue[i]]]
    /\ UNCHANGED <<queue, due, inflight, landed>>

PublishSucceeds(r) ==
    /\ relay[r].pc = "publishing"
    /\ relay[r].message \notin Refused
    /\ landed' = landed \cup {relay[r].message}
    /\ relay' = [relay EXCEPT ![r].pc = "published"]
    /\ UNCHANGED <<row, queue, due, inflight>>

\* A refusal, a broker that is down, or a timeout after which the write may go on.
PublishFails(r) ==
    /\ relay[r].pc = "publishing"
    /\ relay' = [relay EXCEPT ![r].pc = "failed"]
    /\ \/ inflight' = inflight
       \/ inflight' = inflight \cup ({relay[r].message} \ Refused)
    /\ UNCHANGED <<row, queue, due, landed>>

WriteLands(m) ==
    /\ m \in inflight
    /\ inflight' = inflight \ {m}
    /\ landed' = landed \cup {m}
    /\ UNCHANGED <<row, queue, due, relay>>

WriteLost(m) ==
    /\ m \in inflight
    /\ inflight' = inflight \ {m}
    /\ UNCHANGED <<row, queue, due, relay, landed>>

------------------------------------------------------------------------------
\* finishOutbox compares the token, not the time of the lease.
Owned(r, m) == row[m].state = "pending" /\ row[m].holder = r

\* Mutant of Acknowledges: a failed publication is acknowledged as well.
AnyOutcome(r) == relay[r].pc \in {"published", "failed"}

Acknowledges(r) == relay[r].pc = "published"

AckOutbox(r) ==
    LET m == relay[r].message IN
    /\ Acknowledges(r)
    /\ Owned(r, m)
    /\ row' = [row EXCEPT ![m] =
           [@ EXCEPT !.state = "published", !.holder = NoRelay, !.lease = "none"]]
    /\ queue' = Without(queue, m)
    /\ due' = due \ {m}
    /\ relay' = [relay EXCEPT ![r] = Idle]
    /\ UNCHANGED <<inflight, landed>>

\* retryDelay doubles with the attempts up to retry_max: the row goes behind what is
\* due now, and behind every other row once its delay is the longest there is.
Delayed(m) ==
    LET others == Without(queue, m)
        last == Len(others) + 1
        first == IF row[m].attempts < Doublings THEN Cardinality(due \ {m}) + 1 ELSE last
    IN {InsertAt(others, i, m) : i \in first..last}

RetryOutbox(r) ==
    LET m == relay[r].message IN
    /\ relay[r].pc = "failed"
    /\ Owned(r, m)
    /\ row' = [row EXCEPT ![m].holder = NoRelay, ![m].lease = "none"]
    /\ queue' \in Delayed(m)
    /\ due' = due \ {m}
    /\ relay' = [relay EXCEPT ![r] = Idle]
    /\ UNCHANGED <<inflight, landed>>

\* The row was claimed by another relay or is published: nothing is written.
LeaseLost(r) ==
    /\ relay[r].pc \in {"published", "failed"}
    /\ ~Owned(r, relay[r].message)
    /\ relay' = [relay EXCEPT ![r] = Idle]
    /\ UNCHANGED <<row, queue, due, inflight, landed>>

\* A crash, a shutdown that keeps the lease, or a failed transaction.
RelayStops(r) ==
    /\ relay[r].pc # "idle"
    /\ relay' = [relay EXCEPT ![r] = Idle]
    /\ UNCHANGED <<row, queue, due, inflight, landed>>

------------------------------------------------------------------------------
Finishes(r) == AckOutbox(r) \/ RetryOutbox(r) \/ LeaseLost(r)

Next ==
    \/ \E m \in Messages :
          Commit(m) \/ BecomesDue(m) \/ LeaseLapses(m) \/ WriteLands(m) \/ WriteLost(m)
    \/ \E r \in Relays :
          Claim(r) \/ PublishSucceeds(r) \/ PublishFails(r) \/ Finishes(r) \/ RelayStops(r)

Spec == Init /\ [][Next]_vars

(***************************************************************************)
(* Time passes for leases and delays. Any relay may stop, stall beyond its *)
(* lease or fail to write for ever, and the broker may be away, but not    *)
(* all of them every time: a lease is longer than one publication and two  *)
(* transactions (Outbox.Validate), so some relay that runs on finishes     *)
(* what it claimed.                                                        *)
(***************************************************************************)
\* The answer of a broker that is up, given within the lease.
Answered(r, m) ==
    /\ relay[r].message = m /\ Owned(r, m)
    /\ IF m \in Refused THEN PublishFails(r) ELSE PublishSucceeds(r)

Fairness ==
    /\ \A m \in Messages :
          /\ WF_vars(BecomesDue(m)) /\ WF_vars(LeaseLapses(m))
          /\ SF_vars(\E r \in Relays : Answered(r, m))
    /\ WF_vars(\E r \in Relays : PublishFails(r) \/ LeaseLost(r))
    /\ SF_vars(\E r \in Relays : Claim(r))
    /\ SF_vars(\E r \in Relays : AckOutbox(r))
    /\ SF_vars(\E r \in Relays : RetryOutbox(r))

FairSpec == Spec /\ Fairness

------------------------------------------------------------------------------
(***************************************************************************)
(* An event is marked published only once it is in the topic, even when    *)
(* relays stop, time out or act on a lease they have lost.                 *)
(***************************************************************************)
PublishedIsInTopic == \A m \in Messages : row[m].state = "published" => m \in landed

(***************************************************************************)
(* Every committed event the broker can take is published and marked so,   *)
(* also behind one the broker always refuses.                              *)
(***************************************************************************)
EveryEventPublished ==
    \A m \in Messages \ Refused : row[m].state = "pending" ~> row[m].state = "published"

==============================================================================
