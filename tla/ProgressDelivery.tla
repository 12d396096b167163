--------------------------- MODULE ProgressDelivery ---------------------------
(***************************************************************************)
(* The way of a progress event from Search to Cabinet: publish-progress    *)
(* processes claim the rows of progress_outbox under a lease, write them   *)
(* to the topic and mark them (buildroutes.go); a group of                 *)
(* consume-progress processes reads the topic, applies each message in a   *)
(* transaction and commits its offset (progress.Consumer; consumer.Consumer*)
(* of Search is the same loop). Any process may stop between two steps,    *)
(* and the partition may pass to another consumer at any point.            *)
(*                                                                         *)
(* Row n is the n-th in the order of (request_id, revision) of one         *)
(* request; a later one supersedes it.                                     *)
(***************************************************************************)
EXTENDS Naturals, Sequences, FiniteSets, SequencesExt, FiniteSetsExt

CONSTANTS
    Rows,           \* the rows of progress_outbox, 1..n
    Publishers,     \* publish-progress processes
    Consumers,      \* consume-progress processes
    Nobody,         \* the NULL lease token, and no owner of the partition
    MaxExtra,       \* bound: repeated messages kept in the topic
    MaxFaults       \* bound: stops, failed writes, late leases and partitions that move

VARIABLES
    outbox,     \* the rows: [state, holder, lease]
    publisher,  \* per process: [pc, row]
    late,       \* rows whose write timed out and may still reach the topic
    topic,      \* the partition: a sequence of rows
    committed,  \* messages of the partition the group has committed
    owner,      \* the consumer that has the partition
    consumer,   \* per process: [pc, at], at is the message it has or reads next
    applied,    \* messages applied to Cabinet's database
    shown,      \* the revision Cabinet shows, 0 before the first
    faults      \* faults so far, see MaxFaults

vars == <<outbox, publisher, late, topic, committed, owner, consumer, applied, shown, faults>>

Init ==
    /\ outbox = [n \in Rows |-> [state |-> "absent", holder |-> Nobody, lease |-> "none"]]
    /\ publisher = [p \in Publishers |-> [pc |-> "idle", row |-> 0]]
    /\ late = {} /\ topic = <<>> /\ committed = 0
    /\ owner \in Consumers
    /\ consumer = [c \in Consumers |-> [pc |-> "idle", at |-> 1]]
    /\ applied = {} /\ shown = 0 /\ faults = 0

Fault == faults < MaxFaults /\ faults' = faults + 1

------------------------------------------------------------------------------
(* publish-progress *)
\* A transition of the job writes its event in the same transaction.
Emit(n) ==
    /\ outbox[n].state = "absent" /\ \A k \in Rows : k < n => outbox[k].state # "absent"
    /\ outbox' = [outbox EXCEPT ![n].state = "pending"]
    /\ UNCHANGED <<publisher, late, topic, committed, owner, consumer, applied, shown, faults>>

\* Of a publisher that is gone, or in the middle of its work.
LeaseLapses(n) ==
    /\ outbox[n].lease = "live"
    /\ \/ publisher[outbox[n].holder].row # n /\ UNCHANGED faults
       \/ publisher[outbox[n].holder].row = n /\ Fault
    /\ outbox' = [outbox EXCEPT ![n].lease = "lapsed"]
    /\ UNCHANGED <<publisher, late, topic, committed, owner, consumer, applied, shown>>

\* Mutant of Claimable: a lease that has passed is not taken over.
ClaimedOnce(n) == outbox[n].state = "pending" /\ outbox[n].lease = "none"

Claimable(n) == outbox[n].state = "pending" /\ outbox[n].lease # "live"

\* A row under a lease lets later revisions overtake it.
ClaimProgress(p) ==
    /\ publisher[p].pc = "idle"
    /\ \E n \in Rows :
         /\ Claimable(n) /\ \A k \in Rows : Claimable(k) => n <= k
         /\ outbox' = [outbox EXCEPT ![n].holder = p, ![n].lease = "live"]
         /\ publisher' = [publisher EXCEPT ![p] = [pc |-> "writing", row |-> n]]
    /\ UNCHANGED <<late, topic, committed, owner, consumer, applied, shown, faults>>

Written(n) ==
    LET full == n \in Range(topic) /\ Len(topic) = Cardinality(Range(topic)) + MaxExtra
    IN topic' = IF full THEN topic ELSE Append(topic, n)

Write(p) ==
    /\ publisher[p].pc = "writing"
    /\ Written(publisher[p].row)
    /\ publisher' = [publisher EXCEPT ![p].pc = "written"]
    /\ UNCHANGED <<outbox, late, committed, owner, consumer, applied, shown, faults>>

\* The row keeps its lease: it is tried again once that has passed.
WriteFails(p) ==
    /\ publisher[p].pc = "writing"
    /\ Fault
    /\ late' \in {late, late \cup {publisher[p].row}}
    /\ publisher' = [publisher EXCEPT ![p] = [pc |-> "idle", row |-> 0]]
    /\ UNCHANGED <<outbox, topic, committed, owner, consumer, applied, shown>>

LateWrite(n) ==
    /\ n \in late /\ late' = late \ {n}
    /\ Written(n) \/ topic' = topic
    /\ UNCHANGED <<outbox, publisher, committed, owner, consumer, applied, shown, faults>>

\* Mutant of Marks: the row is marked whatever became of the write.
MarksAnyway(p) == publisher[p].pc \in {"writing", "written"}

Marks(p) == publisher[p].pc = "written"

\* Nothing is marked, and nothing said, once the lease has passed.
AckProgress(p) ==
    LET n == publisher[p].row IN
    /\ Marks(p)
    /\ outbox' = IF outbox[n].holder = p /\ outbox[n].lease = "live"
                 THEN [outbox EXCEPT ![n] = [state |-> "published", holder |-> Nobody, lease |-> "none"]]
                 ELSE outbox
    /\ publisher' = [publisher EXCEPT ![p] = [pc |-> "idle", row |-> 0]]
    /\ UNCHANGED <<late, topic, committed, owner, consumer, applied, shown, faults>>

PublisherStops(p) ==
    /\ publisher[p].pc # "idle"
    /\ Fault
    /\ publisher' = [publisher EXCEPT ![p] = [pc |-> "idle", row |-> 0]]
    /\ UNCHANGED <<outbox, late, topic, committed, owner, consumer, applied, shown>>

------------------------------------------------------------------------------
(* consume-progress *)
\* Mutant of Fetch: offsets are committed as messages are fetched.
FetchAndCommit(c) ==
    /\ owner = c /\ consumer[c].pc = "idle" /\ consumer[c].at <= Len(topic)
    /\ consumer' = [consumer EXCEPT ![c].pc = "fetched"]
    /\ committed' = consumer[c].at
    /\ UNCHANGED <<outbox, publisher, late, topic, owner, applied, shown, faults>>

Fetch(c) ==
    /\ owner = c /\ consumer[c].pc = "idle" /\ consumer[c].at <= Len(topic)
    /\ consumer' = [consumer EXCEPT ![c].pc = "fetched"]
    /\ UNCHANGED <<outbox, publisher, late, topic, committed, owner, applied, shown, faults>>

Newer(n) == Max({n, shown})

\* ApplyProgress: an older revision or a repeated message changes nothing that is shown.
Apply(c) ==
    /\ consumer[c].pc = "fetched"
    /\ applied' = applied \cup {consumer[c].at}
    /\ shown' = Newer(topic[consumer[c].at])
    /\ consumer' = [consumer EXCEPT ![c].pc = "applied"]
    /\ UNCHANGED <<outbox, publisher, late, topic, committed, owner, faults>>

\* Also a consumer that has just lost the partition commits, if the group still knows it.
Commit(c) ==
    /\ consumer[c].pc = "applied"
    /\ committed' = consumer[c].at
    /\ consumer' = [consumer EXCEPT ![c] = [pc |-> "idle", at |-> @.at + 1]]
    /\ UNCHANGED <<outbox, publisher, late, topic, owner, applied, shown, faults>>

\* Any failure ends the process, of the transaction or of a commit that may have been
\* done; it is started again and waits for its turn.
ConsumerStops(c) ==
    /\ consumer[c].pc # "idle" \/ owner = c
    /\ Fault
    /\ consumer' = [consumer EXCEPT ![c].pc = "idle"]
    /\ \/ committed' = committed
       \/ consumer[c].pc = "applied" /\ committed' = consumer[c].at
    /\ owner' = IF owner = c THEN Nobody ELSE owner
    /\ UNCHANGED <<outbox, publisher, late, topic, applied, shown>>

\* The group gives the partition to a consumer that waits for messages.
Rebalance(c) ==
    /\ owner # c /\ consumer[c].pc = "idle"
    /\ IF owner = Nobody THEN UNCHANGED faults ELSE Fault
    /\ owner' = c
    /\ consumer' = [consumer EXCEPT ![c].at = committed + 1]
    /\ UNCHANGED <<outbox, publisher, late, topic, committed, applied, shown>>

------------------------------------------------------------------------------
Publishes(p) == ClaimProgress(p) \/ Write(p) \/ WriteFails(p) \/ AckProgress(p) \/ PublisherStops(p)
Consumes(c) == Fetch(c) \/ Apply(c) \/ Commit(c) \/ ConsumerStops(c) \/ Rebalance(c)

Next ==
    \/ \E n \in Rows : Emit(n) \/ LeaseLapses(n) \/ LateWrite(n)
    \/ \E p \in Publishers : Publishes(p)
    \/ \E c \in Consumers : Consumes(c)

(***************************************************************************)
(* Faults end; a loop that meets none goes on, leases pass, and the group  *)
(* gives a partition without an owner to one of the consumers.             *)
(***************************************************************************)
Fairness ==
    /\ \A n \in Rows : WF_vars(LeaseLapses(n))
    /\ \A p \in Publishers : WF_vars(ClaimProgress(p) \/ Write(p) \/ AckProgress(p))
    /\ \A c \in Consumers : WF_vars(Fetch(c) \/ Apply(c) \/ Commit(c))
    /\ WF_vars(owner = Nobody /\ \E c \in Consumers : Rebalance(c))

Spec == Init /\ [][Next]_vars /\ Fairness

------------------------------------------------------------------------------
(***************************************************************************)
(* No message is skipped: whatever stops, fails to commit or loses the     *)
(* partition, every message up to the committed offset has been applied.   *)
(***************************************************************************)
CommittedIsApplied == 1..committed \subseteq applied

(***************************************************************************)
(* Every progress event comes to be shown, or a later one is: rows whose   *)
(* lease has passed are published again, and messages read again.          *)
(***************************************************************************)
ProgressArrives == \A n \in Rows : outbox[n].state = "pending" ~> shown >= n

(***************************************************************************)
(* A row is marked published only once it is in the topic.                 *)
(***************************************************************************)
MarkedIsInTopic == \A n \in Rows : outbox[n].state = "published" => n \in Range(topic)

==============================================================================
