---------------------------- MODULE DeliveryProofs ----------------------------
(***************************************************************************)
(* Proofs about the ways between the processes, for any rows, relays,      *)
(* publishers, consumers and faults, and any calls and providers. What is  *)
(* proved of the two ways between the services does not rest on the order  *)
(* in which rows are taken, so the queues of the rows do not occur.        *)
(***************************************************************************)
EXTENDS Delivery, SequenceTheorems, TLAPS

------------------------------------------------------------------------------
(***************************************************************************)
(* Cabinet's outbox: a relay says that it has published only after the     *)
(* message has landed, and what has landed stays in the topic.             *)
(***************************************************************************)
RelaysTyped ==
    /\ row \in [Messages -> Row]
    /\ relay = [r \in Relays |-> [pc |-> relay[r].pc, message |-> relay[r].message]]

RelaysTruthful == \A r \in Relays : relay[r].pc = "published" => relay[r].message \in landed

TripsWay == RelaysTyped /\ RelaysTruthful /\ PublishedIsInTopic

LEMMA InitTripsWay == Init => TripsWay
<1> SUFFICES ASSUME Init PROVE TripsWay
  OBVIOUS
<1>1. NoRow \in Row /\ NoRow.state # "published"
  BY DoublingsAssumption DEF NoRow, Row
<1>2. relay = [r \in Relays |-> [pc |-> relay[r].pc, message |-> relay[r].message]]
  BY DEF Init, Idle
<1> QED
  BY <1>1, <1>2 DEF Init, TripsWay, RelaysTyped, RelaysTruthful, PublishedIsInTopic, Idle

\* A relay's record after a step that sets it whole, or its pc alone.
LEMMA RelaySet ==
    ASSUME RelaysTyped, NEW r \in Relays, NEW pc, NEW m,
           \/ relay' = [relay EXCEPT ![r] = [pc |-> pc, message |-> m]]
           \/ relay' = [relay EXCEPT ![r].pc = pc] /\ m = relay[r].message
    PROVE  /\ relay' = [s \in Relays |-> [pc |-> relay'[s].pc, message |-> relay'[s].message]]
           /\ relay'[r].pc = pc /\ relay'[r].message = m
           /\ \A s \in Relays : s # r => relay'[s] = relay[s]
<1>1. relay[r] = [pc |-> relay[r].pc, message |-> relay[r].message] /\ DOMAIN relay = Relays
  BY DEF RelaysTyped
<1>2. relay' = [relay EXCEPT ![r] = [pc |-> pc, message |-> m]]
  BY <1>1
<1>3. relay' = [s \in Relays |-> IF s = r THEN [pc |-> pc, message |-> m] ELSE relay[s]]
  BY <1>1, <1>2
<1> QED
  BY <1>1, <1>3 DEF RelaysTyped

LEMMA LeasedType ==
    ASSUME NEW b \in Row, NEW r \in Relays
    PROVE  Leased(b, r) \in Row /\ Leased(b, r).state = b.state
<1> DEFINE n == IF b.attempts < Doublings THEN b.attempts + 1 ELSE b.attempts
<1>1. n \in 0..Doublings
  BY DoublingsAssumption DEF Row
<1>2. Leased(b, r) = [b EXCEPT !.holder = r, !.lease = "live", !.attempts = n]
  BY DEF Leased
<1> HIDE DEF n
<1> QED
  BY <1>1, <1>2 DEF Row

\* A change of one row that keeps its state, or publishes what has landed.
LEMMA RowSet ==
    ASSUME RelaysTyped, PublishedIsInTopic, NEW m, NEW new \in Row,
           row' = [row EXCEPT ![m] = new], landed \subseteq landed',
           m \in Messages => new.state = row[m].state \/ new.state # "published" \/ m \in landed
    PROVE  row' \in [Messages -> Row] /\ PublishedIsInTopic'
BY DEF RelaysTyped, PublishedIsInTopic

LEMMA NextTripsWay ==
    ASSUME TripsWay, [Next]_vars
    PROVE  TripsWay'
<1> USE DEF TripsWay
<1>1. CASE UNCHANGED vars
  BY <1>1 DEF vars, RelaysTyped, RelaysTruthful, PublishedIsInTopic
<1>2. ASSUME NEW m \in Messages, Commit(m) \/ LeaseLapses(m)
      PROVE  TripsWay'
  <2>1. row[m] \in Row
    BY DEF RelaysTyped
  <2>2. PICK new \in Row : row' = [row EXCEPT ![m] = new]
                           /\ (new.state = row[m].state \/ new.state # "published")
    <3>1. CASE Commit(m)
      <4>1. [row[m] EXCEPT !.state = "pending"] \in Row
        BY <2>1 DEF Row
      <4>2. [row[m] EXCEPT !.state = "pending"].state = "pending"
        BY <2>1 DEF Row
      <4>3. row' = [row EXCEPT ![m] = [row[m] EXCEPT !.state = "pending"]]
        BY <3>1 DEF Commit
      <4> QED
        BY <4>1, <4>2, <4>3
    <3>2. CASE LeaseLapses(m)
      <4>1. [row[m] EXCEPT !.lease = "lapsed"] \in Row
        BY <2>1 DEF Row
      <4>2. [row[m] EXCEPT !.lease = "lapsed"].state = row[m].state
        BY <2>1 DEF Row
      <4>3. row' = [row EXCEPT ![m] = [row[m] EXCEPT !.lease = "lapsed"]]
        BY <3>2 DEF LeaseLapses
      <4> QED
        BY <4>1, <4>2, <4>3
    <3> QED
      BY <1>2, <3>1, <3>2
  <2>3. UNCHANGED <<relay, landed>>
    BY <1>2 DEF Commit, LeaseLapses
  <2>4. row' \in [Messages -> Row] /\ PublishedIsInTopic'
    BY <2>2, <2>3, RowSet
  <2> QED
    BY <2>3, <2>4 DEF RelaysTyped, RelaysTruthful
<1>3. ASSUME NEW m \in Messages, BecomesDue(m) \/ WriteLands(m) \/ WriteLost(m)
      PROVE  TripsWay'
  BY <1>3 DEF BecomesDue, WriteLands, WriteLost, RelaysTyped, RelaysTruthful, PublishedIsInTopic
<1>4. ASSUME NEW r \in Relays, Claim(r)
      PROVE  TripsWay'
  <2>1. PICK m : /\ row' = [row EXCEPT ![m] = Leased(row[m], r)]
                 /\ relay' = [relay EXCEPT ![r] = [pc |-> "publishing", message |-> m]]
    BY <1>4 DEF Claim
  <2>2. UNCHANGED landed
    BY <1>4 DEF Claim
  <2>3. row' \in [Messages -> Row] /\ PublishedIsInTopic'
    <3>1. CASE m \in Messages
      <4>1. row[m] \in Row
        BY <3>1 DEF RelaysTyped
      <4>2. Leased(row[m], r) \in Row /\ Leased(row[m], r).state = row[m].state
        BY <4>1, LeasedType
      <4> QED
        BY <2>1, <2>2, <4>2, RowSet
    <3>2. CASE m \notin Messages
      <4>1. row' = row
        BY <2>1, <3>2 DEF RelaysTyped
      <4> QED
        BY <2>2, <4>1 DEF RelaysTyped, PublishedIsInTopic
    <3> QED
      BY <3>1, <3>2
  <2> QED
    BY <2>1, <2>2, <2>3, RelaySet DEF RelaysTyped, RelaysTruthful
<1>5. ASSUME NEW r \in Relays, PublishSucceeds(r)
      PROVE  TripsWay'
  <2>1. /\ landed' = landed \cup {relay[r].message} /\ relay' = [relay EXCEPT ![r].pc = "published"]
        /\ UNCHANGED row
    BY <1>5 DEF PublishSucceeds
  <2>2. RelaysTyped' /\ relay'[r].message = relay[r].message
        /\ \A s \in Relays : s # r => relay'[s] = relay[s]
    BY <2>1, RelaySet DEF RelaysTyped
  <2> QED
    BY <2>1, <2>2 DEF RelaysTruthful, PublishedIsInTopic
<1>6. ASSUME NEW r \in Relays, PublishFails(r)
      PROVE  TripsWay'
  <2>1. relay' = [relay EXCEPT ![r].pc = "failed"] /\ UNCHANGED <<row, landed>>
    BY <1>6 DEF PublishFails
  <2>2. RelaysTyped' /\ relay'[r].pc = "failed"
        /\ \A s \in Relays : s # r => relay'[s] = relay[s]
    BY <2>1, RelaySet DEF RelaysTyped
  <2> QED
    BY <2>1, <2>2 DEF RelaysTruthful, PublishedIsInTopic
<1>7. ASSUME NEW r \in Relays, relay' = [relay EXCEPT ![r] = Idle], UNCHANGED <<row, landed>>
      PROVE  TripsWay'
  BY <1>7, RelaySet DEF Idle, RelaysTyped, RelaysTruthful, PublishedIsInTopic
<1>8. ASSUME NEW r \in Relays, AckOutbox(r) \/ RetryOutbox(r)
      PROVE  TripsWay'
  <2> DEFINE m == relay[r].message
  <2>1. relay' = [relay EXCEPT ![r] = Idle] /\ UNCHANGED landed
    BY <1>8 DEF AckOutbox, RetryOutbox
  <2>2. row' \in [Messages -> Row] /\ PublishedIsInTopic'
    <3>1. CASE m \notin Messages
      <4>1. row' = row
        BY <1>8, <3>1 DEF AckOutbox, RetryOutbox, RelaysTyped
      <4> QED
        BY <2>1, <4>1 DEF RelaysTyped, PublishedIsInTopic
    <3>2. CASE m \in Messages
      <4>1. row[m] \in Row
        BY <3>2 DEF RelaysTyped
      <4>2. CASE AckOutbox(r)
        <5> DEFINE new == [row[m] EXCEPT !.state = "published", !.holder = NoRelay, !.lease = "none"]
        <5>1. new \in Row
          BY <4>1 DEF Row
        <5>2. m \in landed
          BY <4>2 DEF AckOutbox, Acknowledges, RelaysTruthful
        <5>3. row' = [row EXCEPT ![m] = new]
          BY <4>2 DEF AckOutbox
        <5> HIDE DEF new, m
        <5> QED
          BY <2>1, <5>1, <5>2, <5>3, RowSet
      <4>3. CASE RetryOutbox(r)
        <5> DEFINE new == [row[m] EXCEPT !.holder = NoRelay, !.lease = "none"]
        <5>1. new \in Row /\ new.state = row[m].state
          BY <4>1 DEF Row
        <5>2. row' = [row EXCEPT ![m] = new]
          BY <4>1, <4>3 DEF RetryOutbox, Row, RelaysTyped
        <5> HIDE DEF new, m
        <5> QED
          BY <2>1, <5>1, <5>2, RowSet
      <4> QED
        BY <1>8, <4>2, <4>3
    <3> QED
      BY <3>1, <3>2
  <2> QED
    BY <2>1, <2>2, RelaySet DEF Idle, RelaysTyped, RelaysTruthful
<1> QED
  BY <1>1, <1>2, <1>3, <1>4, <1>5, <1>6, <1>7, <1>8 DEF Next, Finishes, LeaseLost, RelayStops

------------------------------------------------------------------------------
(***************************************************************************)
(* The progress events: a publisher that says written has written, and     *)
(* every message before the one a consumer is at has been applied, by it   *)
(* or by a consumer before it.                                             *)
(***************************************************************************)
OutboxRow ==
    [state : {"absent", "pending", "published"}, holder : Publishers \cup {Nobody},
     lease : {"none", "live", "lapsed"}]

PublishersTyped ==
    /\ outbox \in [Rows -> OutboxRow]
    /\ publisher \in [Publishers -> {[pc |-> "idle", row |-> 0]} \cup [pc : {"writing", "written"}, row : Rows]]
    /\ late \subseteq Rows
    /\ topic \in Seq(Rows)

PublishersTruthful ==
    \A p \in Publishers : publisher[p].pc = "written" => publisher[p].row \in Progress!Range(topic)

ConsumersTyped ==
    /\ committed \in Nat
    /\ consumer \in [Consumers -> [pc : {"idle", "fetched", "applied"}, at : Nat \ {0}]]

NothingSkipped ==
    \A c \in Consumers :
        /\ 1..(consumer[c].at - 1) \subseteq applied
        /\ consumer[c].pc = "applied" => consumer[c].at \in applied

PublishWay == PublishersTyped /\ PublishersTruthful /\ Progress!MarkedIsInTopic

ConsumeWay == ConsumersTyped /\ NothingSkipped /\ CommittedIsApplied

LEMMA InitPublishWay == Progress!Init => PublishWay
<1> SUFFICES ASSUME Progress!Init PROVE PublishWay
  OBVIOUS
<1>1. [state |-> "absent", holder |-> Nobody, lease |-> "none"] \in OutboxRow
  BY DEF OutboxRow
<1> QED
  BY <1>1 DEF Progress!Init, PublishWay, PublishersTyped, PublishersTruthful, Progress!MarkedIsInTopic

LEMMA InitConsumeWay == Progress!Init => ConsumeWay
BY DEF Progress!Init, ConsumeWay, ConsumersTyped, NothingSkipped, CommittedIsApplied,
       Progress!CommittedIsApplied

\* What is written is in the topic, with all that was there before.
LEMMA WrittenLands ==
    ASSUME topic \in Seq(Rows), NEW n \in Rows, Progress!Written(n)
    PROVE  /\ topic' \in Seq(Rows)
           /\ Progress!Range(topic) \subseteq Progress!Range(topic')
           /\ n \in Progress!Range(topic')
<1>1. CASE topic' = Append(topic, n)
  <2>1. topic' \in Seq(Rows) /\ Len(topic') = Len(topic) + 1
    BY <1>1
  <2>2. \A i \in 1..Len(topic) : topic'[i] = topic[i]
    BY <1>1
  <2>3. topic'[Len(topic) + 1] = n
    BY <1>1
  <2> QED
    BY <2>1, <2>2, <2>3 DEF Progress!Range
<1>2. CASE n \in Progress!Range(topic) /\ topic' = topic
  BY <1>2
<1> QED
  BY <1>1, <1>2 DEF Progress!Written

LEMMA MoreInTopic ==
    ASSUME PublishWay, topic' \in Seq(Rows),
           Progress!Range(topic) \subseteq Progress!Range(topic'),
           UNCHANGED <<outbox, publisher>>, late' \subseteq Rows
    PROVE  PublishWay'
BY DEF PublishWay, PublishersTyped, PublishersTruthful, Progress!MarkedIsInTopic

\* A step of one publisher that does not write.
LEMMA PublisherSet ==
    ASSUME PublishWay, NEW p \in Publishers,
           NEW new \in {[pc |-> "idle", row |-> 0]} \cup [pc : {"writing"}, row : Rows],
           publisher' = [publisher EXCEPT ![p] = new],
           outbox' \in [Rows -> OutboxRow],
           \A n \in Rows : outbox'[n].state = "published" =>
               outbox[n].state = "published" \/ n \in Progress!Range(topic),
           late' \subseteq Rows, UNCHANGED topic
    PROVE  PublishWay'
<1>1. /\ publisher'[p] = new /\ new.pc # "written"
      /\ \A o \in Publishers : o # p => publisher'[o] = publisher[o]
  BY DEF PublishWay, PublishersTyped
<1>2. PublishersTyped'
  BY DEF PublishWay, PublishersTyped
<1> QED
  BY <1>1, <1>2 DEF PublishWay, PublishersTruthful, Progress!MarkedIsInTopic

LEMMA PublishesKeep ==
    ASSUME PublishWay, NEW p \in Publishers, Progress!Publishes(p)
    PROVE  PublishWay'
<1> USE DEF PublishWay
<1>1. publisher[p] \in {[pc |-> "idle", row |-> 0]} \cup [pc : {"writing", "written"}, row : Rows]
  BY DEF PublishersTyped
<1>2. CASE Progress!ClaimProgress(p)
  <2>1. PICK n \in Rows : /\ outbox' = [outbox EXCEPT ![n].holder = p, ![n].lease = "live"]
                          /\ publisher' = [publisher EXCEPT ![p] = [pc |-> "writing", row |-> n]]
    BY <1>2 DEF Progress!ClaimProgress
  <2> DEFINE new == [outbox[n] EXCEPT !.holder = p, !.lease = "live"]
  <2>2. outbox[n] \in OutboxRow
    BY DEF PublishersTyped
  <2>3. new \in OutboxRow /\ new.state = outbox[n].state
    BY <2>2 DEF OutboxRow
  <2>4. outbox' = [outbox EXCEPT ![n] = new]
    BY <2>1, <2>2 DEF OutboxRow, PublishersTyped
  <2> HIDE DEF new
  <2>5. /\ outbox' \in [Rows -> OutboxRow]
        /\ \A k \in Rows : outbox'[k].state = outbox[k].state
    BY <2>3, <2>4 DEF PublishersTyped
  <2> QED
    BY <1>2, <2>1, <2>5, PublisherSet DEF Progress!ClaimProgress, PublishersTyped
<1>3. CASE Progress!Write(p)
  <2>1. /\ publisher[p].pc = "writing" /\ publisher[p].row \in Rows
        /\ Progress!Written(publisher[p].row)
        /\ publisher' = [publisher EXCEPT ![p].pc = "written"] /\ UNCHANGED <<outbox, late>>
    BY <1>1, <1>3 DEF Progress!Write
  <2>2. /\ topic' \in Seq(Rows)
        /\ Progress!Range(topic) \subseteq Progress!Range(topic')
        /\ publisher[p].row \in Progress!Range(topic')
    BY <2>1, WrittenLands DEF PublishersTyped
  <2>3. publisher' = [publisher EXCEPT ![p] = [pc |-> "written", row |-> publisher[p].row]]
    <3>1. publisher[p] = [pc |-> "writing", row |-> publisher[p].row]
      BY <1>1, <2>1
    <3>2. [publisher[p] EXCEPT !.pc = "written"] = [pc |-> "written", row |-> publisher[p].row]
      BY <3>1
    <3> QED
      BY <2>1, <3>2
  <2>4. PublishersTyped'
    BY <2>1, <2>2, <2>3 DEF PublishersTyped
  <2>5. PublishersTruthful'
    BY <2>2, <2>3 DEF PublishersTruthful, PublishersTyped
  <2> QED
    BY <2>1, <2>2, <2>4, <2>5 DEF Progress!MarkedIsInTopic
<1>4. CASE Progress!WriteFails(p)
  <2>1. /\ publisher' = [publisher EXCEPT ![p] = [pc |-> "idle", row |-> 0]]
        /\ late' \subseteq Rows /\ UNCHANGED <<outbox, topic>>
    BY <1>1, <1>4 DEF Progress!WriteFails, PublishersTyped
  <2> QED
    BY <2>1, PublisherSet DEF PublishersTyped
<1>5. CASE Progress!AckProgress(p)
  <2> DEFINE n == publisher[p].row
  <2>1. /\ publisher[p].pc = "written" /\ n \in Rows /\ n \in Progress!Range(topic)
        /\ publisher' = [publisher EXCEPT ![p] = [pc |-> "idle", row |-> 0]]
        /\ UNCHANGED <<late, topic>>
    BY <1>1, <1>5 DEF Progress!AckProgress, Progress!Marks, PublishersTruthful
  <2>2. \/ outbox' = [outbox EXCEPT ![n] = [state |-> "published", holder |-> Nobody, lease |-> "none"]]
        \/ outbox' = outbox
    BY <1>5 DEF Progress!AckProgress
  <2> HIDE DEF n
  <2>3. outbox' \in [Rows -> OutboxRow]
    BY <2>1, <2>2 DEF PublishersTyped, OutboxRow
  <2>4. \A k \in Rows : outbox'[k].state = "published" =>
            outbox[k].state = "published" \/ k \in Progress!Range(topic)
    BY <2>1, <2>2 DEF PublishersTyped
  <2> QED
    BY <2>1, <2>3, <2>4, PublisherSet DEF PublishersTyped
<1>6. CASE Progress!PublisherStops(p)
  BY <1>6, PublisherSet DEF Progress!PublisherStops, PublishersTyped
<1> QED
  BY <1>2, <1>3, <1>4, <1>5, <1>6 DEF Progress!Publishes

LEMMA RowStepsKeep ==
    ASSUME PublishWay, NEW n \in Rows,
           Progress!Emit(n) \/ Progress!LeaseLapses(n) \/ Progress!LateWrite(n)
    PROVE  PublishWay'
<1> USE DEF PublishWay
<1>1. outbox[n] \in OutboxRow
  BY DEF PublishersTyped
<1>2. CASE Progress!LateWrite(n)
  BY <1>2, WrittenLands, MoreInTopic DEF Progress!LateWrite, PublishersTyped
<1>3. CASE Progress!Emit(n) \/ Progress!LeaseLapses(n)
  <2>1. PICK new \in OutboxRow : /\ outbox' = [outbox EXCEPT ![n] = new]
                                 /\ new.state \in {"pending", outbox[n].state}
    <3>1. CASE Progress!Emit(n)
      <4>1. /\ [outbox[n] EXCEPT !.state = "pending"] \in OutboxRow
            /\ [outbox[n] EXCEPT !.state = "pending"].state = "pending"
        BY <1>1 DEF OutboxRow
      <4> QED
        BY <3>1, <4>1 DEF Progress!Emit
    <3>2. CASE Progress!LeaseLapses(n)
      <4>1. /\ [outbox[n] EXCEPT !.lease = "lapsed"] \in OutboxRow
            /\ [outbox[n] EXCEPT !.lease = "lapsed"].state = outbox[n].state
        BY <1>1 DEF OutboxRow
      <4> QED
        BY <3>2, <4>1 DEF Progress!LeaseLapses
    <3> QED
      BY <1>3, <3>1, <3>2
  <2>2. UNCHANGED <<publisher, late, topic>>
    BY <1>3 DEF Progress!Emit, Progress!LeaseLapses
  <2> QED
    BY <2>1, <2>2 DEF PublishersTyped, PublishersTruthful, Progress!MarkedIsInTopic
<1> QED
  BY <1>2, <1>3

\* A step of one consumer.
LEMMA ConsumerSet ==
    ASSUME ConsumersTyped, NothingSkipped, NEW c \in Consumers,
           NEW pc \in {"idle", "fetched", "applied"}, NEW at \in Nat \ {0},
           consumer' = [consumer EXCEPT ![c] = [pc |-> pc, at |-> at]],
           applied \subseteq applied', 1..(at - 1) \subseteq applied',
           pc = "applied" => at \in applied', committed' \in Nat
    PROVE  ConsumersTyped' /\ NothingSkipped'
<1>1. /\ consumer'[c].pc = pc /\ consumer'[c].at = at
      /\ \A d \in Consumers : d # c => consumer'[d] = consumer[d]
  BY DEF ConsumersTyped
<1>2. ConsumersTyped'
  BY DEF ConsumersTyped
<1>3. NothingSkipped'
  BY <1>1 DEF NothingSkipped
<1> QED
  BY <1>2, <1>3

(***************************************************************************)
(* A commit may set the offset back, by a consumer that has just lost the  *)
(* partition: what counts is that it never passes what was applied.        *)
(***************************************************************************)
LEMMA ConsumesKeep ==
    ASSUME ConsumeWay, NEW c \in Consumers, Progress!Consumes(c)
    PROVE  ConsumeWay'
<1> USE DEF ConsumeWay
<1> DEFINE at == consumer[c].at
<1>1. /\ consumer[c] \in [pc : {"idle", "fetched", "applied"}, at : Nat \ {0}]
      /\ consumer[c] = [pc |-> consumer[c].pc, at |-> at] /\ at \in Nat \ {0}
      /\ committed \in Nat /\ 1..(at - 1) \subseteq applied
  BY DEF ConsumersTyped, NothingSkipped
<1>2. ASSUME NEW pc
      PROVE  [consumer EXCEPT ![c].pc = pc] = [consumer EXCEPT ![c] = [pc |-> pc, at |-> at]]
  <2>1. consumer[c] = [pc |-> consumer[c].pc, at |-> at]
    BY <1>1
  <2>2. [consumer[c] EXCEPT !.pc = pc] = [pc |-> pc, at |-> at]
    BY <2>1
  <2> QED
    BY <2>2
<1>3. 1..committed \subseteq applied
  BY DEF CommittedIsApplied, Progress!CommittedIsApplied
<1>4. consumer[c].pc = "applied" => 1..at \subseteq applied
  BY <1>1 DEF NothingSkipped
<1> SUFFICES ConsumersTyped' /\ NothingSkipped' /\ 1..committed' \subseteq applied'
  BY DEF CommittedIsApplied, Progress!CommittedIsApplied
<1>5. CASE Progress!Fetch(c)
  <2>1. /\ consumer' = [consumer EXCEPT ![c] = [pc |-> "fetched", at |-> at]]
        /\ UNCHANGED <<committed, applied>>
    BY <1>2, <1>5 DEF Progress!Fetch
  <2> QED
    BY <1>1, <1>3, <2>1, ConsumerSet
<1>6. CASE Progress!Apply(c)
  <2>1. /\ consumer' = [consumer EXCEPT ![c] = [pc |-> "applied", at |-> at]]
        /\ applied' = applied \cup {at} /\ UNCHANGED committed
    BY <1>2, <1>6 DEF Progress!Apply
  <2> QED
    BY <1>1, <1>3, <2>1, ConsumerSet
<1>7. CASE Progress!Commit(c)
  <2>1. /\ consumer[c].pc = "applied" /\ committed' = at
        /\ consumer' = [consumer EXCEPT ![c] = [pc |-> "idle", at |-> at + 1]]
        /\ UNCHANGED applied
    BY <1>7 DEF Progress!Commit
  <2>2. at + 1 \in Nat \ {0} /\ (at + 1) - 1 = at /\ at \in Nat
    BY <1>1
  <2> QED
    BY <1>4, <2>1, <2>2, ConsumerSet
<1>8. CASE Progress!ConsumerStops(c)
  <2>1. /\ consumer' = [consumer EXCEPT ![c] = [pc |-> "idle", at |-> at]]
        /\ committed' = committed \/ (consumer[c].pc = "applied" /\ committed' = at)
        /\ UNCHANGED applied
    <3>1. /\ consumer' = [consumer EXCEPT ![c].pc = "idle"]
          /\ committed' = committed \/ (consumer[c].pc = "applied" /\ committed' = at)
          /\ UNCHANGED applied
      BY <1>8 DEF Progress!ConsumerStops
    <3>2. consumer' = [consumer EXCEPT ![c] = [pc |-> "idle", at |-> at]]
      BY <1>2, <3>1
    <3> HIDE DEF at
    <3> QED
      BY <3>1, <3>2
  <2> QED
    BY <1>1, <1>3, <1>4, <2>1, ConsumerSet
<1>9. CASE Progress!Rebalance(c)
  <2>1. /\ consumer' = [consumer EXCEPT ![c] = [pc |-> "idle", at |-> committed + 1]]
        /\ UNCHANGED <<committed, applied>>
    <3>1. consumer' = [consumer EXCEPT ![c].at = committed + 1] /\ UNCHANGED <<committed, applied>>
      BY <1>9 DEF Progress!Rebalance
    <3>2. consumer[c] = [pc |-> "idle", at |-> at]
      BY <1>1, <1>9 DEF Progress!Rebalance
    <3>3. [consumer[c] EXCEPT !.at = committed + 1] = [pc |-> "idle", at |-> committed + 1]
      BY <3>2
    <3> QED
      BY <3>1, <3>3
  <2>2. committed + 1 \in Nat \ {0} /\ (committed + 1) - 1 = committed
    BY <1>1
  <2> QED
    BY <1>1, <1>3, <2>1, <2>2, ConsumerSet
<1> QED
  BY <1>5, <1>6, <1>7, <1>8, <1>9 DEF Progress!Consumes

LEMMA NextProgress ==
    ASSUME PublishWay, ConsumeWay, Progress!Next
    PROVE  PublishWay' /\ ConsumeWay'
<1>1. ASSUME NEW n \in Rows, Progress!Emit(n) \/ Progress!LeaseLapses(n) \/ Progress!LateWrite(n)
      PROVE  PublishWay' /\ ConsumeWay'
  <2>1. UNCHANGED <<committed, consumer, applied>>
    BY <1>1 DEF Progress!Emit, Progress!LeaseLapses, Progress!LateWrite
  <2> QED
    BY <1>1, <2>1, RowStepsKeep DEF ConsumeWay, ConsumersTyped, NothingSkipped,
       CommittedIsApplied, Progress!CommittedIsApplied
<1>2. ASSUME NEW p \in Publishers, Progress!Publishes(p)
      PROVE  PublishWay' /\ ConsumeWay'
  <2>1. UNCHANGED <<committed, consumer, applied>>
    BY <1>2 DEF Progress!Publishes, Progress!ClaimProgress, Progress!Write,
       Progress!WriteFails, Progress!AckProgress, Progress!PublisherStops
  <2> QED
    BY <1>2, <2>1, PublishesKeep DEF ConsumeWay, ConsumersTyped, NothingSkipped,
       CommittedIsApplied, Progress!CommittedIsApplied
<1>3. ASSUME NEW c \in Consumers, Progress!Consumes(c)
      PROVE  PublishWay' /\ ConsumeWay'
  <2>1. UNCHANGED <<outbox, publisher, late, topic>>
    BY <1>3 DEF Progress!Consumes, Progress!Fetch, Progress!Apply,
       Progress!Commit, Progress!ConsumerStops, Progress!Rebalance
  <2> QED
    BY <1>3, <2>1, ConsumesKeep, MoreInTopic DEF PublishWay, PublishersTyped
<1> QED
  BY <1>1, <1>2, <1>3 DEF Progress!Next

------------------------------------------------------------------------------
Inductive == TripsWay /\ PublishWay /\ ConsumeWay

LEMMA NextInductive == Inductive /\ [WaysNext]_ways => Inductive'
<1> SUFFICES ASSUME Inductive, [WaysNext]_ways PROVE Inductive'
  OBVIOUS
<1>1. UNCHANGED vars => TripsWay'
  BY NextTripsWay DEF Inductive
<1>2. UNCHANGED progress => PublishWay' /\ ConsumeWay'
  BY DEF Inductive, progress, PublishWay, PublishersTyped, PublishersTruthful,
     Progress!MarkedIsInTopic, ConsumeWay, ConsumersTyped, NothingSkipped,
     CommittedIsApplied, Progress!CommittedIsApplied
<1>3. CASE UNCHANGED ways
  BY <1>1, <1>2, <1>3 DEF Inductive, ways
<1>4. CASE WaysNext
  BY <1>1, <1>2, <1>4, NextTripsWay, NextProgress DEF Inductive, WaysNext
<1> QED
  BY <1>3, <1>4

LEMMA AlwaysInductive == WaysSpec => []Inductive
<1>1. WaysInit => Inductive
  BY InitTripsWay, InitPublishWay, InitConsumeWay DEF WaysInit, Inductive
<1> QED
  BY <1>1, NextInductive, PTL DEF WaysSpec

(***************************************************************************)
(* On both ways a row is marked published only once its message is in the  *)
(* topic, whatever fails, stops, stalls or lands late (AckOutbox,          *)
(* AckProgress).                                                           *)
(***************************************************************************)
THEOREM MarksAreTrue == WaysSpec => []MarkedIsInTopic
<1>1. Inductive => MarkedIsInTopic
  BY DEF Inductive, TripsWay, PublishWay, MarkedIsInTopic
<1> QED
  BY <1>1, AlwaysInductive, PTL

(***************************************************************************)
(* No message is skipped: every one up to the committed offset has been    *)
(* applied, also when a consumer stops between its transaction and the     *)
(* commit, or commits for a partition another one has (Consumer.Run).      *)
(***************************************************************************)
THEOREM OffsetsAreTrue == WaysSpec => []CommittedIsApplied
<1>1. Inductive => CommittedIsApplied
  BY DEF Inductive, ConsumeWay
<1> QED
  BY <1>1, AlwaysInductive, PTL

------------------------------------------------------------------------------
(***************************************************************************)
(* The pipe between Search and Collector: frames carry no name of the      *)
(* request they answer, so an answer can only be told by where it is.      *)
(***************************************************************************)
PageIn(w, q) == w[q.key].pages[q.page]

TotalIn(w, q) == Pipe!MapThenSumSet(LAMBDA i : Pipe!Cardinality(w[q.key].pages[i]), DOMAIN w[q.key].pages)

\* What may be said of the n-th call.
TrueOf(w, n, r) ==
    LET q == Calls[n]
    IN r.ok => /\ r.of = n /\ q.sound
               /\ r.items \subseteq {x \in PageIn(w, q) : x.ends # "unnamed"}
               /\ ~r.incomplete =>
                    /\ r.items = PageIn(w, q) /\ r.total = TotalIn(w, q)
                    /\ w[q.key].intervals => q.method \notin {"arrivals", "search", "departures"}

ReplyFields == {"of", "ok", "items", "total", "incomplete", "size"}

IsReply(w, n, r) == DOMAIN r = ReplyFields /\ TrueOf(w, n, r)

Taken == \E S : results \in Seq(S)

\* A reply that can still be read is that of the call in hand: there is one
\* call, in the input, with Collector or answered in the output.
OneCall ==
    /\ client # "waiting" => output = <<>> /\ (collector # "gone" => input = <<>>)
    /\ collector \in {"serving", "flying"} =>
          client = "waiting" /\ request = Pipe!Nth /\ input = <<>> /\ output = <<>>
    /\ client = "waiting" =>
          /\ collector # "gone" /\ input # <<>> => input = <<Pipe!Nth>> /\ output = <<>>
          /\ output # <<>> => output = <<Head(output)>> /\ IsReply(world, Pipe!Nth, Head(output))

PipeInv ==
    /\ Taken
    /\ \A n \in DOMAIN results : TrueOf(world, n, results[n])
    /\ ~deaf => OneCall
    /\ collector \in {"serving", "flying"} \/ request = 0
    /\ bridge = "running" => collector = "flying" /\ Calls[request].sound

LEMMA PipeInit == Pipe!Init => PipeInv
<1> SUFFICES ASSUME Pipe!Init PROVE PipeInv
  OBVIOUS
<1>1. /\ results = <<>> /\ client = "free" /\ deaf = FALSE /\ input = <<>> /\ output = <<>>
      /\ collector = "reading" /\ request = 0 /\ bridge = "none"
  BY DEF Pipe!Init, Pipe!NoRequest
<1>2. Taken /\ DOMAIN results = {}
  BY <1>1, EmptySeq DEF Taken
<1> QED  BY <1>1, <1>2 DEF PipeInv, OneCall

\* One more result.
LEMMA Noted ==
    ASSUME PipeInv, NEW r, TrueOf(world, Len(results) + 1, r), results' = Append(results, r)
    PROVE  Taken' /\ (\A n \in DOMAIN results' : TrueOf(world, n, results'[n]))
<1>1. PICK S : results \in Seq(S)
  BY DEF PipeInv, Taken
<1>2. results \in Seq(S \cup {r})
  BY <1>1, SeqMonotonic
<1>3. /\ Append(results, r) \in Seq(S \cup {r}) /\ Len(Append(results, r)) = Len(results) + 1
      /\ \A i \in 1..Len(results) : Append(results, r)[i] = results[i]
      /\ Append(results, r)[Len(results) + 1] = r
  BY <1>2, AppendProperties
<1>4. Len(results) \in Nat /\ DOMAIN results = 1..Len(results) /\ DOMAIN Append(results, r) = 1..(Len(results) + 1)
  BY <1>2, <1>3, LenProperties
<1>5. 1..(Len(results) + 1) = 1..Len(results) \cup {Len(results) + 1}
  BY <1>4
<1>6. \A n \in DOMAIN results : TrueOf(world, n, results[n])
  BY DEF PipeInv
<1>7. Taken'
  BY <1>3 DEF Taken
<1>8. \A n \in DOMAIN Append(results, r) : TrueOf(world, n, Append(results, r)[n])
  BY <1>3, <1>4, <1>5, <1>6
<1> QED  BY <1>7, <1>8

LEMMA FailureIsTrue == \A n, m : TrueOf(world, n, Pipe!Failed(m))
BY DEF TrueOf, Pipe!Failed

LEMMA NthIs == PipeInv => Pipe!Nth = Len(results) + 1 /\ Len(results) \in Nat
<1> SUFFICES ASSUME PipeInv PROVE Len(results) \in Nat
  BY DEF Pipe!Nth
<1>1. PICK S : results \in Seq(S)
  BY DEF PipeInv, Taken
<1> QED  BY <1>1, LenProperties

------------------------------------------------------------------------------
(* What Collector answers is true. *)
LEMMA RefusalIs ==
    ASSUME NEW n, NEW m
    PROVE  /\ IsReply(world, m, Pipe!Refusal(n))
           /\ \A size : IsReply(world, m, [Pipe!Refusal(n) EXCEPT !.size = size])
<1> DEFINE r == Pipe!Refusal(n)
<1>1. DOMAIN r = ReplyFields /\ r.ok = FALSE
  BY DEF Pipe!Reply, Pipe!Refusal, ReplyFields
<1> HIDE DEF r
<1>2. \A size : DOMAIN [r EXCEPT !.size = size] = ReplyFields /\ [r EXCEPT !.size = size].ok = FALSE
  BY <1>1 DEF ReplyFields
<1> QED  BY <1>1, <1>2 DEF IsReply, TrueOf, r

LEMMA AnswerIs == \A n : IsReply(world, n, Pipe!Answer(n))
<1> SUFFICES ASSUME NEW n PROVE IsReply(world, n, Pipe!Answer(n))
  OBVIOUS
<1> DEFINE q == Calls[n]
           page == Pipe!PageOf(q)
           left == Pipe!LeftOut(q)
           items == Pipe!Shown(q)
           total == Pipe!TotalOf(q)
<1>0. page = PageIn(world, q) /\ total = TotalIn(world, q) /\ Pipe!Knows(q) = world[q.key]
  BY DEF PageIn, TotalIn, Pipe!PageOf, Pipe!TotalOf, Pipe!Knows
<1>1. CASE ~(q.sound /\ Pipe!Expected(q))
  BY <1>1, RefusalIs DEF Pipe!Answer
<1>2. CASE q.sound /\ Pipe!Expected(q)
  <2>1. Pipe!Answer(n) = Pipe!Reply(n, TRUE, items, total, left)
    BY <1>2 DEF Pipe!Answer
  <2>2. \A x \in page : x.ends # "unnamed"
    BY <1>2 DEF Pipe!Expected
  <2>3. items \subseteq page
    BY DEF Pipe!Shown
  <2>4. ~left => items = page
    BY DEF Pipe!LeftOut, Pipe!Shown
  <2>5. ~left => (Pipe!Knows(q).intervals => q.method \notin {"arrivals", "search", "departures"})
    BY DEF Pipe!LeftOut
  <2>6. DOMAIN Pipe!Answer(n) = ReplyFields /\ Pipe!Answer(n).of = n /\ Pipe!Answer(n).items = items
        /\ Pipe!Answer(n).total = total /\ Pipe!Answer(n).incomplete = left
    BY <2>1 DEF Pipe!Reply, ReplyFields
  <2> HIDE DEF page, left, items, total
  <2> QED  BY <1>0, <1>2, <2>2, <2>3, <2>4, <2>5, <2>6 DEF IsReply, TrueOf
<1> QED  BY <1>1, <1>2

LEMMA FlightPathsAre ==
    ASSUME Calls[request].sound, \A x \in Pipe!PageOf(Calls[request]) : x.ends = "asked"
    PROVE  IsReply(world, request, Pipe!FlightPaths(Calls[request]))
<1> DEFINE r == Pipe!FlightPaths(Calls[request])
<1>1. DOMAIN r = ReplyFields /\ r.of = request /\ r.items = Pipe!PageOf(Calls[request]) /\ r.incomplete = TRUE
  BY DEF Pipe!FlightPaths, Pipe!Reply, ReplyFields
<1>2. Pipe!PageOf(Calls[request]) = PageIn(world, Calls[request])
  BY DEF PageIn, Pipe!PageOf, Pipe!Knows
<1> HIDE DEF r
<1> QED  BY <1>1, <1>2 DEF IsReply, TrueOf, r

------------------------------------------------------------------------------
(* Steps *)
LEMMA PipeStutters ==
    ASSUME PipeInv, UNCHANGED <<world, results, client, deaf, input, output, collector, request, bridge>>
    PROVE  PipeInv'
<1>1. Pipe!Nth' = Pipe!Nth
  BY DEF Pipe!Nth
<1> QED  BY <1>1 DEF PipeInv, Taken, OneCall

\* The owner has an answer, or gives up waiting for one.
LEMMA Returns ==
    ASSUME PipeInv, client' # "waiting", NEW r, TrueOf(world, Len(results) + 1, r), results' = Append(results, r),
           UNCHANGED <<world, input, collector, request, bridge>>,
           deaf' \/ (~deaf /\ output' = <<>> /\ collector \notin {"serving", "flying"}
                          /\ (collector # "gone" => input = <<>>))
    PROVE  PipeInv'
<1>1. Taken' /\ \A n \in DOMAIN results' : TrueOf(world, n, results'[n])
  BY Noted
<1>2. (\A n \in DOMAIN results : TrueOf(world, n, results[n]))'
  BY <1>1
<1>3. (~deaf => OneCall)'
  BY DEF OneCall
<1> QED  BY <1>1, <1>2, <1>3 DEF PipeInv

LEMMA WriteStep == PipeInv /\ Pipe!Write => PipeInv'
<1> SUFFICES ASSUME PipeInv, Pipe!Write PROVE PipeInv'
  OBVIOUS
<1>1. /\ client = "free" /\ UNCHANGED <<world, deaf, ended, output, collector, request, signalled, bridge>>
      /\ IF collector # "gone"
         THEN input' = Append(input, Pipe!Nth) /\ client' = "waiting" /\ UNCHANGED results
         ELSE results' = Append(results, Pipe!Failed(Pipe!Nth)) /\ UNCHANGED <<input, client>>
  BY DEF Pipe!Write, Pipe!Running, Pipe!Note, Pipe!theirs
<1>2. CASE collector # "gone"
  <2>1. results' = results /\ Pipe!Nth' = Pipe!Nth /\ client' = "waiting"
    BY <1>1, <1>2 DEF Pipe!Nth
  <2>2. ~deaf => input = <<>> /\ output = <<>> /\ collector \notin {"serving", "flying"}
    BY <1>1, <1>2 DEF PipeInv, OneCall
  <2>3. ~deaf => input' = <<Pipe!Nth>>
    BY <1>1, <1>2, <2>2
  <2>4. (~deaf => OneCall)'
    BY <1>1, <2>1, <2>2, <2>3 DEF OneCall
  <2> QED  BY <1>1, <2>1, <2>4 DEF PipeInv, Taken
<1>3. CASE ~(collector # "gone")
  <2>1. TrueOf(world, Len(results) + 1, Pipe!Failed(Pipe!Nth))
    BY FailureIsTrue
  <2>2. deaf' \/ (~deaf /\ output' = <<>>)
    BY <1>1 DEF PipeInv, OneCall
  <2> QED  BY <1>1, <1>3, <2>1, <2>2, Returns
<1> QED  BY <1>2, <1>3

LEMMA WriteRefusedStep == PipeInv /\ Pipe!WriteRefused => PipeInv'
<1> SUFFICES ASSUME PipeInv, Pipe!WriteRefused PROVE PipeInv'
  OBVIOUS
<1>1. /\ client = "free" /\ results' = Append(results, Pipe!Failed(Pipe!Nth))
      /\ UNCHANGED <<world, client, deaf, input, output, collector, request, bridge>>
  BY DEF Pipe!WriteRefused, Pipe!Note, Pipe!pipes, Pipe!theirs
<1>2. TrueOf(world, Len(results) + 1, Pipe!Failed(Pipe!Nth))
  BY FailureIsTrue
<1>3. deaf' \/ (~deaf /\ output' = <<>> /\ collector \notin {"serving", "flying"}
                     /\ (collector # "gone" => input = <<>>))
  BY <1>1 DEF PipeInv, OneCall
<1> QED  BY <1>1, <1>2, <1>3, Returns

LEMMA ReadStep == PipeInv /\ Pipe!Read => PipeInv'
<1> SUFFICES ASSUME PipeInv, Pipe!Read PROVE PipeInv'
  OBVIOUS
<1> DEFINE r == Head(output)
           noted == IF r.size = "fits" /\ Pipe!Accepts(r) THEN [r EXCEPT !.ok = TRUE] ELSE Pipe!Failed(Pipe!Nth)
<1>1. /\ client = "waiting" /\ output # <<>> /\ ~deaf /\ client' = "free" /\ output' = Tail(output)
      /\ deaf' = (r.size = "huge") /\ results' = Append(results, noted)
      /\ UNCHANGED <<world, input, collector, request, bridge>>
  BY DEF Pipe!Read, Pipe!Note, Pipe!theirs
<1>2. /\ output = <<r>> /\ IsReply(world, Pipe!Nth, r) /\ collector \notin {"serving", "flying"}
      /\ collector # "gone" => input = <<>>
  BY <1>1 DEF PipeInv, OneCall
<1>3. output' = <<>>
  <2>1. \A e : Tail(<<e>>) = <<>>
    OBVIOUS
  <2> QED  BY <1>1, <1>2, <2>1
<1>4. TrueOf(world, Pipe!Nth, noted)
  <2>1. CASE r.size = "fits" /\ Pipe!Accepts(r)
    <3>1. r.ok
      BY <2>1 DEF Pipe!Accepts
    <3> DEFINE s == [r EXCEPT !.ok = TRUE]
    <3> HIDE DEF r
    <3>2. s.of = r.of /\ s.items = r.items /\ s.total = r.total /\ s.incomplete = r.incomplete
      BY <1>2 DEF IsReply, ReplyFields
    <3> HIDE DEF s
    <3>3. TrueOf(world, Pipe!Nth, s)
      BY <1>2, <3>1, <3>2 DEF IsReply, TrueOf
    <3> QED  BY <2>1, <3>3 DEF s, r
  <2>2. CASE ~(r.size = "fits" /\ Pipe!Accepts(r))
    BY <2>2, FailureIsTrue
  <2> QED  BY <2>1, <2>2
<1> HIDE DEF noted, r
<1>5. TrueOf(world, Len(results) + 1, noted)
  BY <1>4, NthIs
<1>6. client' # "waiting"
  BY <1>1
<1>7. deaf' \/ (~deaf /\ output' = <<>> /\ collector \notin {"serving", "flying"} /\ (collector # "gone" => input = <<>>))
  BY <1>1, <1>2, <1>3
<1> QED  BY <1>1, <1>5, <1>6, <1>7, Returns

LEMMA ReadNothingStep == PipeInv /\ Pipe!ReadNothing => PipeInv'
<1> SUFFICES ASSUME PipeInv, Pipe!ReadNothing PROVE PipeInv'
  OBVIOUS
<1>1. /\ client = "waiting" /\ (deaf \/ (output = <<>> /\ collector = "gone")) /\ client' = "free"
      /\ results' = Append(results, Pipe!Failed(Pipe!Nth))
      /\ UNCHANGED <<world, deaf, input, output, collector, request, bridge>>
  BY DEF Pipe!ReadNothing, Pipe!Note, Pipe!Running, Pipe!pipes, Pipe!theirs
<1>2. TrueOf(world, Len(results) + 1, Pipe!Failed(Pipe!Nth))
  BY FailureIsTrue
<1>3. client' # "waiting"
  BY <1>1
<1>4. deaf' \/ (~deaf /\ output' = <<>> /\ collector \notin {"serving", "flying"} /\ (collector # "gone" => input = <<>>))
  BY <1>1
<1> QED  BY <1>1, <1>2, <1>3, <1>4, Returns

\* Collector has answered.
LEMMA PutStep ==
    ASSUME PipeInv, collector \in {"serving", "flying"}, NEW r, Pipe!Put(r), IsReply(world, request, r),
           bridge' # "running", UNCHANGED <<world, results, client, deaf, input>>
    PROVE  PipeInv'
<1>1. /\ output' = Append(output, r) /\ collector' \in {"reading", "blocked"} /\ request' = 0
  BY DEF Pipe!Put, Pipe!NoRequest
<1>2. Pipe!Nth' = Pipe!Nth
  BY DEF Pipe!Nth
<1>3. ~deaf => /\ client = "waiting" /\ request = Pipe!Nth /\ input = <<>> /\ output = <<>>
               /\ output' = <<r>> /\ Head(output') = r
  <2>1. ~deaf => client = "waiting" /\ request = Pipe!Nth /\ input = <<>> /\ output = <<>>
    BY DEF PipeInv, OneCall
  <2>2. Append(<<>>, r) = <<r>> /\ Head(<<r>>) = r
    OBVIOUS
  <2> QED  BY <1>1, <2>1, <2>2
<1>4. (~deaf => OneCall)'
  BY <1>1, <1>2, <1>3 DEF OneCall
<1> QED  BY <1>1, <1>4 DEF PipeInv, Taken

\* Collector is gone.
LEMMA DieStep ==
    ASSUME PipeInv, Pipe!Die, UNCHANGED <<world, results, client, deaf>>,
           ~deaf => \/ output' = output
                    \/ client = "waiting" /\ output' = <<Head(output')>> /\ IsReply(world, Pipe!Nth, Head(output'))
    PROVE  PipeInv'
<1>1. collector' = "gone" /\ request' = 0 /\ bridge' # "running"
  BY DEF Pipe!Die, Pipe!NoRequest
<1>2. Pipe!Nth' = Pipe!Nth
  BY DEF Pipe!Nth
<1>3. (~deaf => OneCall)'
  BY <1>1, <1>2 DEF PipeInv, OneCall
<1> QED  BY <1>1, <1>3 DEF PipeInv, Taken

LEMMA KillStep == PipeInv /\ Pipe!Kill => PipeInv'
<1> SUFFICES ASSUME PipeInv, Pipe!Kill PROVE PipeInv'
  OBVIOUS
<1>1. /\ Pipe!Die /\ UNCHANGED <<world, results, client, deaf, input>>
      /\ output' = output \/ \E n \in {request} \ {0} : output' = Append(output, Pipe!Refusal(n))
  BY DEF Pipe!Kill, Pipe!ours, Pipe!NoRequest
<1>2. ASSUME ~deaf, request # 0, output' = Append(output, Pipe!Refusal(request))
      PROVE  client = "waiting" /\ output' = <<Head(output')>> /\ IsReply(world, Pipe!Nth, Head(output'))
  <2>1. client = "waiting" /\ output = <<>>
    BY <1>2 DEF PipeInv, OneCall
  <2>2. output' = <<Pipe!Refusal(request)>> /\ Head(output') = Pipe!Refusal(request)
    BY <1>2, <2>1
  <2>3. IsReply(world, Pipe!Nth, Pipe!Refusal(request))
    BY RefusalIs
  <2> QED  BY <2>1, <2>2, <2>3
<1> QED  BY <1>1, <1>2, DieStep

LEMMA TakeStep == PipeInv /\ Pipe!Take => PipeInv'
<1> SUFFICES ASSUME PipeInv, Pipe!Take PROVE PipeInv'
  OBVIOUS
<1>1. /\ collector = "reading" /\ input # <<>> /\ input' = Tail(input)
      /\ UNCHANGED <<world, results, client, deaf, output>>
      /\ \/ Pipe!Die
         \/ request' = Head(input) /\ collector' \in {"serving", "flying"} /\ bridge' = bridge
  BY DEF Pipe!Take, Pipe!ours
<1>2. CASE Pipe!Die
  BY <1>1, <1>2, DieStep
<1>3. CASE request' = Head(input) /\ collector' \in {"serving", "flying"} /\ bridge' = bridge
  <2>1. ~deaf => client = "waiting" /\ input = <<Pipe!Nth>> /\ output = <<>>
    BY <1>1 DEF PipeInv, OneCall
  <2>2. \A e : Tail(<<e>>) = <<>> /\ Head(<<e>>) = e
    OBVIOUS
  <2>3. ~deaf => input' = <<>> /\ request' = Pipe!Nth
    BY <1>1, <1>3, <2>1, <2>2
  <2>4. Pipe!Nth' = Pipe!Nth
    BY <1>1 DEF Pipe!Nth
  <2>5. (~deaf => OneCall)'
    BY <1>1, <1>3, <2>1, <2>3, <2>4 DEF OneCall
  <2>6. bridge' # "running"
    BY <1>1, <1>3 DEF PipeInv
  <2> QED  BY <1>1, <1>3, <2>5, <2>6 DEF PipeInv, Taken
<1> QED  BY <1>1, <1>2, <1>3

LEMMA ServingStep == PipeInv /\ (Pipe!Serve \/ Pipe!ServeFails) => PipeInv'
<1> SUFFICES ASSUME PipeInv, Pipe!Serve \/ Pipe!ServeFails PROVE PipeInv'
  OBVIOUS
<1>1. /\ collector = "serving" /\ UNCHANGED <<world, results, client, deaf, input, bridge>>
      /\ \/ Pipe!Put(Pipe!Refusal(request)) \/ Pipe!Put(Pipe!Answer(request))
         \/ \E size \in {"fits", "huge"} : Pipe!Put([Pipe!Refusal(request) EXCEPT !.size = size])
  BY DEF Pipe!Serve, Pipe!ServeFails, Pipe!ours
<1>2. PICK r : Pipe!Put(r) /\ IsReply(world, request, r)
  BY <1>1, RefusalIs, AnswerIs
<1>3. bridge' # "running"
  BY <1>1 DEF PipeInv
<1> QED  BY <1>1, <1>2, <1>3, PutStep

LEMMA FlyingStep == PipeInv /\ (Pipe!RefuseFlight \/ Pipe!Landed \/ Pipe!Crashed) => PipeInv'
<1> SUFFICES ASSUME PipeInv, Pipe!RefuseFlight \/ Pipe!Landed \/ Pipe!Crashed PROVE PipeInv'
  OBVIOUS
<1>1. /\ collector = "flying" /\ UNCHANGED <<world, results, client, deaf, input>>
      /\ bridge' # "running"
      /\ \/ Pipe!Put(Pipe!Refusal(request))
         \/ /\ bridge = "running" /\ \A x \in Pipe!PageOf(Calls[request]) : x.ends = "asked"
            /\ Pipe!Put(Pipe!FlightPaths(Calls[request]))
  BY DEF Pipe!RefuseFlight, Pipe!Landed, Pipe!Crashed, Pipe!ours
<1>2. PICK r : Pipe!Put(r) /\ IsReply(world, request, r)
  BY <1>1, RefusalIs, FlightPathsAre DEF PipeInv
<1> QED  BY <1>1, <1>2, PutStep

LEMMA BridgeStep == PipeInv /\ Pipe!StartBridge => PipeInv'
<1> SUFFICES ASSUME PipeInv, Pipe!StartBridge PROVE PipeInv'
  OBVIOUS
<1>1. /\ collector = "flying" /\ Calls[request].sound
      /\ UNCHANGED <<world, results, client, deaf, input, output, collector, request>>
  BY DEF Pipe!StartBridge, Pipe!ours, Pipe!pipes
<1>2. Pipe!Nth' = Pipe!Nth
  BY <1>1 DEF Pipe!Nth
<1> QED  BY <1>1, <1>2 DEF PipeInv, Taken, OneCall

LEMMA AsideStep == PipeInv /\ (Pipe!Deadline \/ Pipe!Close \/ Pipe!OrphanEnds \/ Pipe!Signal) => PipeInv'
<1> SUFFICES ASSUME PipeInv, Pipe!Deadline \/ Pipe!Close \/ Pipe!OrphanEnds \/ Pipe!Signal PROVE PipeInv'
  OBVIOUS
<1>1. /\ UNCHANGED <<world, results, deaf, input, output, collector, request>>
      /\ client' = client \/ (client # "waiting" /\ client' # "waiting")
      /\ bridge' = bridge \/ bridge' # "running"
  BY DEF Pipe!Deadline, Pipe!Close, Pipe!OrphanEnds, Pipe!Signal, Pipe!ours, Pipe!pipes, Pipe!theirs
<1>2. Pipe!Nth' = Pipe!Nth
  BY <1>1 DEF Pipe!Nth
<1> QED  BY <1>1, <1>2 DEF PipeInv, Taken, OneCall

LEMMA PipeStep == PipeInv /\ [Pipe!Next]_(Pipe!vars) => PipeInv'
<1> SUFFICES ASSUME PipeInv, [Pipe!Next]_(Pipe!vars) PROVE PipeInv'
  OBVIOUS
<1>1. CASE Pipe!EndOfInput
  BY <1>1, DieStep DEF Pipe!EndOfInput, Pipe!ours, Pipe!pipes
<1>2. CASE UNCHANGED Pipe!vars
  BY <1>2, PipeStutters DEF Pipe!vars, Pipe!ours, Pipe!pipes, Pipe!theirs
<1> QED
  BY <1>1, <1>2, WriteStep, WriteRefusedStep, ReadStep, ReadNothingStep, KillStep, TakeStep, ServingStep, FlyingStep,
     BridgeStep, AsideStep DEF Pipe!Next

(***************************************************************************)
(* An answer that Search takes is that of the call in hand, and what it    *)
(* does not call incomplete is all the provider knows, whatever is killed, *)
(* cut or signalled, for any calls and any providers.                      *)
(***************************************************************************)
THEOREM AnswersAreTheirs == WaysSpec => []AnswersAreTrue
<1>1. PipeInv => Pipe!AnswersAreTrue
  <2> SUFFICES ASSUME PipeInv, NEW n \in DOMAIN results,
                      results[n].ok
               PROVE  LET r == results[n]
                          q == Calls[n]
                      IN /\ r.of = n /\ q.sound
                         /\ r.items \subseteq {x \in Pipe!PageOf(q) : x.ends # "unnamed"}
                         /\ ~r.incomplete =>
                              /\ r.items = Pipe!PageOf(q) /\ r.total = Pipe!TotalOf(q)
                              /\ Pipe!Knows(q).intervals => q.method \notin {"arrivals", "search", "departures"}
    BY DEF Pipe!AnswersAreTrue
  <2> DEFINE q == Calls[n]
  <2>1. /\ Pipe!PageOf(q) = PageIn(world, q) /\ Pipe!TotalOf(q) = TotalIn(world, q)
        /\ Pipe!Knows(q) = world[q.key]
    BY DEF PageIn, TotalIn, Pipe!PageOf, Pipe!TotalOf, Pipe!Knows
  <2>2. TrueOf(world, n, results[n])
    BY DEF PipeInv
  <2> QED  BY <2>1, <2>2 DEF TrueOf
<1>2. WaysInit => PipeInv
  BY PipeInit DEF WaysInit
<1>3. PipeInv /\ [WaysNext]_ways => PipeInv'
  BY PipeStep, PipeStutters DEF WaysNext, ways, piping
<1> QED
  BY <1>1, <1>2, <1>3, PTL DEF WaysSpec, AnswersAreTrue
==============================================================================
