----------------------------- MODULE CabinetTrips -----------------------------
(***************************************************************************)
(* Trip requests in the Cabinet service: creation, cancellation by the     *)
(* owner, expiry by the serve processes, and the projection of the         *)
(* progress events of Search. A trip changes and records the event for     *)
(* Search in one transaction under the lock of its row, so each of these   *)
(* transactions is one action.                                             *)
(*                                                                         *)
(* A trip is named by the idempotency key of its creation: a repeated      *)
(* CreateTrip finds the trip and changes nothing.                          *)
(***************************************************************************)
EXTENDS Naturals, Sequences, FiniteSets, SequencesExt

CONSTANTS
    Requests,   \* trips that may be created
    Servers,    \* serve processes, each with its expiry timer
    Batch,      \* trips.expiry_batch
    Feed        \* the progress events of each trip, in the order of their revisions

ASSUME BatchAssumption == Batch \in Nat \ {0}

VARIABLES
    trip,      \* status, building_stage and building_revision of trip_requests
    overdue,   \* trips whose last departure day has ended in their time zone
    outbox,    \* types of the events of a trip in outbox_events
    history,   \* the events of a trip in trip_stage_history, with their revisions
    pass       \* the candidates an expiry pass has read and not processed yet

vars == <<trip, overdue, outbox, history, pass>>

------------------------------------------------------------------------------
Active == {"saved", "running"}

BuildingStages ==
    {"queued", "building", "awaiting_schedules", "no_routes", "failed", "cancelled"}

Planners == {"all", "graph", "gemini"}

ASSUME FeedAssumption ==
    Feed \in [Requests -> Seq([planner : Planners, stage : BuildingStages])]

Trip ==
    [status : Active \cup {"absent", "cancelled", "expired"},
     stage : BuildingStages \cup {"not_started"}, revision : Nat]

NoTrip == [status |-> "absent", stage |-> "not_started", revision |-> 0]

Init ==
    /\ trip = [q \in Requests |-> NoTrip]
    /\ overdue = {}
    /\ outbox = [q \in Requests |-> {}]
    /\ history = [q \in Requests |-> {}]
    /\ pass = [v \in Servers |-> <<>>]

\* The insert into outbox_events of the same transaction.
Record(q, type) == outbox' = [outbox EXCEPT ![q] = @ \cup {type}]

------------------------------------------------------------------------------
\* A departure in the past is refused.
CreateTrip(q) ==
    /\ trip[q].status = "absent"
    /\ q \notin overdue
    /\ trip' = [trip EXCEPT ![q].status = "saved"]
    /\ Record(q, "created")
    /\ UNCHANGED <<overdue, history, pass>>

\* Repeating a cancellation succeeds and changes nothing; an expired trip refuses it.
CancelTrip(q) ==
    /\ trip[q].status \in Active
    /\ trip' = [trip EXCEPT ![q].status = "cancelled"]
    /\ Record(q, "cancelled")
    /\ UNCHANGED <<overdue, history, pass>>

DayEnds(q) ==
    /\ q \notin overdue
    /\ overdue' = overdue \cup {q}
    /\ UNCHANGED <<trip, outbox, history, pass>>

------------------------------------------------------------------------------
(***************************************************************************)
(* ExpireTrips: a pass reads a batch of candidates without locking them,   *)
(* then expires them one by one, each in its own transaction that looks at *)
(* the status again. The first error ends the pass.                        *)
(***************************************************************************)
\* Mutant of Candidates: running trips are never read.
SavedOnly == {q \in overdue : trip[q].status = "saved"}

Candidates == {q \in overdue : trip[q].status \in Active}

BatchSize == IF Cardinality(Candidates) < Batch THEN Cardinality(Candidates) ELSE Batch

ExpiryPass(v) ==
    /\ pass[v] = <<>>
    /\ Candidates # {}
    /\ \E chosen \in SUBSET Candidates : \E order \in SetToSeqs(chosen) :
          /\ Cardinality(chosen) = BatchSize
          /\ pass' = [pass EXCEPT ![v] = order]
    /\ UNCHANGED <<trip, overdue, outbox, history>>

\* Mutant of Expirable: the status is not read again under the lock.
ReadOnce(q) == TRUE

Expirable(q) == trip[q].status \in Active

ExpireTrip(v) ==
    /\ pass[v] # <<>>
    /\ pass' = [pass EXCEPT ![v] = Tail(@)]
    /\ LET q == Head(pass[v]) IN
          IF Expirable(q)
          THEN /\ trip' = [trip EXCEPT ![q].status = "expired"]
               /\ Record(q, "expired")
          ELSE UNCHANGED <<trip, outbox>>
    /\ UNCHANGED <<overdue, history>>

\* A failed transaction, or a stop of the process, leaves the rest to a later pass.
PassFails(v) ==
    /\ pass[v] # <<>>
    /\ pass' = [pass EXCEPT ![v] = <<>>]
    /\ UNCHANGED <<trip, overdue, outbox, history>>

------------------------------------------------------------------------------
(***************************************************************************)
(* ApplyProgress: event e of revision n, in any order. The history is also *)
(* the inbox. The aggregate moves the stage of an active trip forward, and *)
(* any stage but queued makes the trip running.                            *)
(***************************************************************************)
\* Mutant of Moves: the revision is not compared.
AnyRevision(q, n, e) == trip[q].status \in Active /\ e.planner = "all"

Moves(q, n, e) ==
    trip[q].status \in Active /\ e.planner = "all" /\ trip[q].revision < n

\* Mutant of Refuses: looked at before the status of the trip.
RefusesCancelled(q, e) == e.planner = "all" /\ e.stage = "cancelled"

\* A cancellation Cabinet has not made stops the consumer without an acknowledgement.
Refuses(q, e) ==
    trip[q].status \in Active /\ e.planner = "all" /\ e.stage = "cancelled"

Received(q) == {h.revision : h \in history[q]}

ApplyProgress(q, n, e) ==
    /\ trip[q].status # "absent"
    /\ n \notin Received(q)
    /\ ~Refuses(q, e)
    /\ history' = [history EXCEPT ![q] =
           @ \cup {[revision |-> n, planner |-> e.planner, stage |-> e.stage]}]
    /\ IF Moves(q, n, e)
       THEN trip' = [trip EXCEPT ![q] =
                [status |-> IF e.stage = "queued" THEN @.status ELSE "running",
                 stage |-> e.stage, revision |-> n]]
       ELSE UNCHANGED trip
    /\ UNCHANGED <<overdue, outbox, pass>>

------------------------------------------------------------------------------
Expiry(v) == ExpiryPass(v) \/ ExpireTrip(v) \/ PassFails(v)

Progresses(q) == \E n \in DOMAIN Feed[q] : ApplyProgress(q, n, Feed[q][n])

Next ==
    \/ \E q \in Requests : CreateTrip(q) \/ CancelTrip(q) \/ DayEnds(q) \/ Progresses(q)
    \/ \E v \in Servers : Expiry(v)

Spec == Init /\ [][Next]_vars

(***************************************************************************)
(* The timer of a serve process fires for ever, and its transactions do    *)
(* not fail every time.                                                    *)
(***************************************************************************)
Fairness == \A v \in Servers : WF_vars(ExpiryPass(v)) /\ SF_vars(ExpireTrip(v))

FairSpec == Spec /\ Fairness

------------------------------------------------------------------------------
(***************************************************************************)
(* Search is told exactly what happened: a trip has one created event, a   *)
(* terminal event only in the status it names, and never both, however     *)
(* cancellation and the expiry passes of several processes interleave.     *)
(***************************************************************************)
EventsTellStatus ==
    \A q \in Requests :
        outbox[q] = CASE trip[q].status = "absent" -> {}
                      [] trip[q].status \in Active -> {"created"}
                      [] OTHER -> {"created", trip[q].status}

(***************************************************************************)
(* Every trip whose dates are over stops being active, whatever the batch  *)
(* size, failing passes and processes that race for the same trips.        *)
(***************************************************************************)
OverdueEnds ==
    \A q \in Requests : q \in overdue ~> trip[q].status \notin Active

==============================================================================
