----------------------------- MODULE TravelWatch -----------------------------
(***************************************************************************)
(* Cabinet and Search together. Each service commits its own state with    *)
(* the events that tell the other one of it; the outbox relays, the topics *)
(* and the inboxes carry them at least once and in any order. So a         *)
(* committed event can be taken at any later time, and taking it again     *)
(* changes nothing.                                                        *)
(***************************************************************************)
EXTENDS Naturals, Sequences, FiniteSets

CONSTANTS
    Requests, Servers, Batch,                                     \* of CabinetTrips
    Workers, NoWorker, NoRequest, Members, Results, MaxAttempts   \* of RouteBuilding

VARIABLES
    trip, overdue, outbox, history, pass,
    inbox, status, snapshot, building, runs, progress, job

cabinet == <<trip, overdue, outbox, history, pass>>
search == <<inbox, status, snapshot, building, runs, progress, job>>
vars == <<cabinet, search>>

\* The events Cabinet receives are those of Search and not of a Feed.
Cabinet == INSTANCE CabinetTrips WITH Feed <- [q \in Requests |-> <<>>]
Search == INSTANCE RouteBuilding

\* What each service is deployed with.
ASSUME CabinetAssumption == Batch \in Nat \ {0}

ASSUME SearchAssumption ==
    /\ NoWorker \notin Workers /\ NoRequest \notin Requests
    /\ Members \in [Workers -> (SUBSET Search!Sources) \ {{}}]
    /\ Results \subseteq Search!SourceResult
    /\ MaxAttempts \in 1..10

Init == Cabinet!Init /\ Search!Init

------------------------------------------------------------------------------
\* Cabinet and Search on their own.
Owner(q) == (Cabinet!CreateTrip(q) \/ Cabinet!CancelTrip(q)) /\ UNCHANGED search

DayEnds(q) == Cabinet!DayEnds(q) /\ UNCHANGED search

Expiry(v) == Cabinet!Expiry(v) /\ UNCHANGED search

LeaseLapses(q) == Search!LeaseLapses(q) /\ UNCHANGED cabinet

Build(w) ==
    (Search!Claims(w) \/ Search!Works(w) \/ Search!WorkerStops(w)) /\ UNCHANGED cabinet

------------------------------------------------------------------------------
\* consume-trips of Search takes an event of Cabinet.
ConsumeTrip(q) ==
    /\ \/ "created" \in outbox[q] /\ Search!ApplyCreated(q)
       \/ "cancelled" \in outbox[q] /\ Search!ApplyCancelled(q)
       \/ "expired" \in outbox[q] /\ Search!ApplyExpired(q)
    /\ UNCHANGED cabinet

\* consume-progress of Cabinet takes an event of Search.
ConsumeProgress(q) ==
    /\ \E n \in DOMAIN progress[q] : Cabinet!ApplyProgress(q, n, progress[q][n])
    /\ UNCHANGED search

------------------------------------------------------------------------------
Next ==
    \/ \E q \in Requests :
          Owner(q) \/ DayEnds(q) \/ LeaseLapses(q) \/ ConsumeTrip(q) \/ ConsumeProgress(q)
    \/ \E v \in Servers : Expiry(v)
    \/ \E w \in Workers : Build(w)

Spec == Init /\ [][Next]_vars

(***************************************************************************)
(* Every event is delivered in the end (EveryEventPublished of OutboxRelay *)
(* and consumers that are restarted), and Search keeps its own fairness:   *)
(* leases lapse and processes poll. Expiry and the owner need never act.   *)
(***************************************************************************)
Fairness ==
    /\ \A q \in Requests :
          WF_vars(ConsumeTrip(q)) /\ WF_vars(ConsumeProgress(q)) /\ WF_vars(LeaseLapses(q))
    /\ \A w \in Workers :
          /\ WF_vars(Search!Claims(w) /\ UNCHANGED cabinet)
          /\ WF_vars(Search!PollInactive(w) /\ UNCHANGED cabinet)

FairSpec == Spec /\ Fairness

------------------------------------------------------------------------------
(***************************************************************************)
(* Both services give a request the same ending: what Search stops working *)
(* for, Cabinet has ended for the same reason (ADR 0005, ADR 0006).        *)
(***************************************************************************)
EndingsAgree ==
    \A q \in Requests : status[q] \in {"cancelled", "expired"} => trip[q].status = status[q]

(***************************************************************************)
(* No event of Search stops the progress consumer of Cabinet, in whatever  *)
(* order it arrives: all keep to the contract, and a cancelled stage is    *)
(* never reported for a trip that its owner has not cancelled.             *)
(***************************************************************************)
ProgressAccepted ==
    \A q \in Requests : \A n \in DOMAIN progress[q] :
        Search!Accepted(progress[q][n]) /\ ~Cabinet!Refuses(q, progress[q][n])

(***************************************************************************)
(* Once all events have arrived, in whatever order, Cabinet shows the      *)
(* owner of an active trip the stage Search is in, and running exactly     *)
(* when its building has started.                                          *)
(***************************************************************************)
ProjectionConverges ==
    \A q \in Requests :
        trip[q].status \in Cabinet!Active /\ Cabinet!Received(q) = DOMAIN progress[q] =>
            IF building[q].stage = "absent" THEN trip[q].stage = "not_started"
            ELSE /\ trip[q].stage = building[q].stage
                 /\ trip[q].status = "running" <=> building[q].started

(***************************************************************************)
(* Every trip that stays active gets an answer its owner can see, although *)
(* processes crash, sources never answer and events come in any order.     *)
(***************************************************************************)
ActiveTripAnswered ==
    \A q \in Requests :
        trip[q].status = "saved"
            ~> \/ trip[q].stage \in {"awaiting_schedules", "no_routes", "failed"}
               \/ trip[q].status \notin Cabinet!Active

(***************************************************************************)
(* A cancellation reaches Search and stops the work there for good.        *)
(***************************************************************************)
CancelStopsSearch ==
    \A q \in Requests :
        trip[q].status = "cancelled"
            ~> [](/\ building[q].stage \notin {"queued", "building"}
                  /\ \A w \in Workers : job[w].request # q)

==============================================================================
