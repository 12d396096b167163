-------------------------- MODULE TravelWatchProofs --------------------------
(***************************************************************************)
(* Proofs about the composition, for any trips, processes, batch sizes,    *)
(* sources and results. What each service keeps by itself is taken from    *)
(* its own module; what is proved here is what links the two.              *)
(***************************************************************************)
EXTENDS TravelWatch, TLAPS

\* The proofs of the two services, for the same variables.
C == INSTANCE CabinetTripsProofs WITH Feed <- [q \in Requests |-> <<>>]
S == INSTANCE RouteBuildingProofs

LEMMA FeedIsEmpty ==
    [q \in Requests |-> <<>>] \in [Requests -> Seq([planner : C!Planners, stage : C!BuildingStages])]
OBVIOUS

\* What the proofs of the services assume holds here.
LEMMA Deployed ==
    /\ C!BatchAssumption /\ C!FeedAssumption
    /\ S!NoWorkerAssumption /\ S!NoRequestAssumption /\ S!MembersAssumption
    /\ S!ResultsAssumption /\ S!AttemptsAssumption
BY CabinetAssumption, SearchAssumption, FeedIsEmpty
   DEF C!BatchAssumption, C!FeedAssumption, S!NoWorkerAssumption, S!NoRequestAssumption,
       S!MembersAssumption, S!ResultsAssumption, S!AttemptsAssumption,
       Search!Sources, Search!SourceResult, Search!Outcomes,
       S!Sources, S!SourceResult, S!Outcomes

LEMMA InitKept == Init => C!Inductive /\ S!Inductive /\ S!Rows /\ S!Histories
<1> SUFFICES ASSUME Init PROVE C!Inductive /\ S!Inductive /\ S!Rows /\ S!Histories
  OBVIOUS
<1>1. C!Init /\ S!Init
  BY DEF Init, Cabinet!Init, C!Init, Search!Init, S!Init, Cabinet!NoTrip, C!NoTrip,
     Search!NoBuilding, S!NoBuilding, Search!NoRun, S!NoRun, Search!Idle, S!Idle,
     Search!Sources, S!Sources
<1> QED
  BY <1>1, Deployed, C!InitInductive, S!InitInductive, S!InitRows, S!InitHistories

LEMMA OwnerSteps ==
    ASSUME NEW q \in Requests
    PROVE  /\ Cabinet!CreateTrip(q) => C!CreateTrip(q)
           /\ Cabinet!CancelTrip(q) => C!CancelTrip(q)
           /\ Cabinet!DayEnds(q) => C!DayEnds(q)
           /\ \A n, e : Cabinet!ApplyProgress(q, n, e) => C!ApplyProgress(q, n, e)
<1>1. /\ Cabinet!CreateTrip(q) => C!CreateTrip(q)
      /\ Cabinet!CancelTrip(q) => C!CancelTrip(q)
      /\ Cabinet!DayEnds(q) => C!DayEnds(q)
  BY DEF Cabinet!CreateTrip, C!CreateTrip, Cabinet!CancelTrip, C!CancelTrip, Cabinet!DayEnds,
     C!DayEnds, Cabinet!Record, C!Record, Cabinet!Active, C!Active
<1>2. \A n, e : Cabinet!ApplyProgress(q, n, e) => C!ApplyProgress(q, n, e)
  BY DEF Cabinet!ApplyProgress, C!ApplyProgress, Cabinet!Received, C!Received, Cabinet!Refuses,
     C!Refuses, Cabinet!Moves, C!Moves, Cabinet!Active, C!Active
<1> QED
  BY <1>1, <1>2

LEMMA ExpirySteps ==
    ASSUME NEW v \in Servers, Cabinet!Expiry(v)
    PROVE  C!Expiry(v)
<1>0. \A X : Cabinet!Cardinality(X) = C!Cardinality(X) /\ Cabinet!SetToSeqs(X) = C!SetToSeqs(X)
  <2>1. \A X : Cabinet!Cardinality(X) = C!Cardinality(X)
    BY Zenon DEF Cabinet!Cardinality, C!Cardinality
  <2> QED
    BY <2>1, Zenon DEF Cabinet!SetToSeqs, C!SetToSeqs
<1>1. Cabinet!Candidates = C!Candidates
  BY DEF Cabinet!Candidates, C!Candidates, Cabinet!Active, C!Active
<1>2. Cabinet!BatchSize = C!BatchSize
  BY <1>1, <1>0, Zenon DEF Cabinet!BatchSize, C!BatchSize
<1>3. Cabinet!ExpiryPass(v) => C!ExpiryPass(v)
  BY <1>1, <1>2, <1>0, Zenon DEF Cabinet!ExpiryPass, C!ExpiryPass
<1>4. Cabinet!ExpireTrip(v) => C!ExpireTrip(v)
  BY DEF Cabinet!ExpireTrip, C!ExpireTrip, Cabinet!Expirable, C!Expirable, Cabinet!Record,
     C!Record, Cabinet!Active, C!Active
<1>5. Cabinet!PassFails(v) => C!PassFails(v)
  BY DEF Cabinet!PassFails, C!PassFails
<1> QED
  BY <1>3, <1>4, <1>5 DEF Cabinet!Expiry, C!Expiry

LEMMA SearchWords ==
    /\ Search!Sources = S!Sources /\ Search!Finished = S!Finished /\ Search!Idle = S!Idle
    /\ \A rs : /\ Search!Open(rs) = S!Open(rs)
               /\ Search!AggregateStage(rs) = S!AggregateStage(rs)
               /\ Search!CancelledRuns(rs) = S!CancelledRuns(rs)
               /\ Search!ExhaustedRuns(rs) = S!ExhaustedRuns(rs)
    /\ \A b : Search!CancelledBuilding(b) = S!CancelledBuilding(b)
    /\ \A b, n, x : Search!AggregateEvent(b, n, x) = S!AggregateEvent(b, n, x)
    /\ \A b, rs : /\ Search!Closed(b, rs) = S!Closed(b, rs)
                  /\ Search!ClosingEvent(b, rs) = S!ClosingEvent(b, rs)
                  /\ Search!SourceEvents(b, rs) = S!SourceEvents(b, rs)
                  /\ Search!SourceEvent(b, rs) = S!SourceEvent(b, rs)
    /\ \A T : Search!SetToSeqs(T) = S!SetToSeqs(T)
<1>1. Search!Sources = S!Sources /\ Search!Finished = S!Finished /\ Search!Idle = S!Idle
  BY DEF Search!Sources, S!Sources, Search!Finished, S!Finished, Search!Idle, S!Idle
<1>2. \A rs : Search!Open(rs) = S!Open(rs)
  BY <1>1, Zenon DEF Search!Open, S!Open
<1>3. \A rs : Search!AggregateStage(rs) = S!AggregateStage(rs)
  BY <1>1, Zenon DEF Search!AggregateStage, S!AggregateStage, Search!Total, S!Total
<1>4. \A rs : /\ Search!CancelledRuns(rs) = S!CancelledRuns(rs)
              /\ Search!ExhaustedRuns(rs) = S!ExhaustedRuns(rs)
  BY <1>1, <1>2, Zenon DEF Search!CancelledRuns, S!CancelledRuns, Search!ExhaustedRuns,
     S!ExhaustedRuns
<1>5. \A b : Search!CancelledBuilding(b) = S!CancelledBuilding(b)
  BY Zenon DEF Search!CancelledBuilding, S!CancelledBuilding
<1>6. \A b, n, x : Search!AggregateEvent(b, n, x) = S!AggregateEvent(b, n, x)
  BY Zenon DEF Search!AggregateEvent, S!AggregateEvent
<1>7. \A b, rs : Search!Closed(b, rs) = S!Closed(b, rs)
  BY <1>3, Zenon DEF Search!Closed, S!Closed
<1>8. \A b, rs : Search!ClosingEvent(b, rs) = S!ClosingEvent(b, rs)
  BY <1>1, <1>6, Zenon DEF Search!ClosingEvent, S!ClosingEvent, Search!Total, S!Total
<1>9. \A b, rs : /\ Search!SourceEvent(b, rs) = S!SourceEvent(b, rs)
                 /\ Search!SourceEvents(b, rs) = S!SourceEvents(b, rs)
  BY Zenon DEF Search!SourceEvents, S!SourceEvents, Search!SourceEvent, S!SourceEvent
<1>10. \A T : Search!SetToSeqs(T) = S!SetToSeqs(T)
  BY Zenon DEF Search!SetToSeqs, S!SetToSeqs, Search!Cardinality, S!Cardinality
<1> QED
  BY <1>1, <1>2, <1>3, <1>4, <1>5, <1>6, <1>7, <1>8, <1>9, <1>10

LEMMA ReceiveSteps ==
    ASSUME NEW q \in Requests
    PROVE  /\ Search!ApplyCreated(q) => S!ApplyCreated(q)
           /\ Search!ApplyCancelled(q) => S!ApplyCancelled(q)
           /\ Search!ApplyExpired(q) => S!ApplyExpired(q)
           /\ Search!LeaseLapses(q) => S!LeaseLapses(q)
<1>1. /\ Search!ApplyCreated(q) => S!ApplyCreated(q)
      /\ Search!ApplyCancelled(q) => S!ApplyCancelled(q)
  BY SearchWords, Zenon DEF Search!ApplyCreated, S!ApplyCreated, Search!ApplyCancelled,
     S!ApplyCancelled, Search!Receive, S!Receive, Search!Emit, S!Emit
<1>2. Search!ApplyExpired(q) => S!ApplyExpired(q)
  BY Zenon DEF Search!ApplyExpired, S!ApplyExpired, Search!Receive, S!Receive,
     Search!Expire, S!Expire
<1>3. Search!LeaseLapses(q) => S!LeaseLapses(q)
  BY Zenon DEF Search!LeaseLapses, S!LeaseLapses
<1> QED
  BY <1>1, <1>2, <1>3

LEMMA WorkerSteps ==
    ASSUME NEW w \in Workers
    PROVE  /\ Search!Claims(w) => S!Claims(w)
           /\ Search!Works(w) => S!Works(w)
           /\ Search!WorkerStops(w) => S!WorkerStops(w)
<1>1. \A b : /\ Search!Claimable(b) = S!Claimable(b) /\ Search!Exhausted(b) = S!Exhausted(b)
             /\ Search!SavedPlanners(w, b) = S!SavedPlanners(w, b)
  BY Zenon DEF Search!Claimable, S!Claimable, Search!Exhausted, S!Exhausted,
     Search!SavedPlanners, S!SavedPlanners
<1>2. Search!ClaimSelect(w) => S!ClaimSelect(w)
  BY <1>1, Zenon DEF Search!ClaimSelect, S!ClaimSelect, Search!database, S!database
<1>3. Search!ClaimLost(w) => S!ClaimLost(w)
  BY <1>1, SearchWords, Zenon DEF Search!ClaimLost, S!ClaimLost, Search!database, S!database
<1>4. Search!ClaimStart(w) => S!ClaimStart(w)
  <2>1. \A q : Search!Startable(w, q) = S!Startable(w, q)
    BY <1>1, Zenon DEF Search!Startable, S!Startable
  <2>2. \A rs, T, n : Search!StartedRuns(rs, T, n) = S!StartedRuns(rs, T, n)
    BY SearchWords, Zenon DEF Search!StartedRuns, S!StartedRuns
  <2>3. \A q, events : Search!Emit(q, events) <=> S!Emit(q, events)
    BY Zenon DEF Search!Emit, S!Emit
  <2> QED
    BY <1>1, <2>1, <2>2, <2>3, SearchWords, Zenon DEF Search!ClaimStart, S!ClaimStart
<1>5. Search!ClaimExhausted(w) => S!ClaimExhausted(w)
  BY <1>1, SearchWords, Zenon DEF Search!ClaimExhausted, S!ClaimExhausted, Search!Emit, S!Emit
<1>6. \A q, s : Search!Recordable(w, q, s) = S!Recordable(w, q, s)
  BY Zenon DEF Search!Recordable, S!Recordable, Search!Holds, S!Holds
<1>7. \A j, s : Search!Done(j, s) = S!Done(j, s)
  BY SearchWords, Zenon DEF Search!Done, S!Done
<1>8. \A s, r : Search!FinishSource(w, s, r) => S!FinishSource(w, s, r)
  BY <1>6, <1>7, SearchWords, Zenon DEF Search!FinishSource, S!FinishSource, Search!FinishedRun,
     S!FinishedRun, Search!FinishStage, S!FinishStage, Search!Emit, S!Emit
<1>9. \A s : Search!DropResult(w, s) => S!DropResult(w, s)
  BY <1>6, <1>7, Zenon DEF Search!DropResult, S!DropResult, Search!database, S!database
<1>10. Search!PollInactive(w) => S!PollInactive(w)
  BY SearchWords, Zenon DEF Search!PollInactive, S!PollInactive, Search!Active, S!Active,
     Search!Holds, S!Holds, Search!database, S!database
<1>11. Search!WorkerStops(w) => S!WorkerStops(w)
  BY SearchWords, Zenon DEF Search!WorkerStops, S!WorkerStops, Search!database, S!database
<1> QED
  BY <1>2, <1>3, <1>4, <1>5, <1>8, <1>9, <1>10, <1>11, SearchWords, Zenon
     DEF Search!Claims, S!Claims, Search!Works, S!Works

------------------------------------------------------------------------------
(***************************************************************************)
(* What links the services. Search has taken only events that Cabinet has  *)
(* committed; what Cabinet has received are events of the history of       *)
(* Search, each under its own revision; and a trip is running once an      *)
(* event later than queued has reached it.                                 *)
(***************************************************************************)
Taken(q) == inbox[q] \subseteq outbox[q]

Heard(q) ==
    \A h \in history[q] :
        /\ h.revision \in DOMAIN progress[q]
        /\ progress[q][h.revision].planner = h.planner
        /\ progress[q][h.revision].stage = h.stage

Shown(q) ==
    /\ trip[q].status = "saved" => trip[q].stage \in {"not_started", "queued"}
    /\ trip[q].status = "running" => trip[q].stage \notin {"not_started", "queued"}

Linked == \A q \in Requests : Taken(q) /\ Heard(q) /\ Shown(q)

SearchKept == S!Inductive /\ S!Rows /\ S!Histories

Kept == C!Inductive /\ SearchKept /\ Linked

LEMMA InitLinked == Init => Linked
BY DEF Init, Cabinet!Init, Cabinet!NoTrip, Search!Init, Linked, Taken, Heard, Shown

\* A step of Search on its own, or with an event that Cabinet has committed.
LEMMA SearchStep ==
    ASSUME Kept, S!Next, UNCHANGED cabinet,
           \A q \in Requests : inbox'[q] \subseteq outbox[q]
    PROVE  Kept'
<1>1. [S!Next]_(S!vars)
  OBVIOUS
<1>2. SearchKept'
  BY <1>1, Deployed, S!NextInductive, S!NextRows, S!NextHistories DEF Kept, SearchKept
<1>3. C!Inductive'
  BY C!NextInductive, Deployed DEF Kept, cabinet, C!vars
<1>4. \A q \in Requests : \A i \in DOMAIN progress[q] :
          i \in DOMAIN progress'[q] /\ progress'[q][i] = progress[q][i]
  BY <1>1, <1>2, Deployed, S!HistoryGrows DEF Kept, SearchKept
<1>5. Linked'
  BY <1>4 DEF Kept, Linked, Taken, Heard, Shown, cabinet
<1> QED
  BY <1>2, <1>3, <1>5 DEF Kept

LEMMA SearchUnchanged ==
    ASSUME SearchKept, UNCHANGED search
    PROVE  SearchKept'
<1>1. [S!Next]_(S!vars)
  BY DEF search, S!vars
<1> QED
  BY <1>1, Deployed, S!NextInductive, S!NextRows, S!NextHistories DEF SearchKept

LEMMA BuildSteps ==
    ASSUME Kept, NEW w \in Workers, Build(w)
    PROVE  Kept'
<1>1. (S!Claims(w) \/ S!Works(w) \/ S!WorkerStops(w)) /\ UNCHANGED cabinet
  BY WorkerSteps DEF Build
<1>2. S!Next
  BY <1>1 DEF S!Next
<1>3. inbox' = inbox
  BY <1>1 DEF S!Claims, S!Works, S!WorkerStops, S!ClaimSelect, S!ClaimLost, S!ClaimStart,
     S!ClaimExhausted, S!FinishSource, S!DropResult, S!PollInactive, S!database
<1> QED
  BY <1>1, <1>2, <1>3, SearchStep DEF Kept, Linked, Taken

LEMMA ConsumeTripSteps ==
    ASSUME Kept, NEW q \in Requests, ConsumeTrip(q) \/ LeaseLapses(q)
    PROVE  Kept'
<1>1. inbox \in [Requests -> SUBSET S!EventTypes]
  BY DEF Kept, SearchKept, S!Inductive, S!Typed, S!TypeOK
<1>2. CASE LeaseLapses(q)
  <2>1. S!LeaseLapses(q) /\ UNCHANGED cabinet
    BY <1>2, ReceiveSteps DEF LeaseLapses
  <2>2. S!Next /\ inbox' = inbox
    BY <2>1 DEF S!Next, S!LeaseLapses
  <2> QED
    BY <2>1, <2>2, SearchStep DEF Kept, Linked, Taken
<1>3. CASE ConsumeTrip(q)
  <2>1. /\ \/ "created" \in outbox[q] /\ S!ApplyCreated(q)
           \/ "cancelled" \in outbox[q] /\ S!ApplyCancelled(q)
           \/ "expired" \in outbox[q] /\ S!ApplyExpired(q)
        /\ UNCHANGED cabinet
    BY <1>3, ReceiveSteps DEF ConsumeTrip
  <2>2. PICK type \in outbox[q] : S!Receive(q, type)
    BY <2>1 DEF S!ApplyCreated, S!ApplyCancelled, S!ApplyExpired
  <2>3. inbox' = [inbox EXCEPT ![q] = inbox[q] \cup {type}]
    BY <2>2 DEF S!Receive
  <2>4. \A p \in Requests : inbox'[p] \subseteq outbox[p]
    BY <1>1, <2>3 DEF Kept, Linked, Taken
  <2>5. S!Next
    BY <2>1 DEF S!Next, S!Receives
  <2> QED
    BY <2>1, <2>4, <2>5, SearchStep
<1> QED
  BY <1>2, <1>3

\* A step of Cabinet on its own: the status of one trip changes, or nothing that links.
LEMMA CabinetStep ==
    ASSUME Kept, C!Inductive', UNCHANGED search, UNCHANGED history,
           \/ UNCHANGED <<trip, outbox>>
           \/ \E q \in Requests, new \in {"saved", "cancelled", "expired"}, type \in C!Mail :
                 /\ new = "saved" => trip[q].status = "absent"
                 /\ trip' = [trip EXCEPT ![q].status = new]
                 /\ outbox' = [outbox EXCEPT ![q] = outbox[q] \cup {type}]
    PROVE  Kept'
<1>1. SearchKept'
  BY SearchUnchanged DEF Kept
<1>2. CASE UNCHANGED <<trip, outbox>>
  BY <1>1, <1>2 DEF Kept, Linked, Taken, Heard, Shown, search
<1>3. ASSUME NEW q \in Requests, NEW new \in {"saved", "cancelled", "expired"}, NEW type \in C!Mail,
             new = "saved" => trip[q].status = "absent",
             trip' = [trip EXCEPT ![q].status = new],
             outbox' = [outbox EXCEPT ![q] = outbox[q] \cup {type}]
      PROVE  Kept'
  <2>1. /\ trip \in [Requests -> C!Trip] /\ trip[q] \in C!Trip
        /\ outbox \in [Requests -> SUBSET C!Mail]
    BY DEF Kept, C!Inductive, C!Typed
  <2>2. /\ trip'[q].status = new /\ trip'[q].stage = trip[q].stage
        /\ \A p \in Requests : p # q => trip'[p] = trip[p]
    BY <1>3, <2>1 DEF C!Trip
  <2>3. \A p \in Requests : outbox[p] \subseteq outbox'[p]
    BY <1>3, <2>1
  <2>4. trip[q].status = "absent" => trip[q].stage = "not_started"
    BY DEF Kept, C!Inductive, C!ProjectionIsNewest, C!ShowsNewest, C!Aggregates
  <2>5. \A p \in Requests : Shown(p)'
    BY <1>3, <2>2, <2>4 DEF Kept, Linked, Shown
  <2>6. \A p \in Requests : Taken(p)' /\ Heard(p)'
    BY <2>3 DEF Kept, Linked, Taken, Heard, search
  <2> QED
    BY <1>1, <2>5, <2>6 DEF Kept, Linked
<1> QED
  BY <1>2, <1>3

LEMMA OwnerKeeps ==
    ASSUME Kept, NEW q \in Requests, Owner(q) \/ DayEnds(q)
    PROVE  Kept'
<1>1. CASE Owner(q) /\ C!CreateTrip(q)
  <2>1. C!Inductive'
    BY <1>1, Deployed, C!CreateTripKeeps DEF Kept
  <2>2. /\ trip[q].status = "absent" /\ trip' = [trip EXCEPT ![q].status = "saved"]
        /\ outbox' = [outbox EXCEPT ![q] = outbox[q] \cup {"created"}]
        /\ UNCHANGED history /\ UNCHANGED search
    BY <1>1 DEF C!CreateTrip, C!Record, Owner
  <2>3. "created" \in C!Mail
    BY DEF C!Mail
  <2> QED
    BY <2>1, <2>2, <2>3, CabinetStep
<1>2. CASE Owner(q) /\ C!CancelTrip(q)
  <2>1. C!Inductive'
    BY <1>2, Deployed, C!CancelTripKeeps DEF Kept
  <2>2. /\ trip' = [trip EXCEPT ![q].status = "cancelled"]
        /\ outbox' = [outbox EXCEPT ![q] = outbox[q] \cup {"cancelled"}]
        /\ UNCHANGED history /\ UNCHANGED search
    BY <1>2 DEF C!CancelTrip, C!Record, Owner
  <2>3. "cancelled" \in C!Mail /\ "cancelled" # "saved"
    BY DEF C!Mail
  <2> QED
    BY <2>1, <2>2, <2>3, CabinetStep
<1>3. CASE DayEnds(q)
  <2>1. C!DayEnds(q) /\ UNCHANGED search
    BY <1>3, OwnerSteps DEF DayEnds
  <2>2. C!Inductive' /\ UNCHANGED <<trip, outbox>> /\ UNCHANGED history
    BY <2>1, Deployed, C!DayEndsKeeps DEF Kept, C!DayEnds
  <2> QED
    BY <2>1, <2>2, CabinetStep
<1> QED
  BY <1>1, <1>2, <1>3, OwnerSteps DEF Owner

LEMMA ExpiryKeeps ==
    ASSUME Kept, NEW v \in Servers, Expiry(v)
    PROVE  Kept'
<1>1. C!Expiry(v) /\ UNCHANGED search
  BY ExpirySteps DEF Expiry
<1>2. C!Inductive'
  BY <1>1, Deployed, C!ExpiryKeeps DEF Kept
<1>3. UNCHANGED history
  BY <1>1 DEF C!Expiry, C!ExpiryPass, C!ExpireTrip, C!PassFails
<1>4. CASE C!ExpireTrip(v) /\ C!Expirable(Head(pass[v]))
  <2> DEFINE q == Head(pass[v])
  <2>1. /\ trip' = [trip EXCEPT ![q].status = "expired"]
        /\ outbox' = [outbox EXCEPT ![q] = outbox[q] \cup {"expired"}]
        /\ pass[v] # <<>>
    BY <1>4 DEF C!ExpireTrip, C!Record
  <2>2. pass[v] \in Seq(Requests)
    BY DEF Kept, C!Inductive, C!Typed
  <2>3. q \in Requests
    BY <2>1, <2>2
  <2> HIDE DEF q
  <2>4. "expired" \in C!Mail /\ "expired" # "saved"
    BY DEF C!Mail
  <2> QED
    BY <1>1, <1>2, <1>3, <2>1, <2>3, <2>4, CabinetStep
<1>5. CASE UNCHANGED <<trip, outbox>>
  BY <1>1, <1>2, <1>3, <1>5, CabinetStep
<1> QED
  BY <1>1, <1>4, <1>5 DEF C!Expiry, C!ExpiryPass, C!ExpireTrip, C!PassFails

\* An event of Search, before or after others: queued is the first of all.
LEMMA ConsumeProgressKeeps ==
    ASSUME Kept, NEW q \in Requests, ConsumeProgress(q)
    PROVE  Kept'
<1>1. PICK n \in DOMAIN progress[q] : Cabinet!ApplyProgress(q, n, progress[q][n])
  BY DEF ConsumeProgress
<1> DEFINE e == progress[q][n]
<1>2. C!ApplyProgress(q, n, e) /\ UNCHANGED search
  BY <1>1, OwnerSteps DEF ConsumeProgress
<1>3. progress[q] \in Seq(S!Event)
  BY DEF Kept, SearchKept, S!Inductive, S!Typed, S!TypeOK
<1>4. n \in Nat \ {0} /\ e \in S!Event
  BY <1>1, <1>3
<1>5. e.planner \in C!Planners /\ e.stage \in C!BuildingStages
  BY <1>4 DEF S!Event, S!Sources, S!Stages, S!Finished, C!Planners, C!BuildingStages
<1>6. SearchKept'
  BY <1>2, SearchUnchanged DEF Kept
<1>7. e.planner = "all" /\ e.stage = "queued" => n = 1
  BY <1>1 DEF Kept, SearchKept, S!Histories, S!HistoryTells, S!LastTells, S!AllOf
<1> HIDE DEF e
<1>8. C!Inductive'
  BY <1>2, <1>4, <1>5, Deployed, C!ApplyProgressKeeps DEF Kept
<1>9. /\ trip \in [Requests -> C!Trip] /\ trip[q] \in C!Trip
      /\ history \in [Requests -> SUBSET C!Entry]
  BY DEF Kept, C!Inductive, C!Typed
<1> DEFINE h == [revision |-> n, planner |-> e.planner, stage |-> e.stage]
<1>10. history' = [history EXCEPT ![q] = history[q] \cup {h}] /\ outbox' = outbox
  BY <1>2 DEF C!ApplyProgress
<1>11. h.revision = n /\ h.planner = e.planner /\ h.stage = e.stage
  OBVIOUS
<1> HIDE DEF h
<1>12. \A p \in Requests : Taken(p)' /\ Heard(p)'
  <2>1. \A p \in Requests : Taken(p)'
    BY <1>2, <1>10 DEF Kept, Linked, Taken, search
  <2>2. \A p \in Requests : p # q => history'[p] = history[p]
    BY <1>9, <1>10
  <2>3. \A k \in history'[q] : k \in history[q] \/ k = h
    BY <1>9, <1>10
  <2>4. Heard(q)'
    BY <1>1, <1>2, <1>11, <2>3 DEF Kept, Linked, Heard, e, search
  <2> QED
    BY <1>2, <2>1, <2>2, <2>4 DEF Kept, Linked, Heard, search
<1>13. \A p \in Requests : Shown(p)'
  <2>1. \A p \in Requests : p # q => trip'[p] = trip[p]
    BY <1>2, <1>9 DEF C!ApplyProgress
  <2>2. Shown(q)'
    <3>1. CASE ~C!Moves(q, n, e)
      <4>1. trip' = trip
        BY <1>2, <3>1 DEF C!ApplyProgress
      <4> QED
        BY <4>1 DEF Kept, Linked, Shown
    <3>2. CASE C!Moves(q, n, e)
      <4>1. /\ trip[q].status \in {"saved", "running"} /\ e.planner = "all"
            /\ trip[q].revision < n
        BY <3>2 DEF C!Moves, C!Active
      <4>2. trip' = [trip EXCEPT ![q] =
                [status |-> IF e.stage = "queued" THEN trip[q].status ELSE "running",
                 stage |-> e.stage, revision |-> n]]
        BY <1>2, <3>2 DEF C!ApplyProgress
      <4>3. /\ trip'[q].status = IF e.stage = "queued" THEN trip[q].status ELSE "running"
            /\ trip'[q].stage = e.stage
        BY <1>9, <4>2
      <4>4. ASSUME e.stage = "queued", trip[q].status = "running"
            PROVE  FALSE
        <5>1. n = 1 /\ trip[q].revision = 0
          BY <1>4, <1>7, <1>9, <4>1, <4>4 DEF C!Trip
        <5>2. trip[q].stage # "not_started" /\ C!ShowsNewest(q)
          BY <4>1, <4>4 DEF Kept, Linked, Shown, C!Inductive, C!ProjectionIsNewest, C!Active
        <5>3. PICK k \in C!Aggregates(q) : trip[q].revision = k.revision
          BY <5>2 DEF C!ShowsNewest
        <5>4. k.revision > 0
          BY DEF Kept, C!Inductive, C!ProjectionIsNewest, C!Aggregates
        <5> QED
          BY <5>1, <5>3, <5>4
      <4> QED
        BY <1>5, <4>1, <4>3, <4>4 DEF Shown, C!BuildingStages
    <3> QED
      BY <3>1, <3>2
  <2> QED
    BY <2>1, <2>2 DEF Kept, Linked, Shown
<1> QED
  BY <1>6, <1>8, <1>12, <1>13 DEF Kept, Linked

LEMMA NextKept == Kept /\ [Next]_vars => Kept'
<1> SUFFICES ASSUME Kept, [Next]_vars PROVE Kept'
  OBVIOUS
<1>1. CASE UNCHANGED vars
  <2>1. C!Inductive'
    BY <1>1, Deployed, C!NextInductive DEF vars, cabinet, C!vars, Kept
  <2> QED
    BY <1>1, <2>1, CabinetStep DEF vars, cabinet
<1> QED
  BY <1>1, OwnerKeeps, ExpiryKeeps, ConsumeTripSteps, ConsumeProgressKeeps, BuildSteps DEF Next

LEMMA AlwaysKept == Spec => []Kept
<1>1. Init => Kept
  BY InitKept, InitLinked DEF Kept, SearchKept
<1> QED
  BY <1>1, NextKept, PTL DEF Spec

------------------------------------------------------------------------------
LEMMA SameEnding ==
    ASSUME Kept, NEW q \in Requests, status[q] \in {"cancelled", "expired"}
    PROVE  trip[q].status = status[q]
<1>1. status[q] \in inbox[q]
  BY DEF Kept, SearchKept, S!Inductive, S!StatusFollowsInbox
<1>2. status[q] \in outbox[q]
  BY <1>1 DEF Kept, Linked, Taken
<1>3. outbox[q] = CASE trip[q].status = "absent" -> {}
                    [] trip[q].status \in C!Active -> {"created"}
                    [] OTHER -> {"created", trip[q].status}
  BY DEF Kept, C!Inductive, C!EventsTellStatus
<1> QED
  BY <1>2, <1>3

(***************************************************************************)
(* Both services give a request the same ending, whatever the order and    *)
(* the delay of the events (Apply of the inbox, ExpireTrips, CancelTrip).  *)
(***************************************************************************)
THEOREM EndingsAreTheSame == Spec => []EndingsAgree
<1>1. Kept => EndingsAgree
  BY SameEnding DEF EndingsAgree
<1> QED
  BY <1>1, AlwaysKept, PTL

(***************************************************************************)
(* No event of Search ever stops the progress consumer of Cabinet: all     *)
(* keep to the contract, and a cancelled stage is only reported when the   *)
(* trip is cancelled already (Decode, ApplyProgress).                      *)
(***************************************************************************)
THEOREM ConsumerNeverRefuses == Spec => []ProgressAccepted
<1>1. ASSUME Kept PROVE ProgressAccepted
  <2> SUFFICES ASSUME NEW q \in Requests, NEW n \in DOMAIN progress[q]
               PROVE  Search!Accepted(progress[q][n]) /\ ~Cabinet!Refuses(q, progress[q][n])
    BY DEF ProgressAccepted
  <2> DEFINE e == progress[q][n]
  <2>1. S!LastTells(progress[q], building[q].stage, status[q])
    BY <1>1 DEF Kept, SearchKept, S!Histories, S!HistoryTells
  <2>2. S!Accepted(e)
    BY <2>1 DEF S!LastTells
  <2>3. Search!Accepted(e)
    BY <2>2, Zenon DEF S!Accepted, Search!Accepted, S!Finished, Search!Finished
  <2>4. ~Cabinet!Refuses(q, e)
    <3> SUFFICES ASSUME e.planner = "all", e.stage = "cancelled"
                 PROVE  trip[q].status \notin {"saved", "running"}
      BY DEF Cabinet!Refuses, Cabinet!Active
    <3>1. n \in S!AllOf(progress[q])
      BY DEF S!AllOf
    <3>2. status[q] = "cancelled"
      BY <2>1, <3>1 DEF S!LastTells
    <3> QED
      BY <1>1, <3>2, SameEnding
  <2> QED
    BY <2>3, <2>4
<1> QED
  BY <1>1, AlwaysKept, PTL

(***************************************************************************)
(* Once all events have arrived, in whatever order, the owner of an active *)
(* trip sees the stage Search is in, and running exactly when its building *)
(* has started (ApplyProgress, progressEvent).                             *)
(***************************************************************************)
THEOREM OwnerSeesSearch == Spec => []ProjectionConverges
<1>1. ASSUME Kept PROVE ProjectionConverges
  <2> SUFFICES ASSUME NEW q \in Requests, trip[q].status \in {"saved", "running"},
                      Cabinet!Received(q) = DOMAIN progress[q]
               PROVE  IF building[q].stage = "absent" THEN trip[q].stage = "not_started"
                      ELSE /\ trip[q].stage = building[q].stage
                           /\ trip[q].status = "running" <=> building[q].started
    BY DEF ProjectionConverges, Cabinet!Active
  <2> DEFINE p == progress[q]
  <2>1. S!LastTells(p, building[q].stage, status[q]) /\ S!BuildingTells(building[q])
    BY <1>1 DEF Kept, SearchKept, S!Histories, S!HistoryTells, S!Rows, S!RowsTell
  <2>2. /\ Heard(q) /\ Shown(q) /\ C!ShowsNewest(q)
        /\ p \in Seq(S!Event) /\ building[q] \in S!Building
        /\ history[q] \subseteq C!Entry /\ trip[q] \in C!Trip
    BY <1>1 DEF Kept, SearchKept, Linked, C!Inductive, C!Typed, C!ProjectionIsNewest, C!Active,
       S!Inductive, S!Typed, S!TypeOK
  <2>3. DOMAIN p = {h.revision : h \in history[q]}
    BY DEF Cabinet!Received
  <2>4. CASE building[q].stage = "absent"
    <3>1. DOMAIN p = {}
      BY <2>1, <2>4 DEF S!LastTells
    <3>2. C!Aggregates(q) = {}
      BY <2>3, <3>1 DEF C!Aggregates
    <3> QED
      BY <2>2, <2>4, <3>2 DEF C!ShowsNewest
  <2>5. CASE building[q].stage # "absent"
    <3>1. PICK i \in S!AllOf(p) : /\ p[i].stage = building[q].stage
                                  /\ \A j \in S!AllOf(p) : j <= i
      BY <2>1, <2>5 DEF S!LastTells
    <3>2. PICK h \in history[q] : h.revision = i
      BY <2>3 DEF S!AllOf
    <3>3. h \in C!Aggregates(q) /\ h.stage = building[q].stage
      BY <2>2, <3>1, <3>2 DEF Heard, C!Aggregates, S!AllOf
    <3>4. PICK k \in C!Aggregates(q) :
              /\ trip[q].stage = k.stage /\ \A m \in C!Aggregates(q) : m.revision <= k.revision
      BY <2>2, <3>3 DEF C!ShowsNewest
    <3>5. k.revision \in S!AllOf(p) /\ p[k.revision].stage = k.stage
      BY <2>2 DEF Heard, C!Aggregates, S!AllOf
    <3>6. k.revision = i
      <4>1. i <= k.revision /\ k.revision <= i
        BY <3>1, <3>2, <3>3, <3>4, <3>5
      <4>2. i \in Nat /\ k.revision \in Nat
        BY <2>2, <3>5 DEF S!AllOf
      <4> QED
        BY <4>1, <4>2
    <3>7. trip[q].stage = building[q].stage
      BY <3>1, <3>4, <3>5, <3>6
    <3>8. building[q].stage # "cancelled"
      <4> SUFFICES ASSUME building[q].stage = "cancelled" PROVE FALSE
        OBVIOUS
      <4>1. status[q] = "cancelled"
        BY <2>1, <3>1 DEF S!LastTells
      <4> QED
        BY <1>1, <4>1, SameEnding
    <3>9. building[q].stage \in {"queued", "building"} \cup S!Finished
      BY <2>2, <2>5, <3>8 DEF S!Building, S!Stages
    <3>10. building[q].started <=> building[q].stage # "queued"
      BY <2>1, <2>2, <3>9 DEF S!BuildingTells, S!Building, S!Finished
    <3>11. trip[q].status = "running" <=> trip[q].stage \notin {"not_started", "queued"}
      BY <2>2 DEF Shown
    <3> QED
      BY <2>5, <3>7, <3>9, <3>10, <3>11 DEF S!Finished
  <2> QED
    BY <2>4, <2>5
<1> QED
  BY <1>1, AlwaysKept, PTL

==============================================================================
