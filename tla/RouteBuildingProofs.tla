------------------------- MODULE RouteBuildingProofs -------------------------
(***************************************************************************)
(* Proofs about RouteBuilding, for any requests, processes, configured     *)
(* sources, results and number of attempts.                                *)
(***************************************************************************)
EXTENDS RouteBuilding, FiniteSetTheorems, TLAPS

------------------------------------------------------------------------------
(***************************************************************************)
(* What the operators of RouteBuilding return.                             *)
(***************************************************************************)
LEMMA OrderIsSequence ==
    ASSUME NEW S \in SUBSET Sources, NEW order \in SetToSeqs(S)
    PROVE  order \in Seq(S)
<1>1. IsFiniteSet(Sources)
  <2>1. IsFiniteSet({"graph"})
    BY FS_Singleton
  <2>2. IsFiniteSet({"graph"} \cup {"gemini"})
    BY <2>1, FS_AddElement
  <2>3. {"graph"} \cup {"gemini"} = Sources
    BY DEF Sources
  <2> QED
    BY <2>2, <2>3
<1>2. Cardinality(S) \in Nat
  BY <1>1, FS_Subset, FS_CardinalityType
<1>3. order \in [1..Cardinality(S) -> S]
  BY DEF SetToSeqs
<1> QED
  BY <1>2, <1>3

LEMMA SourceEventType ==
    ASSUME NEW s \in Sources, NEW r \in Run, r.stage # "absent"
    PROVE  SourceEvent(s, r) \in Event
BY DEF SourceEvent, Event, Run, Stages, Finished

LEMMA SourceEventsType ==
    ASSUME NEW S \in SUBSET Sources, NEW order \in SetToSeqs(S),
           NEW rs \in [Sources -> Run], \A s \in S : rs[s].stage # "absent"
    PROVE  SourceEvents(order, rs) \in Seq(Event)
<1>1. order \in Seq(S)
  BY OrderIsSequence
<1>2. \A i \in DOMAIN order : SourceEvent(order[i], rs[order[i]]) \in Event
  BY <1>1, SourceEventType
<1>3. Len(order) \in Nat /\ DOMAIN order = 1..Len(order)
  BY <1>1
<1>4. SourceEvents(order, rs) \in [1..Len(order) -> Event]
  BY <1>2, <1>3 DEF SourceEvents
<1> QED
  BY <1>3, <1>4

LEMMA AggregateEventType ==
    ASSUME NEW b \in Building, b.stage # "absent", NEW n \in 0..100, NEW x \in BOOLEAN
    PROVE  AggregateEvent(b, n, x) \in Event
BY DEF AggregateEvent, Event, Building, Stages, Finished, Outcomes

LEMMA OpenEventType ==
    ASSUME NEW b \in Building, b.stage # "absent"
    PROVE  AggregateEvent(b, 0, FALSE) \in Event /\ AggregateEvent(b, 0, TRUE) \in Event
BY DEF AggregateEvent, Event, Building, Stages, Finished, Outcomes

LEMMA EmitType ==
    ASSUME progress \in [Requests -> Seq(Event)], NEW q \in Requests,
           NEW events \in Seq(Event), Emit(q, events)
    PROVE  progress' \in [Requests -> Seq(Event)]
BY DEF Emit

LEMMA RunChanges ==
    ASSUME NEW rs \in [Sources -> Run]
    PROVE  /\ CancelledRuns(rs) \in [Sources -> Run]
           /\ ExhaustedRuns(rs) \in [Sources -> Run]
           /\ \A S \in SUBSET Sources, n \in 0..MaxAttempts :
                  StartedRuns(rs, S, n) \in [Sources -> Run]
<1>1. \A r \in Run : [r EXCEPT !.stage = "cancelled", !.finished = TRUE] \in Run
  BY DEF Run, Stages
<1>2. \A r \in Run : [r EXCEPT !.stage = "failed", !.outcome = "timeout",
                                !.incomplete = TRUE, !.finished = TRUE] \in Run
  BY DEF Run, Stages, Finished, Outcomes
<1>3. \A r \in Run, n \in 0..MaxAttempts :
          [r EXCEPT !.stage = "building", !.attempt = n] \in Run
  BY DEF Run, Stages
<1>4. \A s \in Sources : rs[s] \in Run
  OBVIOUS
<1>5. CancelledRuns(rs) \in [Sources -> Run]
  BY <1>1, <1>4 DEF CancelledRuns
<1>6. ExhaustedRuns(rs) \in [Sources -> Run]
  BY <1>2, <1>4 DEF ExhaustedRuns
<1>7. ASSUME NEW S \in SUBSET Sources, NEW n \in 0..MaxAttempts
      PROVE  StartedRuns(rs, S, n) \in [Sources -> Run]
  BY <1>3, <1>4 DEF StartedRuns
<1> QED
  BY <1>5, <1>6, <1>7

LEMMA RunStages ==
    ASSUME NEW rs \in [Sources -> Run], NEW s \in Sources
    PROVE  /\ CancelledRuns(rs)[s].stage =
                  IF rs[s].stage = "building" THEN "cancelled" ELSE rs[s].stage
           /\ ExhaustedRuns(rs)[s].stage =
                  IF rs[s].stage = "building" THEN "failed" ELSE rs[s].stage
           /\ \A S \in SUBSET Sources, n \in 0..MaxAttempts :
                  StartedRuns(rs, S, n)[s].stage =
                      IF s \in S THEN "building" ELSE rs[s].stage
<1>1. rs[s] \in Run
  OBVIOUS
<1>2. /\ [rs[s] EXCEPT !.stage = "cancelled", !.finished = TRUE].stage = "cancelled"
      /\ [rs[s] EXCEPT !.stage = "failed", !.outcome = "timeout",
                       !.incomplete = TRUE, !.finished = TRUE].stage = "failed"
  BY <1>1 DEF Run
<1>3. \A n : [rs[s] EXCEPT !.stage = "building", !.attempt = n].stage = "building"
  BY <1>1 DEF Run
<1>4. CancelledRuns(rs)[s].stage = IF rs[s].stage = "building" THEN "cancelled" ELSE rs[s].stage
  BY <1>2 DEF CancelledRuns, Open
<1>5. ExhaustedRuns(rs)[s].stage = IF rs[s].stage = "building" THEN "failed" ELSE rs[s].stage
  BY <1>2 DEF ExhaustedRuns, Open
<1>6. \A S \in SUBSET Sources, n \in 0..MaxAttempts :
          StartedRuns(rs, S, n)[s].stage = IF s \in S THEN "building" ELSE rs[s].stage
  BY <1>3 DEF StartedRuns
<1> QED
  BY <1>4, <1>5, <1>6

LEMMA CancelledBuildingType ==
    ASSUME NEW b \in Building
    PROVE  CancelledBuilding(b) \in Building /\ CancelledBuilding(b).stage = "cancelled"
BY DEF CancelledBuilding, Building, Stages

LEMMA TotalType ==
    ASSUME NEW rs \in [Sources -> Run]
    PROVE  Total(rs) \in 0..100
BY DEF Total, Run, Sources

LEMMA AggregateStageType ==
    ASSUME NEW rs \in [Sources -> Run]
    PROVE  AggregateStage(rs) \in Finished
BY TotalType DEF AggregateStage, Finished

LEMMA ClosedType ==
    ASSUME NEW b \in Building, NEW rs \in [Sources -> Run]
    PROVE  /\ Closed(b, rs) \in Building
           /\ Closed(b, rs).stage = AggregateStage(rs)
           /\ Closed(b, rs).planners = b.planners
           /\ ClosingEvent(Closed(b, rs), rs) \in Event
<1>1. /\ Closed(b, rs) \in Building
      /\ Closed(b, rs).stage = AggregateStage(rs)
      /\ Closed(b, rs).planners = b.planners
  BY AggregateStageType DEF Closed, Building, Stages
<1>2. Closed(b, rs).stage # "absent"
  BY <1>1, AggregateStageType DEF Finished
<1>3. \A s \in Sources : rs[s].incomplete \in BOOLEAN
  BY DEF Run
<1> QED
  BY <1>1, <1>2, <1>3, TotalType, AggregateEventType DEF ClosingEvent

LEMMA SingleEvents ==
    ASSUME NEW e \in Event, NEW f \in Event, NEW events \in Seq(Event)
    PROVE  /\ <<e>> \in Seq(Event)
           /\ <<e, f>> \in Seq(Event)
           /\ <<e>> \o events \in Seq(Event)
           /\ events \o <<e>> \in Seq(Event)
OBVIOUS

------------------------------------------------------------------------------
(***************************************************************************)
(* Every action keeps the types. A selected job always names a request.    *)
(***************************************************************************)
Selected ==
    \A w \in Workers : job[w].pc # "idle" => job[w].request \in Requests

Typed == TypeOK /\ Selected

LEMMA InitTyped == Init => Typed
<1>1. NoRun \in Run
  BY AttemptsAssumption DEF NoRun, Run, Outcomes
<1>2. NoBuilding \in Building
  BY AttemptsAssumption DEF NoBuilding, Building
<1>3. Idle \in Job /\ Idle.pc = "idle"
  BY AttemptsAssumption DEF Idle, Job
<1>4. <<>> \in Seq(Event)
  OBVIOUS
<1> QED
  BY <1>1, <1>2, <1>3, <1>4 DEF Init, Typed, TypeOK, Selected, Statuses

LEMMA ReceivesTyped ==
    ASSUME Typed, NEW q \in Requests, Receives(q)
    PROVE  Typed'
<1> USE DEF Typed
<1>1. CASE ApplyCreated(q)
  <2> USE <1>1 DEF ApplyCreated, Receive
  <2>1. inbox' \in [Requests -> SUBSET EventTypes]
    BY DEF TypeOK, EventTypes
  <2>2. status' \in [Requests -> Statuses] /\ snapshot' \in [Requests -> BOOLEAN]
    BY DEF TypeOK, Statuses
  <2>3. building' \in [Requests -> Building] /\ progress' \in [Requests -> Seq(Event)]
    <3>1. CASE status'[q] = "pending" /\ building[q].stage = "absent"
      <4> DEFINE b == [building[q] EXCEPT !.stage = "queued"]
      <4>1. b \in Building /\ b.stage = "queued"
        BY DEF TypeOK, Building, Stages
      <4>2. building' = [building EXCEPT ![q] = b]
        BY <3>1
      <4>3. building' \in [Requests -> Building] /\ building'[q] = b
        BY <4>1, <4>2 DEF TypeOK
      <4> HIDE DEF b
      <4>4. AggregateEvent(b, 0, FALSE) \in Event
        BY <4>1, OpenEventType
      <4> QED
        BY <3>1, <4>3, <4>4, SingleEvents, EmitType DEF TypeOK
    <3> QED
      BY <3>1 DEF TypeOK
  <2> QED
    BY <2>1, <2>2, <2>3 DEF TypeOK, Selected
<1>2. CASE ApplyCancelled(q)
  <2> USE <1>2 DEF ApplyCancelled, Receive
  <2>1. inbox' \in [Requests -> SUBSET EventTypes]
    BY DEF TypeOK, EventTypes
  <2>2. status' \in [Requests -> Statuses]
    BY DEF TypeOK, Statuses
  <2>3. /\ building' \in [Requests -> Building]
        /\ runs' \in [Requests -> [Sources -> Run]]
        /\ progress' \in [Requests -> Seq(Event)]
    <3>1. CASE building[q].stage \notin {"absent", "cancelled"}
      <4>1. building' \in [Requests -> Building] /\ building'[q].stage = "cancelled"
        <5>1. building' = [building EXCEPT ![q] = CancelledBuilding(building[q])]
          BY <3>1
        <5>2. CancelledBuilding(building[q]) \in Building
          BY CancelledBuildingType DEF TypeOK
        <5>3. CancelledBuilding(building[q]).stage = "cancelled"
          BY CancelledBuildingType DEF TypeOK
        <5> QED
          BY <5>1, <5>2, <5>3 DEF TypeOK
      <4>2. runs[q] \in [Sources -> Run] /\ runs'[q] = CancelledRuns(runs[q])
        BY <3>1 DEF TypeOK
      <4>3. runs' \in [Requests -> [Sources -> Run]] /\ runs'[q] \in [Sources -> Run]
        BY <3>1, <4>2, RunChanges DEF TypeOK
      <4>4. \A s \in Open(runs[q]) : runs'[q][s].stage # "absent"
        BY <4>2 DEF CancelledRuns, Open, Run
      <4>5. AggregateEvent(building'[q], 0, TRUE) \in Event
        BY <4>1, OpenEventType
      <4>6. Open(runs[q]) \in SUBSET Sources
        BY DEF Open
      <4>7. PICK order \in SetToSeqs(Open(runs[q])) :
                Emit(q, SourceEvents(order, runs'[q]) \o <<AggregateEvent(building'[q], 0, TRUE)>>)
        BY <3>1
      <4>8. SourceEvents(order, runs'[q]) \in Seq(Event)
        BY <4>3, <4>4, <4>6, SourceEventsType
      <4> QED
        BY <4>1, <4>3, <4>5, <4>7, <4>8, SingleEvents, EmitType DEF TypeOK
    <3> QED
      BY <3>1 DEF TypeOK
  <2> QED
    BY <2>1, <2>2, <2>3 DEF TypeOK, Selected
<1>3. CASE ApplyExpired(q)
  BY <1>3 DEF ApplyExpired, Receive, Expire, TypeOK, Selected, EventTypes, Statuses
<1> QED
  BY <1>1, <1>2, <1>3 DEF Receives

LEMMA ClaimStartTyped ==
    ASSUME Typed, NEW w \in Workers, ClaimStart(w)
    PROVE  Typed'
<1> DEFINE q == job[w].request
           n == building[q].attempt + 1
           started == Startable(w, q)
           b == building'[q]
<1> USE DEF Typed
<1>1. q \in Requests /\ building[q] \in Building /\ runs[q] \in [Sources -> Run]
  BY DEF ClaimStart, Selected, TypeOK
<1>2. n \in 0..MaxAttempts
  BY <1>1, AttemptsAssumption DEF ClaimStart, Exhausted, Building
<1>3. SavedPlanners(w, building[q]) \in SUBSET Sources
  BY <1>1, MembersAssumption DEF SavedPlanners, Building
<1>4. started \in SUBSET Sources
  BY <1>3 DEF Startable
<1>5. building' \in [Requests -> Building] /\ b \in Building /\ b.stage = "building"
  <2> DEFINE c == [stage |-> "building", planners |-> SavedPlanners(w, building[q]),
                   attempt |-> n, holder |-> w, lease |-> "live", started |-> TRUE,
                   finished |-> FALSE]
  <2>1. c \in Building /\ c.stage = "building"
    BY <1>2, <1>3 DEF Building, Stages
  <2>2. building' = [building EXCEPT ![q] = c]
    BY DEF ClaimStart
  <2> HIDE DEF c, q
  <2> QED
    BY <1>1, <2>1, <2>2 DEF TypeOK
<1>6. /\ runs' \in [Requests -> [Sources -> Run]]
      /\ runs'[q] = StartedRuns(runs[q], started, n)
      /\ runs'[q] \in [Sources -> Run]
  <2>1. runs' = [runs EXCEPT ![q] = StartedRuns(runs[q], started, n)]
    BY DEF ClaimStart
  <2>2. StartedRuns(runs[q], started, n) \in [Sources -> Run]
    BY <1>1, <1>2, <1>4, RunChanges
  <2> HIDE DEF q, n, started
  <2> QED
    BY <1>1, <2>1, <2>2 DEF TypeOK
<1>7. \A s \in started : runs'[q][s].stage # "absent"
  <2> HIDE DEF q, n, started
  <2> QED
    BY <1>1, <1>2, <1>4, <1>6, RunStages
<1>8. progress' \in [Requests -> Seq(Event)]
  <2>1. PICK order \in SetToSeqs(started) :
            Emit(q, <<AggregateEvent(b, 0, TRUE)>> \o SourceEvents(order, runs'[q]))
    BY DEF ClaimStart
  <2> HIDE DEF q, n, started, b
  <2>2. SourceEvents(order, runs'[q]) \in Seq(Event)
    BY <1>4, <1>6, <1>7, SourceEventsType
  <2>3. AggregateEvent(b, 0, TRUE) \in Event
    BY <1>5, OpenEventType
  <2> QED
    BY <1>1, <2>1, <2>2, <2>3, SingleEvents, EmitType DEF TypeOK
<1>9. job' \in [Workers -> Job] /\ job'[w].request = q
  <2> DEFINE j == [pc |-> IF started = {} THEN "rejected" ELSE "working", request |-> q,
                   attempt |-> n, remaining |-> started]
  <2>1. j \in Job /\ j.request = q
    BY <1>1, <1>2, <1>4 DEF Job
  <2>2. job' = [job EXCEPT ![w] = j]
    BY DEF ClaimStart
  <2> HIDE DEF j, q
  <2> QED
    BY <2>1, <2>2 DEF TypeOK
<1>10. Selected'
  BY <1>1, <1>9 DEF ClaimStart, Selected, TypeOK
<1> QED
  BY <1>5, <1>6, <1>8, <1>9, <1>10 DEF ClaimStart, TypeOK

LEMMA ClaimExhaustedTyped ==
    ASSUME Typed, NEW w \in Workers, ClaimExhausted(w)
    PROVE  Typed'
<1> DEFINE q == job[w].request
           b == [building[q] EXCEPT !.planners = SavedPlanners(w, building[q])]
           rs == ExhaustedRuns(runs[q])
           open == Open(runs[q])
<1> USE DEF Typed
<1>1. q \in Requests /\ building[q] \in Building /\ runs[q] \in [Sources -> Run]
  BY DEF ClaimExhausted, Selected, TypeOK
<1>2. b \in Building
  BY <1>1, MembersAssumption DEF SavedPlanners, Building
<1>3. runs' = [runs EXCEPT ![q] = rs] /\ building' = [building EXCEPT ![q] = Closed(b, runs'[q])]
  BY DEF ClaimExhausted
<1>4. rs \in [Sources -> Run] /\ open \in SUBSET Sources
  BY <1>1, RunChanges DEF Open
<1>5. \A s \in open : rs[s].stage # "absent"
  BY <1>1, <1>4 DEF ExhaustedRuns, Run
<1>6. PICK order \in SetToSeqs(open) :
          Emit(q, SourceEvents(order, runs'[q]) \o <<ClosingEvent(building'[q], runs'[q])>>)
  BY DEF ClaimExhausted
<1>7. job' = [job EXCEPT ![w] = Idle] /\ UNCHANGED <<inbox, status, snapshot>>
  BY DEF ClaimExhausted
<1> HIDE DEF q, b, rs, open
<1>8. runs' \in [Requests -> [Sources -> Run]] /\ runs'[q] = rs
  BY <1>1, <1>3, <1>4 DEF TypeOK
<1>9. building' \in [Requests -> Building] /\ building'[q] = Closed(b, rs)
  BY <1>1, <1>2, <1>3, <1>4, <1>8, ClosedType DEF TypeOK
<1>10. SourceEvents(order, rs) \in Seq(Event) /\ ClosingEvent(Closed(b, rs), rs) \in Event
  BY <1>2, <1>4, <1>5, ClosedType, SourceEventsType
<1>11. progress' \in [Requests -> Seq(Event)]
  BY <1>1, <1>6, <1>8, <1>9, <1>10, SingleEvents, EmitType DEF TypeOK
<1>12. Idle \in Job /\ Idle.pc = "idle"
  BY AttemptsAssumption DEF Idle, Job
<1> QED
  BY <1>7, <1>8, <1>9, <1>11, <1>12 DEF TypeOK, Selected

LEMMA DoneType ==
    ASSUME NEW j \in Job, NEW s \in Sources
    PROVE  /\ Done(j, s) \in Job
           /\ Done(j, s).pc \in {"idle", j.pc}
           /\ Done(j, s).pc # "idle" => Done(j, s).request = j.request
<1>1. Idle \in Job /\ Idle.pc = "idle"
  BY AttemptsAssumption DEF Idle, Job
<1>2. CASE j.remaining = {s}
  BY <1>1, <1>2 DEF Done
<1>3. CASE j.remaining # {s}
  BY <1>3 DEF Done, Job
<1> QED
  BY <1>2, <1>3

LEMMA FinishSourceTyped ==
    ASSUME Typed, NEW w \in Workers, NEW s \in Sources, NEW r \in Results,
           FinishSource(w, s, r)
    PROVE  Typed'
<1> DEFINE q == job[w].request
           run == FinishedRun(runs[q][s], r)
<1> USE DEF Typed
<1>1. /\ q \in Requests /\ building[q] \in Building /\ runs[q] \in [Sources -> Run]
      /\ job[w] \in Job
  BY DEF FinishSource, Selected, TypeOK
<1>2. run \in Run /\ run.stage # "absent"
  <2>1. r \in SourceResult
    BY ResultsAssumption
  <2>2. r.count \in 0..50 /\ r.incomplete \in BOOLEAN /\ r.outcome \in Outcomes
    BY <2>1 DEF SourceResult
  <2>3. FinishStage(r) \in Finished
    BY <2>2 DEF FinishStage, Finished
  <2> QED
    BY <1>1, <2>2, <2>3 DEF FinishedRun, Run, Finished, Stages
<1>3. /\ runs' = [runs EXCEPT ![q][s] = run]
      /\ job' = [job EXCEPT ![w] = Done(job[w], s)]
      /\ UNCHANGED <<inbox, status, snapshot>>
  BY DEF FinishSource
<1>4. \/ /\ Emit(q, <<SourceEvent(s, runs'[q][s])>>)
         /\ UNCHANGED building
      \/ /\ building' = [building EXCEPT ![q] = Closed(building[q], runs'[q])]
         /\ Emit(q, <<SourceEvent(s, runs'[q][s]), ClosingEvent(building'[q], runs'[q])>>)
  BY DEF FinishSource
<1> HIDE DEF q, run
<1>5. /\ runs' \in [Requests -> [Sources -> Run]] /\ runs'[q] \in [Sources -> Run]
      /\ runs'[q][s] = run
  BY <1>1, <1>2, <1>3 DEF TypeOK
<1>6. SourceEvent(s, runs'[q][s]) \in Event
  BY <1>2, <1>5, SourceEventType
<1>7. building' \in [Requests -> Building] /\ progress' \in [Requests -> Seq(Event)]
  <2>1. CASE Emit(q, <<SourceEvent(s, runs'[q][s])>>) /\ UNCHANGED building
    BY <1>1, <1>6, <2>1, SingleEvents, EmitType DEF TypeOK
  <2>2. CASE /\ building' = [building EXCEPT ![q] = Closed(building[q], runs'[q])]
             /\ Emit(q, <<SourceEvent(s, runs'[q][s]), ClosingEvent(building'[q], runs'[q])>>)
    <3>1. /\ building' \in [Requests -> Building]
          /\ building'[q] = Closed(building[q], runs'[q])
      BY <1>1, <1>5, <2>2, ClosedType DEF TypeOK
    <3>2. ClosingEvent(building'[q], runs'[q]) \in Event
      BY <1>1, <1>5, <3>1, ClosedType
    <3> QED
      BY <1>1, <1>6, <2>2, <3>1, <3>2, SingleEvents, EmitType DEF TypeOK
  <2> QED
    BY <1>4, <2>1, <2>2
<1>8. job' \in [Workers -> Job] /\ Selected'
  BY <1>1, <1>3, DoneType DEF TypeOK, Selected
<1> QED
  BY <1>3, <1>5, <1>7, <1>8 DEF TypeOK

LEMMA WorkerTyped ==
    ASSUME Typed, NEW w \in Workers, Claims(w) \/ Works(w) \/ WorkerStops(w)
    PROVE  Typed'
<1> USE DEF Typed
<1>1. Idle \in Job /\ Idle.pc = "idle"
  BY AttemptsAssumption DEF Idle, Job
<1>2. CASE ClaimSelect(w)
  <2>1. PICK q \in Requests :
            job' = [job EXCEPT ![w] = [job[w] EXCEPT !.pc = "selected", !.request = q]]
    BY <1>2 DEF ClaimSelect
  <2> DEFINE j == [job[w] EXCEPT !.pc = "selected", !.request = q]
  <2>2. job[w] \in Job
    BY DEF TypeOK
  <2>3. j \in Job /\ j.request = q
    BY <2>2 DEF Job
  <2>4. job' = [job EXCEPT ![w] = j]
    BY <2>1
  <2> HIDE DEF j
  <2> QED
    BY <1>2, <2>3, <2>4 DEF ClaimSelect, TypeOK, Selected, database
<1>3. CASE ClaimStart(w)
  BY <1>3, ClaimStartTyped
<1>4. CASE ClaimExhausted(w)
  BY <1>4, ClaimExhaustedTyped
<1>5. CASE \E s \in Sources, r \in Results : FinishSource(w, s, r)
  BY <1>5, FinishSourceTyped
<1>6. CASE \E s \in Sources : DropResult(w, s)
  <2>1. PICK s \in Sources : DropResult(w, s)
    BY <1>6
  <2>2. job[w] \in Job /\ job' = [job EXCEPT ![w] = Done(job[w], s)]
    BY <2>1 DEF DropResult, TypeOK
  <2> QED
    BY <2>1, <2>2, DoneType DEF DropResult, TypeOK, Selected, database
<1>7. CASE ClaimLost(w) \/ PollInactive(w) \/ WorkerStops(w)
  BY <1>1, <1>7 DEF ClaimLost, PollInactive, WorkerStops, TypeOK, Selected, database
<1> QED
  BY <1>2, <1>3, <1>4, <1>5, <1>6, <1>7 DEF Claims, Works

LEMMA LeaseLapsesTyped ==
    ASSUME Typed, NEW q \in Requests, LeaseLapses(q)
    PROVE  Typed'
<1> DEFINE b == [building[q] EXCEPT !.lease = "lapsed"]
<1>1. building[q] \in Building
  BY DEF Typed, TypeOK
<1>2. b \in Building
  BY <1>1 DEF Building
<1>3. building' = [building EXCEPT ![q] = b]
  BY DEF LeaseLapses
<1> HIDE DEF b
<1> QED
  BY <1>2, <1>3 DEF LeaseLapses, Typed, TypeOK, Selected

LEMMA NextTyped == Typed /\ [Next]_vars => Typed'
<1> SUFFICES ASSUME Typed, [Next]_vars PROVE Typed'
  OBVIOUS
<1>1. CASE UNCHANGED vars
  BY <1>1 DEF Typed, TypeOK, Selected, vars
<1> QED
  BY <1>1, ReceivesTyped, LeaseLapsesTyped, WorkerTyped DEF Next

(***************************************************************************)
(* Every table keeps its types: in particular attempts stay within their   *)
(* maximum and the counts in the events of Search within their limits.     *)
(***************************************************************************)
THEOREM TypeCorrect == Spec => []TypeOK
<1>1. Typed => TypeOK
  BY DEF Typed
<1> QED
  BY <1>1, InitTyped, NextTyped, PTL DEF Spec

------------------------------------------------------------------------------
(***************************************************************************)
(* The properties are not inductive by themselves: a claim of a queued job *)
(* finds a source to start only because no run of it exists yet, and a     *)
(* lapsed one only because its runs are those of its saved sources.        *)
(***************************************************************************)
NotStarted(q) ==
    building[q].stage \in {"absent", "queued"} =>
        /\ building[q].planners = {}
        /\ building[q].attempt = 0
        /\ \A s \in Sources : runs[q][s].stage = "absent"

RunsAreSaved(q) ==
    building[q].stage \in Finished \cup {"building"} =>
        /\ building[q].planners # {}
        /\ \A s \in Sources : runs[q][s].stage # "absent" <=> s \in building[q].planners

OpenWhileBuilding(q) == building[q].stage = "building" <=> Open(runs[q]) # {}

Summarised(q) == building[q].stage \in Finished => building[q].stage = AggregateStage(runs[q])

CancelledJob(q) == status[q] = "cancelled" => building[q].stage \in {"absent", "cancelled"}

JobConsistent(q) ==
    /\ NotStarted(q)
    /\ RunsAreSaved(q)
    /\ OpenWhileBuilding(q)
    /\ Summarised(q)
    /\ CancelledJob(q)

Consistent == \A q \in Requests : JobConsistent(q)

Inductive == Typed /\ StatusFollowsInbox /\ Consistent /\ MembershipValid

LEMMA InitInductive == Init => Inductive
<1> SUFFICES ASSUME Init PROVE Inductive
  OBVIOUS
<1>1. StatusFollowsInbox
  BY DEF Init, StatusFollowsInbox
<1>2. Consistent
  BY DEF Init, Consistent, JobConsistent, NotStarted, RunsAreSaved, OpenWhileBuilding,
         Summarised, CancelledJob, NoBuilding, NoRun, Open, Finished
<1>3. MembershipValid
  BY DEF Init, MembershipValid, Idle
<1> QED
  BY <1>1, <1>2, <1>3, InitTyped DEF Inductive

\* A request whose job, runs and status stay as they are stays consistent.
LEMMA JobUntouched ==
    ASSUME NEW q \in Requests, JobConsistent(q), building'[q].stage = building[q].stage,
           building'[q].planners = building[q].planners,
           building'[q].attempt = building[q].attempt, runs'[q] = runs[q],
           status'[q] = "cancelled" => status[q] = "cancelled"
    PROVE  JobConsistent(q)'
BY DEF JobConsistent, NotStarted, RunsAreSaved, OpenWhileBuilding, Summarised,
       CancelledJob

------------------------------------------------------------------------------
LEMMA ReceivesStatus ==
    ASSUME Typed, StatusFollowsInbox, NEW q \in Requests, Receives(q)
    PROVE  StatusFollowsInbox'
<1> USE DEF Typed, TypeOK, StatusFollowsInbox, EventTypes, Statuses, Receive
<1>1. CASE ApplyCreated(q)
  <2>1. /\ inbox' = [inbox EXCEPT ![q] = @ \cup {"created"}]
        /\ status' = [status EXCEPT ![q] = IF @ = "absent" THEN "pending" ELSE @]
        /\ snapshot' = [snapshot EXCEPT ![q] = TRUE]
    BY <1>1 DEF ApplyCreated
  <2>2. \A p \in Requests : p # q =>
            inbox'[p] = inbox[p] /\ status'[p] = status[p] /\ snapshot'[p] = snapshot[p]
    BY <2>1
  <2>3. /\ inbox'[q] = inbox[q] \cup {"created"}
        /\ status'[q] = IF status[q] = "absent" THEN "pending" ELSE status[q]
        /\ snapshot'[q]
    BY <2>1
  <2>4. inbox[q] = {} \/ inbox[q] = {"created"} \/ "cancelled" \in inbox[q]
            \/ "expired" \in inbox[q]
    OBVIOUS
  <2>5. status[q] = "absent" <=> inbox[q] = {}
    BY <2>4
  <2>6. /\ status'[q] = "cancelled" <=> "cancelled" \in inbox'[q]
        /\ status'[q] = "expired" <=> "expired" \in inbox'[q] /\ "cancelled" \notin inbox'[q]
    BY <2>3, <2>5
  <2>7. status'[q] = "pending" <=> inbox'[q] = {"created"}
    BY <2>3, <2>4, <2>5
  <2>8. snapshot'[q] <=> "created" \in inbox'[q]
    BY <2>3
  <2>9. ASSUME NEW p \in Requests, p # q
        PROVE  /\ status'[p] = "cancelled" <=> "cancelled" \in inbox'[p]
               /\ status'[p] = "expired" <=> "expired" \in inbox'[p] /\ "cancelled" \notin inbox'[p]
               /\ status'[p] = "pending" <=> inbox'[p] = {"created"}
               /\ snapshot'[p] <=> "created" \in inbox'[p]
    BY <2>2, <2>9
  <2> QED
    BY <2>6, <2>7, <2>8, <2>9
<1>2. CASE ApplyCancelled(q)
  BY <1>2 DEF ApplyCancelled
<1>3. CASE ApplyExpired(q)
  BY <1>3 DEF ApplyExpired, Expire
<1> QED
  BY <1>1, <1>2, <1>3 DEF Receives

LEMMA ReceivesConsistent ==
    ASSUME Typed, Consistent, NEW q \in Requests, Receives(q)
    PROVE  Consistent'
<1> USE DEF Typed
<1>1. JobConsistent(q) /\ building[q] \in Building /\ runs[q] \in [Sources -> Run]
  BY DEF Consistent, TypeOK
<1>2. ASSUME NEW p \in Requests, p # q
      PROVE  JobConsistent(p)'
  <2>1. building'[p] = building[p] /\ runs'[p] = runs[p] /\ status'[p] = status[p]
    BY <1>2 DEF Receives, ApplyCreated, ApplyCancelled, ApplyExpired, TypeOK
  <2> QED
    BY <2>1, JobUntouched DEF Consistent
<1>3. JobConsistent(q)'
  <2>1. CASE ApplyCreated(q)
    <3>1. /\ runs'[q] = runs[q]
          /\ status'[q] = IF status[q] = "absent" THEN "pending" ELSE status[q]
      BY <2>1 DEF ApplyCreated, TypeOK
    <3>2. CASE status'[q] = "pending" /\ building[q].stage = "absent"
      <4>1. /\ building'[q].stage = "queued"
            /\ building'[q].planners = building[q].planners
            /\ building'[q].attempt = building[q].attempt
        BY <1>1, <2>1, <3>2 DEF ApplyCreated, TypeOK, Building
      <4> QED
        BY <1>1, <3>1, <3>2, <4>1 DEF JobConsistent, NotStarted, RunsAreSaved,
           OpenWhileBuilding, Summarised, CancelledJob, Finished
    <3>3. CASE ~(status'[q] = "pending" /\ building[q].stage = "absent")
      <4>1. building'[q] = building[q]
        BY <2>1, <3>3 DEF ApplyCreated
      <4> QED
        BY <1>1, <3>1, <4>1, JobUntouched
    <3> QED
      BY <3>2, <3>3
  <2>2. CASE ApplyCancelled(q)
    <3>1. CASE building[q].stage \in {"absent", "cancelled"}
      <4>1. building'[q] = building[q] /\ runs'[q] = runs[q]
        BY <2>2, <3>1 DEF ApplyCancelled
      <4> QED
        BY <1>1, <3>1, <4>1 DEF JobConsistent, NotStarted, RunsAreSaved,
           OpenWhileBuilding, Summarised, CancelledJob
    <3>2. CASE building[q].stage \notin {"absent", "cancelled"}
      <4>1. building'[q].stage = "cancelled"
        BY <1>1, <2>2, <3>2, CancelledBuildingType DEF ApplyCancelled, TypeOK
      <4>2. runs'[q] = CancelledRuns(runs[q])
        BY <2>2, <3>2 DEF ApplyCancelled, TypeOK
      <4>3. Open(runs'[q]) = {}
        BY <1>1, <4>2, RunStages DEF Open
      <4> QED
        BY <4>1, <4>3 DEF JobConsistent, NotStarted, RunsAreSaved, OpenWhileBuilding,
           Summarised, CancelledJob, Finished
    <3> QED
      BY <3>1, <3>2
  <2>3. CASE ApplyExpired(q)
    <3>1. status'[q] = "cancelled" => status[q] = "cancelled"
      BY <2>3 DEF ApplyExpired, Expire, TypeOK
    <3> QED
      BY <1>1, <2>3, <3>1, JobUntouched DEF ApplyExpired
  <2> QED
    BY <2>1, <2>2, <2>3 DEF Receives
<1> QED
  BY <1>2, <1>3 DEF Consistent

LEMMA ClaimStartConsistent ==
    ASSUME Typed, Consistent, MembershipValid, NEW w \in Workers, ClaimStart(w)
    PROVE  Consistent' /\ MembershipValid'
<1> PICK q \in Requests : q = job[w].request
  BY DEF Typed, Selected, ClaimStart
<1> DEFINE saved == SavedPlanners(w, building[q])
           started == Startable(w, q)
<1> USE DEF Typed
<1>1. /\ JobConsistent(q) /\ building[q] \in Building
      /\ runs[q] \in [Sources -> Run]
  BY DEF ClaimStart, Selected, TypeOK, Consistent
<1>2. building[q].stage \in {"queued", "building"}
  BY DEF ClaimStart, Claimable
<1>3. /\ saved \in SUBSET Sources /\ saved # {} /\ started = (saved \cap Open(runs[q]))
              \cup {s \in saved : runs[q][s].stage = "absent"}
  BY <1>1, MembersAssumption DEF SavedPlanners, Startable, Open, Building
<1>4. /\ started # {}
      /\ \A s \in Sources : runs[q][s].stage # "absent" \/ s \in started <=> s \in saved
  <2>1. CASE building[q].stage = "queued"
    BY <1>1, <1>3, <2>1 DEF JobConsistent, NotStarted
  <2>2. CASE building[q].stage = "building"
    <3>1. saved = building[q].planners
      BY <1>1, <2>2 DEF JobConsistent, RunsAreSaved, SavedPlanners
    <3> QED
      BY <1>1, <1>3, <2>2, <3>1 DEF JobConsistent, RunsAreSaved, OpenWhileBuilding, Open
  <2> QED
    BY <1>2, <2>1, <2>2
<1>5. building[q].attempt + 1 \in 0..MaxAttempts
  BY <1>1, AttemptsAssumption DEF ClaimStart, Exhausted, Building
<1>6. /\ building'[q].stage = "building" /\ building'[q].planners = saved
      /\ runs'[q] = StartedRuns(runs[q], started, building[q].attempt + 1)
      /\ status' = status
  BY <1>1 DEF ClaimStart, TypeOK
<1>7. \A s \in Sources :
          runs'[q][s].stage = IF s \in started THEN "building" ELSE runs[q][s].stage
  <2> HIDE DEF saved, started
  <2>1. started \in SUBSET Sources
    BY <1>3
  <2> QED
    BY <1>1, <1>5, <1>6, <2>1, RunStages
<1>8. Open(runs'[q]) # {}
  BY <1>3, <1>4, <1>7 DEF Open
<1>9. \A s \in Sources : runs'[q][s].stage # "absent" <=> s \in saved
  BY <1>4, <1>7
<1>10. JobConsistent(q)'
  <2> HIDE DEF saved, started
  <2>1. status[q] # "cancelled"
    BY <1>1, <1>2 DEF JobConsistent, CancelledJob
  <2> QED
    BY <1>3, <1>6, <1>8, <1>9, <2>1 DEF JobConsistent, NotStarted, RunsAreSaved,
       OpenWhileBuilding, Summarised, CancelledJob, Finished
<1>11. ASSUME NEW p \in Requests, p # q
       PROVE  JobConsistent(p)'
  <2>1. building'[p] = building[p] /\ runs'[p] = runs[p] /\ status'[p] = status[p]
    BY <1>11 DEF ClaimStart, TypeOK
  <2> QED
    BY <2>1, JobUntouched DEF Consistent
<1>12. job'[w].pc = "working" /\ \A v \in Workers : v # w => job'[v] = job[v]
  BY <1>4 DEF ClaimStart, TypeOK
<1> QED
  BY <1>10, <1>11, <1>12 DEF Consistent, MembershipValid

LEMMA ClaimExhaustedConsistent ==
    ASSUME Typed, Consistent, MembershipValid, NEW w \in Workers, ClaimExhausted(w)
    PROVE  Consistent' /\ MembershipValid'
<1> PICK q \in Requests : q = job[w].request
  BY DEF Typed, Selected, ClaimExhausted
<1> DEFINE b == [building[q] EXCEPT !.planners = SavedPlanners(w, building[q])]
<1> USE DEF Typed
<1>1. /\ JobConsistent(q) /\ building[q] \in Building /\ runs[q] \in [Sources -> Run]
  BY DEF TypeOK, Consistent
<1>2. building[q].stage = "building"
  <2>1. building[q].attempt >= 1
    BY <1>1, AttemptsAssumption DEF ClaimExhausted, Exhausted, Building
  <2> QED
    BY <1>1, <2>1 DEF ClaimExhausted, Claimable, JobConsistent, NotStarted
<1>3. b \in Building /\ b.planners = building[q].planners
  BY <1>1, <1>2 DEF JobConsistent, RunsAreSaved, SavedPlanners, Building
<1>4. /\ runs' = [runs EXCEPT ![q] = ExhaustedRuns(runs[q])]
      /\ building' = [building EXCEPT ![q] = Closed(b, runs'[q])]
      /\ status' = status /\ job' = [job EXCEPT ![w] = Idle]
  BY DEF ClaimExhausted
<1> HIDE DEF b
<1>5. runs'[q] = ExhaustedRuns(runs[q]) /\ runs'[q] \in [Sources -> Run]
  BY <1>1, <1>4, RunChanges DEF TypeOK
<1>6. /\ building'[q].stage = AggregateStage(runs'[q]) /\ building'[q].stage \in Finished
      /\ building'[q].planners = building[q].planners
  <2>1. building'[q] = Closed(b, runs'[q])
    BY <1>4 DEF TypeOK
  <2> QED
    BY <1>3, <1>5, <2>1, ClosedType, AggregateStageType
<1>7. \A s \in Sources :
          runs'[q][s].stage = IF runs[q][s].stage = "building" THEN "failed" ELSE runs[q][s].stage
  BY <1>1, <1>5, RunStages
<1>8. Open(runs'[q]) = {}
  BY <1>7 DEF Open
<1>9. JobConsistent(q)'
  BY <1>1, <1>2, <1>4, <1>6, <1>7, <1>8 DEF JobConsistent, NotStarted, RunsAreSaved,
     OpenWhileBuilding, Summarised, CancelledJob, Finished
<1>10. ASSUME NEW p \in Requests, p # q
       PROVE  JobConsistent(p)'
  <2>1. building'[p] = building[p] /\ runs'[p] = runs[p] /\ status'[p] = status[p]
    BY <1>4, <1>10 DEF TypeOK
  <2> QED
    BY <2>1, JobUntouched DEF Consistent
<1>11. MembershipValid'
  BY <1>4 DEF MembershipValid, TypeOK, Idle
<1> QED
  BY <1>9, <1>10, <1>11 DEF Consistent

LEMMA FinishSourceConsistent ==
    ASSUME Typed, Consistent, MembershipValid, NEW w \in Workers, NEW s \in Sources,
           NEW r \in Results, FinishSource(w, s, r)
    PROVE  Consistent' /\ MembershipValid'
<1> PICK q \in Requests : q = job[w].request
  BY DEF Typed, Selected, FinishSource
<1> USE DEF Typed
<1>1. /\ JobConsistent(q) /\ building[q] \in Building /\ runs[q] \in [Sources -> Run]
      /\ job[w] \in Job
  BY DEF TypeOK, Consistent
<1>2. /\ building[q].stage = "building" /\ runs[q][s].stage = "building"
      /\ status[q] = "pending"
  BY DEF FinishSource, Recordable, Holds
<1>3. FinishedRun(runs[q][s], r).stage \in Finished
  BY ResultsAssumption DEF FinishedRun, FinishStage, Finished, SourceResult
<1>4. /\ runs' = [runs EXCEPT ![q][s] = FinishedRun(runs[q][s], r)]
      /\ status' = status /\ job' = [job EXCEPT ![w] = Done(job[w], s)]
  BY DEF FinishSource
<1>5. /\ runs'[q][s].stage \in Finished
      /\ \A t \in Sources : t # s => runs'[q][t] = runs[q][t]
      /\ \A p \in Requests : p # q => runs'[p] = runs[p]
  BY <1>1, <1>3, <1>4 DEF TypeOK
<1>6. \A t \in Sources : runs'[q][t].stage # "absent" <=> runs[q][t].stage # "absent"
  BY <1>2, <1>5 DEF Finished
<1>7. \A p \in Requests : p # q => building'[p] = building[p]
  BY DEF FinishSource, TypeOK
<1>8. JobConsistent(q)'
  <2>1. CASE Open(runs'[q]) # {}
    <3>1. building' = building
      BY <2>1 DEF FinishSource
    <3> QED
      BY <1>1, <1>2, <1>4, <1>6, <2>1, <3>1 DEF JobConsistent, NotStarted, RunsAreSaved,
         OpenWhileBuilding, Summarised, CancelledJob, Finished
  <2>2. CASE Open(runs'[q]) = {}
    <3>1. runs'[q] \in [Sources -> Run]
      BY FinishSourceTyped DEF TypeOK
    <3>2. building'[q] = Closed(building[q], runs'[q])
      BY <2>2 DEF FinishSource, TypeOK
    <3>3. /\ building'[q].stage = AggregateStage(runs'[q])
          /\ building'[q].stage \in Finished
          /\ building'[q].planners = building[q].planners
      BY <1>1, <3>1, <3>2, ClosedType, AggregateStageType
    <3> QED
      BY <1>1, <1>2, <1>4, <1>6, <2>2, <3>3 DEF JobConsistent, NotStarted, RunsAreSaved,
         OpenWhileBuilding, Summarised, CancelledJob, Finished
  <2> QED
    BY <2>1, <2>2
<1>9. ASSUME NEW p \in Requests, p # q
      PROVE  JobConsistent(p)'
  BY <1>4, <1>5, <1>7, <1>9, JobUntouched DEF Consistent
<1>10. MembershipValid'
  BY <1>1, <1>4, DoneType DEF MembershipValid, FinishSource, TypeOK
<1> QED
  BY <1>8, <1>9, <1>10 DEF Consistent

LEMMA LeaseLapsesConsistent ==
    ASSUME Typed, Consistent, NEW q \in Requests, LeaseLapses(q)
    PROVE  Consistent'
<1> DEFINE b == [building[q] EXCEPT !.lease = "lapsed"]
<1>1. building[q] \in Building
  BY DEF Typed, TypeOK
<1>2. /\ b.stage = building[q].stage /\ b.planners = building[q].planners
      /\ b.attempt = building[q].attempt
  BY <1>1 DEF Building
<1>3. building' = [building EXCEPT ![q] = b] /\ runs' = runs /\ status' = status
  BY DEF LeaseLapses
<1> HIDE DEF b
<1>4. ASSUME NEW p \in Requests
      PROVE  JobConsistent(p)'
  <2>1. /\ building'[p].stage = building[p].stage
        /\ building'[p].planners = building[p].planners
        /\ building'[p].attempt = building[p].attempt
    BY <1>2, <1>3 DEF Typed, TypeOK
  <2> QED
    BY <1>3, <2>1, JobUntouched DEF Consistent
<1> QED
  BY <1>4 DEF Consistent

\* What a process does between its transactions leaves the tables alone.
LEMMA IdleStepsConsistent ==
    ASSUME Typed, Consistent, MembershipValid, NEW w \in Workers,
           \/ ClaimSelect(w) \/ ClaimLost(w) \/ PollInactive(w) \/ WorkerStops(w)
           \/ \E s \in Sources : DropResult(w, s)
    PROVE  Consistent' /\ MembershipValid'
<1>1. UNCHANGED database
  BY DEF ClaimSelect, ClaimLost, PollInactive, WorkerStops, DropResult
<1>2. Consistent'
  BY <1>1, JobUntouched DEF Consistent, database
<1>3. job[w] \in Job
  BY DEF Typed, TypeOK
<1>4. \E j : /\ job' = [job EXCEPT ![w] = j]
             /\ j.pc # "rejected"
  <2>1. CASE ClaimSelect(w)
    <3>1. PICK q \in Requests :
              job' = [job EXCEPT ![w] = [job[w] EXCEPT !.pc = "selected", !.request = q]]
      BY <2>1 DEF ClaimSelect
    <3>2. [job[w] EXCEPT !.pc = "selected", !.request = q].pc = "selected"
      BY <1>3 DEF Job
    <3> QED
      BY <3>1, <3>2
  <2>2. CASE ClaimLost(w) \/ PollInactive(w) \/ WorkerStops(w)
    <3>1. job' = [job EXCEPT ![w] = Idle]
      BY <2>2 DEF ClaimLost, PollInactive, WorkerStops
    <3>2. Idle.pc # "rejected"
      BY DEF Idle
    <3> QED
      BY <3>1, <3>2
  <2>3. CASE \E s \in Sources : DropResult(w, s)
    <3>1. PICK s \in Sources : DropResult(w, s)
      BY <2>3
    <3> QED
      BY <1>3, <3>1, DoneType DEF DropResult
  <2> QED
    BY <2>1, <2>2, <2>3
<1>5. MembershipValid'
  BY <1>4 DEF MembershipValid, Typed, TypeOK
<1> QED
  BY <1>2, <1>5

------------------------------------------------------------------------------
LEMMA NextInductive == Inductive /\ [Next]_vars => Inductive'
<1> SUFFICES ASSUME Inductive, [Next]_vars PROVE Inductive'
  OBVIOUS
<1> USE DEF Inductive
<1>1. Typed'
  BY NextTyped
<1>2. CASE UNCHANGED vars
  BY <1>1, <1>2, JobUntouched DEF vars, StatusFollowsInbox, Consistent, MembershipValid
<1>3. ASSUME NEW q \in Requests, Receives(q)
      PROVE  Inductive'
  <2>1. MembershipValid'
    BY <1>3 DEF Receives, ApplyCreated, ApplyCancelled, ApplyExpired, MembershipValid
  <2> QED
    BY <1>1, <1>3, <2>1, ReceivesStatus, ReceivesConsistent
<1>4. ASSUME NEW q \in Requests, LeaseLapses(q)
      PROVE  Inductive'
  BY <1>1, <1>4, LeaseLapsesConsistent DEF LeaseLapses, StatusFollowsInbox, MembershipValid
<1>5. ASSUME NEW w \in Workers, Claims(w) \/ Works(w) \/ WorkerStops(w)
      PROVE  Inductive'
  <2>1. UNCHANGED <<inbox, status, snapshot>>
    BY <1>5 DEF Claims, Works, WorkerStops, ClaimSelect, ClaimLost, ClaimStart, database,
       ClaimExhausted, FinishSource, DropResult, PollInactive
  <2>2. StatusFollowsInbox'
    BY <2>1 DEF StatusFollowsInbox
  <2>3. Consistent' /\ MembershipValid'
    BY <1>5, ClaimStartConsistent, ClaimExhaustedConsistent, FinishSourceConsistent,
       IdleStepsConsistent DEF Claims, Works
  <2> QED
    BY <1>1, <2>2, <2>3
<1> QED
  BY <1>2, <1>3, <1>4, <1>5 DEF Next

LEMMA AlwaysInductive == Spec => []Inductive
BY InitInductive, NextInductive, PTL DEF Spec

(***************************************************************************)
(* The state of a request follows from the events applied to it, in        *)
(* whatever order they came (Apply).                                       *)
(***************************************************************************)
THEOREM OrderOfEventsIrrelevant == Spec => []StatusFollowsInbox
<1>1. Inductive => StatusFollowsInbox
  BY DEF Inductive
<1> QED
  BY <1>1, AlwaysInductive, PTL

(***************************************************************************)
(* The barrier between the job and its sources holds at all times: open    *)
(* exactly while a source is, and closed with the summary of all of them   *)
(* (finishAggregate, startSources, exhaustSources, cancelSources).         *)
(***************************************************************************)
THEOREM BarrierHolds == Spec => []AggregateBarrier
<1>1. Inductive => AggregateBarrier
  BY DEF Inductive, Consistent, JobConsistent, RunsAreSaved, OpenWhileBuilding,
     Summarised, AggregateBarrier
<1> QED
  BY <1>1, AlwaysInductive, PTL

(***************************************************************************)
(* A claim always finds a source to start: Step never ends the process     *)
(* with "invalid saved source membership".                                 *)
(***************************************************************************)
THEOREM ClaimsStartSources == Spec => []MembershipValid
<1>1. Inductive => MembershipValid
  BY DEF Inductive
<1> QED
  BY <1>1, AlwaysInductive, PTL

(***************************************************************************)
(* The job of a cancelled request is cancelled with all its sources, even  *)
(* when a claim had read the request as pending.                           *)
(***************************************************************************)
THEOREM CancellationWins == Spec => []CancelWins
<1>1. Inductive => CancelWins
  BY DEF Inductive, Consistent, JobConsistent, OpenWhileBuilding, CancelledJob, CancelWins
<1> QED
  BY <1>1, AlwaysInductive, PTL

(***************************************************************************)
(* No step of any process adds to the progress of a cancelled request: a   *)
(* claim finds its job cancelled, and a result is not recorded.            *)
(***************************************************************************)
THEOREM CancelledIsSilent == Spec => SilentAfterCancel
<1>1. ASSUME Inductive, [Next]_vars, NEW q \in Requests, status[q] = "cancelled"
      PROVE  progress'[q] = progress[q]
  <2>1. JobConsistent(q) /\ Typed
    BY <1>1 DEF Inductive, Consistent
  <2>2. building[q].stage \in {"absent", "cancelled"}
    BY <1>1, <2>1 DEF JobConsistent, CancelledJob
  <2>3. ~Claimable(building[q])
    BY <2>2 DEF Claimable
  <2>4. ASSUME NEW p \in Requests, NEW events, Emit(p, events), p # q
        PROVE  progress'[q] = progress[q]
    BY <2>1, <2>4 DEF Emit, Typed, TypeOK
  <2>5. CASE \E p \in Requests : Receives(p)
    <3>1. PICK p \in Requests : Receives(p)
      BY <2>5
    <3>2. CASE p = q
      BY <1>1, <2>1, <2>2, <3>1, <3>2
         DEF Receives, ApplyCreated, ApplyCancelled, ApplyExpired, Typed, TypeOK
    <3>3. CASE p # q
      BY <2>4, <3>1, <3>3 DEF Receives, ApplyCreated, ApplyCancelled, ApplyExpired
    <3> QED
      BY <3>2, <3>3
  <2>6. CASE \E w \in Workers : ClaimStart(w) \/ ClaimExhausted(w)
    <3>1. PICK w \in Workers : ClaimStart(w) \/ ClaimExhausted(w)
      BY <2>6
    <3>2. job[w].request \in Requests /\ job[w].request # q
      BY <2>1, <2>3, <3>1 DEF ClaimStart, ClaimExhausted, Typed, Selected
    <3> QED
      BY <2>4, <3>1, <3>2 DEF ClaimStart, ClaimExhausted
  <2>7. CASE \E w \in Workers, s \in Sources, r \in Results : FinishSource(w, s, r)
    <3>1. PICK w \in Workers, s \in Sources, r \in Results : FinishSource(w, s, r)
      BY <2>7
    <3>2. job[w].request \in Requests /\ job[w].request # q
      BY <1>1, <2>1, <3>1 DEF FinishSource, Recordable, Typed, Selected
    <3> QED
      BY <2>4, <3>1, <3>2 DEF FinishSource
  <2> QED
    BY <1>1, <2>5, <2>6, <2>7 DEF Next, Claims, Works, ClaimSelect, ClaimLost, DropResult,
       PollInactive, WorkerStops, LeaseLapses, database, vars
<1>2. Inductive /\ [Next]_vars =>
          [\A q \in Requests : status[q] = "cancelled" => progress'[q] = progress[q]]_vars
  BY <1>1
<1> QED
  BY <1>2, AlwaysInductive, PTL DEF Spec, SilentAfterCancel

(***************************************************************************)
(* What a source found is kept: no attempt, exhaustion, cancellation or    *)
(* late duplicate changes a run that has ended.                            *)
(***************************************************************************)
THEOREM EndedRunsKept == Spec => RunsKept
<1>1. ASSUME Inductive, [Next]_vars, NEW q \in Requests, NEW s \in Sources,
             runs[q][s].stage \in Finished \cup {"cancelled"}
      PROVE  runs'[q][s] = runs[q][s]
  <2>1. Typed /\ runs[q] \in [Sources -> Run] /\ runs[q][s].stage \notin {"absent", "building"}
    BY <1>1 DEF Inductive, Typed, TypeOK, Finished
  <2>2. \A p \in Requests : \A rs : p # q /\ runs' = [runs EXCEPT ![p] = rs]
            => runs'[q] = runs[q]
    BY <2>1 DEF Typed, TypeOK
  <2>3. \A rs : runs' = [runs EXCEPT ![q] = rs] => runs'[q] = rs
    BY <2>1 DEF Typed, TypeOK
  <2>4. CASE \E p \in Requests : Receives(p)
    <3>1. CancelledRuns(runs[q])[s] = runs[q][s]
      BY <2>1 DEF CancelledRuns, Open
    <3> QED
      BY <2>2, <2>3, <2>4, <3>1 DEF Receives, ApplyCreated, ApplyCancelled, ApplyExpired
  <2>5. CASE \E w \in Workers : ClaimStart(w)
    <3>1. PICK w \in Workers : ClaimStart(w)
      BY <2>5
    <3>2. job[w].request \in Requests
      BY <2>1, <3>1 DEF ClaimStart, Typed, Selected
    <3>3. CASE job[w].request = q
      <4>1. runs'[q] = StartedRuns(runs[q], Startable(w, q), building[q].attempt + 1)
        BY <2>3, <3>1, <3>3 DEF ClaimStart
      <4>2. s \notin Startable(w, q)
        BY <2>1 DEF Startable
      <4> QED
        BY <4>1, <4>2 DEF StartedRuns
    <3> QED
      BY <2>2, <3>1, <3>2, <3>3 DEF ClaimStart
  <2>6. CASE \E w \in Workers : ClaimExhausted(w)
    <3>1. PICK w \in Workers : ClaimExhausted(w)
      BY <2>6
    <3>2. job[w].request \in Requests
      BY <2>1, <3>1 DEF ClaimExhausted, Typed, Selected
    <3>3. ExhaustedRuns(runs[q])[s] = runs[q][s]
      BY <2>1 DEF ExhaustedRuns, Open
    <3> QED
      BY <2>2, <2>3, <3>1, <3>2, <3>3 DEF ClaimExhausted
  <2>7. CASE \E w \in Workers, t \in Sources, r \in Results : FinishSource(w, t, r)
    <3>1. PICK w \in Workers, t \in Sources, r \in Results : FinishSource(w, t, r)
      BY <2>7
    <3>2. PICK p \in Requests :
              /\ p = job[w].request /\ runs[p][t].stage = "building"
              /\ runs' = [runs EXCEPT ![p][t] = FinishedRun(runs[p][t], r)]
      BY <2>1, <3>1 DEF FinishSource, Recordable, Typed, Selected
    <3>3. p # q \/ t # s
      BY <2>1, <3>2
    <3> QED
      BY <2>1, <3>2, <3>3 DEF Typed, TypeOK
  <2> QED
    BY <1>1, <2>4, <2>5, <2>6, <2>7 DEF Next, Claims, Works, ClaimSelect, ClaimLost,
       DropResult, PollInactive, WorkerStops, LeaseLapses, database, vars
<1>2. Inductive /\ [Next]_vars =>
          [\A q \in Requests, s \in Sources :
               runs[q][s].stage \in Finished \cup {"cancelled"}
                   => runs'[q][s] = runs[q][s]]_vars
  BY <1>1
<1> QED
  BY <1>2, AlwaysInductive, PTL DEF Spec, RunsKept

------------------------------------------------------------------------------
(***************************************************************************)
(* What a step does to one request. The other requests stay as they are,   *)
(* so what follows is proved for one request at a time.                    *)
(***************************************************************************)
Same(q) ==
    /\ status'[q] = status[q] /\ building'[q] = building[q]
    /\ runs'[q] = runs[q] /\ progress'[q] = progress[q]

\* An event that touches no job, or a lease that passes.
Quiet(q) ==
    /\ runs'[q] = runs[q] /\ progress'[q] = progress[q]
    /\ building'[q] \in {building[q], [building[q] EXCEPT !.lease = "lapsed"]}
    /\ \/ status'[q] = status[q]
       \/ status[q] \in {"absent", "pending"} /\ status'[q] = "expired"
       \/ /\ status[q] # "cancelled" /\ status'[q] = "cancelled"
          /\ building[q].stage \in {"absent", "cancelled"}

Queues(q) ==
    /\ status[q] = "absent" /\ status'[q] = "pending"
    /\ building[q].stage = "absent" /\ building'[q] = [building[q] EXCEPT !.stage = "queued"]
    /\ runs'[q] = runs[q]
    /\ progress'[q] = progress[q] \o <<AggregateEvent(building'[q], 0, FALSE)>>

Cancels(q) ==
    /\ status[q] # "cancelled" /\ status'[q] = "cancelled"
    /\ building[q].stage \notin {"absent", "cancelled"}
    /\ building'[q] = CancelledBuilding(building[q]) /\ runs'[q] = CancelledRuns(runs[q])
    /\ \E order \in SetToSeqs(Open(runs[q])) :
          progress'[q] = progress[q] \o (SourceEvents(order, runs'[q])
                             \o <<AggregateEvent(building'[q], 0, TRUE)>>)

Starts(q) ==
    \E w \in Workers, saved \in (SUBSET Sources) \ {{}}, started \in SUBSET Sources :
        LET n == building[q].attempt + 1 IN
        /\ status'[q] = status[q]
        /\ building[q].stage \in {"queued", "building"}
        /\ building[q].stage = "building" => saved = building[q].planners
        /\ started = {s \in saved : runs[q][s].stage \in {"absent", "building"}}
        /\ n \in 1..MaxAttempts
        /\ building'[q] = [stage |-> "building", planners |-> saved, attempt |-> n,
                           holder |-> w, lease |-> "live", started |-> TRUE, finished |-> FALSE]
        /\ runs'[q] = StartedRuns(runs[q], started, n)
        /\ \E order \in SetToSeqs(started) :
              progress'[q] = progress[q] \o (<<AggregateEvent(building'[q], 0, TRUE)>>
                                 \o SourceEvents(order, runs'[q]))

Exhausts(q) ==
    /\ status'[q] = status[q]
    /\ building[q].stage = "building"
    /\ runs'[q] = ExhaustedRuns(runs[q])
    /\ building'[q] = Closed(building[q], runs'[q])
    /\ \E order \in SetToSeqs(Open(runs[q])) :
          progress'[q] = progress[q] \o (SourceEvents(order, runs'[q])
                             \o <<ClosingEvent(building'[q], runs'[q])>>)

Reports(q) ==
    \E s \in Sources, r \in Results :
        /\ status[q] = "pending" /\ status'[q] = status[q]
        /\ building[q].stage = "building" /\ runs[q][s].stage = "building"
        /\ runs'[q] = [runs[q] EXCEPT ![s] = FinishedRun(runs[q][s], r)]
        /\ \/ /\ Open(runs'[q]) # {} /\ building'[q] = building[q]
              /\ progress'[q] = progress[q] \o <<SourceEvent(s, runs'[q][s])>>
           \/ /\ Open(runs'[q]) = {} /\ building'[q] = Closed(building[q], runs'[q])
              /\ progress'[q] = progress[q] \o
                     <<SourceEvent(s, runs'[q][s]), ClosingEvent(building'[q], runs'[q])>>

Changes(q) == Quiet(q) \/ Queues(q) \/ Cancels(q) \/ Starts(q) \/ Exhausts(q) \/ Reports(q)

\* A job is only there for a request that has been received.
Received(q) == status[q] = "absent" => building[q].stage = "absent"

LEMMA EmitsTo ==
    ASSUME Typed, NEW q \in Requests, NEW events, Emit(q, events)
    PROVE  /\ progress'[q] = progress[q] \o events
           /\ \A p \in Requests : p # q => progress'[p] = progress[p]
BY DEF Emit, Typed, TypeOK

LEMMA ReceivesChanges ==
    ASSUME Inductive, NEW q \in Requests, Received(q), Receives(q)
    PROVE  Changes(q) /\ \A p \in Requests : p # q => Same(p)
<1> USE DEF Inductive, Typed
<1>1. CASE ApplyCreated(q)
  <2>1. /\ status' = [status EXCEPT ![q] = IF @ = "absent" THEN "pending" ELSE @]
        /\ UNCHANGED runs /\ "created" \notin inbox[q]
    BY <1>1 DEF ApplyCreated, Receive
  <2>2. status[q] # "pending"
    BY <2>1 DEF StatusFollowsInbox
  <2>3. CASE status[q] = "absent"
    <3>1. status'[q] = "pending" /\ building[q].stage = "absent"
      BY <2>1, <2>3 DEF TypeOK, Received
    <3>2. /\ building' = [building EXCEPT ![q].stage = "queued"]
          /\ Emit(q, <<AggregateEvent(building'[q], 0, FALSE)>>)
      BY <1>1, <3>1 DEF ApplyCreated
    <3>3. Queues(q)
      BY <2>1, <2>3, <3>1, <3>2, EmitsTo DEF Queues, TypeOK
    <3> QED
      BY <2>1, <3>2, <3>3, EmitsTo DEF Changes, Same, TypeOK
  <2>4. CASE status[q] # "absent"
    <3>1. status' = status
      BY <2>1, <2>4 DEF TypeOK
    <3>2. UNCHANGED <<building, progress>>
      BY <1>1, <2>2, <3>1 DEF ApplyCreated
    <3> QED
      BY <2>1, <3>1, <3>2 DEF Changes, Quiet, Same
  <2> QED
    BY <2>3, <2>4
<1>2. CASE ApplyCancelled(q)
  <2>1. status' = [status EXCEPT ![q] = "cancelled"] /\ "cancelled" \notin inbox[q]
    BY <1>2 DEF ApplyCancelled, Receive
  <2>2. status[q] # "cancelled" /\ status'[q] = "cancelled"
    BY <2>1 DEF StatusFollowsInbox, TypeOK
  <2>3. CASE building[q].stage \in {"absent", "cancelled"}
    <3>1. UNCHANGED <<building, runs, progress>>
      BY <1>2, <2>3 DEF ApplyCancelled
    <3> QED
      BY <2>1, <2>2, <2>3, <3>1 DEF Changes, Quiet, Same, TypeOK
  <2>4. CASE building[q].stage \notin {"absent", "cancelled"}
    <3>1. /\ building' = [building EXCEPT ![q] = CancelledBuilding(@)]
          /\ runs' = [runs EXCEPT ![q] = CancelledRuns(@)]
      BY <1>2, <2>4 DEF ApplyCancelled
    <3>2. PICK order \in SetToSeqs(Open(runs[q])) :
             Emit(q, SourceEvents(order, runs'[q]) \o <<AggregateEvent(building'[q], 0, TRUE)>>)
      BY <1>2, <2>4 DEF ApplyCancelled
    <3>3. Cancels(q)
      BY <2>2, <2>4, <3>1, <3>2, EmitsTo DEF Cancels, TypeOK
    <3> QED
      BY <2>1, <3>1, <3>2, <3>3, EmitsTo DEF Changes, Same, TypeOK
  <2> QED
    BY <2>3, <2>4
<1>3. CASE ApplyExpired(q)
  BY <1>3 DEF ApplyExpired, Expire, Changes, Quiet, Same, TypeOK
<1> QED
  BY <1>1, <1>2, <1>3 DEF Receives

LEMMA ClaimStartChanges ==
    ASSUME Inductive, NEW w \in Workers, ClaimStart(w)
    PROVE  /\ job[w].request \in Requests /\ Changes(job[w].request)
           /\ \A p \in Requests : p # job[w].request => Same(p)
<1> PICK q \in Requests : q = job[w].request
  BY DEF Inductive, Typed, Selected, ClaimStart
<1> DEFINE saved == SavedPlanners(w, building[q])
           started == Startable(w, q)
           n == building[q].attempt + 1
<1> USE DEF Inductive, Typed
<1>1. /\ JobConsistent(q) /\ building[q] \in Building
      /\ building[q].stage \in {"queued", "building"}
  BY DEF ClaimStart, Claimable, TypeOK, Consistent
<1>2. saved \in (SUBSET Sources) \ {{}}
  BY <1>1, MembersAssumption DEF SavedPlanners, Building
<1>3. building[q].stage = "building" => saved = building[q].planners
  BY <1>1 DEF JobConsistent, RunsAreSaved, SavedPlanners
<1>4. n \in 1..MaxAttempts
  BY <1>1, AttemptsAssumption DEF ClaimStart, Exhausted, Building
<1>5. started = {s \in saved : runs[q][s].stage \in {"absent", "building"}}
  BY DEF Startable
<1>6. /\ building' = [building EXCEPT ![q] =
             [stage |-> "building", planners |-> saved, attempt |-> n, holder |-> w,
              lease |-> "live", started |-> TRUE, finished |-> FALSE]]
      /\ runs' = [runs EXCEPT ![q] = StartedRuns(runs[q], started, n)]
      /\ UNCHANGED status
  BY DEF ClaimStart
<1>7. PICK order \in SetToSeqs(started) :
          Emit(q, <<AggregateEvent(building'[q], 0, TRUE)>> \o SourceEvents(order, runs'[q]))
  BY DEF ClaimStart
<1> HIDE DEF saved, started, n
<1>8. /\ building'[q] = [stage |-> "building", planners |-> saved, attempt |-> n, holder |-> w,
                         lease |-> "live", started |-> TRUE, finished |-> FALSE]
      /\ runs'[q] = StartedRuns(runs[q], started, n)
      /\ progress'[q] = progress[q] \o (<<AggregateEvent(building'[q], 0, TRUE)>>
                                            \o SourceEvents(order, runs'[q]))
  BY <1>6, <1>7, EmitsTo DEF TypeOK
<1>9. started \in SUBSET Sources
  BY <1>2, <1>5
<1>10. Starts(q)
  BY <1>1, <1>2, <1>3, <1>4, <1>5, <1>6, <1>8, <1>9 DEF Starts, n
<1> QED
  BY <1>6, <1>7, <1>10, EmitsTo DEF Changes, Same, TypeOK

LEMMA ClaimExhaustedChanges ==
    ASSUME Inductive, NEW w \in Workers, ClaimExhausted(w)
    PROVE  /\ job[w].request \in Requests /\ Changes(job[w].request)
           /\ \A p \in Requests : p # job[w].request => Same(p)
<1> PICK q \in Requests : q = job[w].request
  BY DEF Inductive, Typed, Selected, ClaimExhausted
<1> USE DEF Inductive, Typed
<1>1. JobConsistent(q) /\ building[q] \in Building
  BY DEF TypeOK, Consistent
<1>2. building[q].stage = "building"
  <2>1. building[q].attempt >= 1
    BY <1>1, AttemptsAssumption DEF ClaimExhausted, Exhausted, Building
  <2> QED
    BY <1>1, <2>1 DEF ClaimExhausted, Claimable, JobConsistent, NotStarted
<1>3. [building[q] EXCEPT !.planners = SavedPlanners(w, building[q])] = building[q]
  BY <1>1, <1>2 DEF JobConsistent, RunsAreSaved, SavedPlanners, Building
<1>4. /\ runs' = [runs EXCEPT ![q] = ExhaustedRuns(runs[q])]
      /\ building' = [building EXCEPT ![q] = Closed(building[q], runs'[q])]
      /\ UNCHANGED status
  BY <1>3 DEF ClaimExhausted
<1>5. PICK order \in SetToSeqs(Open(runs[q])) :
          Emit(q, SourceEvents(order, runs'[q]) \o <<ClosingEvent(building'[q], runs'[q])>>)
  BY DEF ClaimExhausted
<1>6. Exhausts(q)
  <2>1. progress'[q] = progress[q] \o
            (SourceEvents(order, runs'[q]) \o <<ClosingEvent(building'[q], runs'[q])>>)
    BY <1>5, EmitsTo
  <2>2. /\ runs'[q] = ExhaustedRuns(runs[q]) /\ building'[q] = Closed(building[q], runs'[q])
        /\ status'[q] = status[q]
    BY <1>4 DEF TypeOK
  <2> QED
    BY <1>2, <2>1, <2>2 DEF Exhausts
<1> QED
  BY <1>4, <1>5, <1>6, EmitsTo DEF Changes, Same, TypeOK

LEMMA FinishSourceChanges ==
    ASSUME Inductive, NEW w \in Workers, NEW s \in Sources, NEW r \in Results,
           FinishSource(w, s, r)
    PROVE  /\ job[w].request \in Requests /\ Changes(job[w].request)
           /\ \A p \in Requests : p # job[w].request => Same(p)
<1> PICK q \in Requests : q = job[w].request
  BY DEF Inductive, Typed, Selected, FinishSource
<1> USE DEF Inductive, Typed
<1>1. /\ status[q] = "pending" /\ building[q].stage = "building"
      /\ runs[q][s].stage = "building" /\ UNCHANGED status
      /\ runs' = [runs EXCEPT ![q][s] = FinishedRun(runs[q][s], r)]
  BY DEF FinishSource, Recordable, Holds
<1>2. /\ runs'[q] = [runs[q] EXCEPT ![s] = FinishedRun(runs[q][s], r)]
      /\ \A p \in Requests : p # q => runs'[p] = runs[p]
  BY <1>1 DEF TypeOK
<1>3. CASE Open(runs'[q]) # {}
  <2>1. UNCHANGED building /\ Emit(q, <<SourceEvent(s, runs'[q][s])>>)
    BY <1>3 DEF FinishSource
  <2>2. Reports(q)
    BY <1>1, <1>2, <1>3, <2>1, EmitsTo DEF Reports
  <2> QED
    BY <1>1, <1>2, <2>1, <2>2, EmitsTo DEF Changes, Same
<1>4. CASE Open(runs'[q]) = {}
  <2>1. /\ building' = [building EXCEPT ![q] = Closed(building[q], runs'[q])]
        /\ Emit(q, <<SourceEvent(s, runs'[q][s]), ClosingEvent(building'[q], runs'[q])>>)
    BY <1>4 DEF FinishSource
  <2>2. Reports(q)
    BY <1>1, <1>2, <1>4, <2>1, EmitsTo DEF Reports, TypeOK
  <2> QED
    BY <1>1, <1>2, <2>1, <2>2, EmitsTo DEF Changes, Same, TypeOK
<1> QED
  BY <1>3, <1>4

LEMMA NextChanges ==
    ASSUME Inductive, \A q \in Requests : Received(q), [Next]_vars
    PROVE  \/ UNCHANGED database
           \/ \E q \in Requests : Changes(q) /\ \A p \in Requests : p # q => Same(p)
<1>1. CASE UNCHANGED vars
  BY <1>1 DEF vars, database
<1>2. CASE \E q \in Requests : Receives(q)
  BY <1>2, ReceivesChanges
<1>3. CASE \E q \in Requests : LeaseLapses(q)
  <2>1. PICK q \in Requests : LeaseLapses(q)
    BY <1>3
  <2>2. /\ building'[q] = [building[q] EXCEPT !.lease = "lapsed"]
        /\ \A p \in Requests : p # q => building'[p] = building[p]
        /\ UNCHANGED <<status, runs, progress>>
    BY <2>1 DEF LeaseLapses, Inductive, Typed, TypeOK
  <2>3. Quiet(q) /\ \A p \in Requests : p # q => Same(p)
    BY <2>2 DEF Quiet, Same
  <2> QED
    BY <2>3 DEF Changes
<1>4. CASE \E w \in Workers : ClaimStart(w)
  BY <1>4, ClaimStartChanges
<1>5. CASE \E w \in Workers : ClaimExhausted(w)
  BY <1>5, ClaimExhaustedChanges
<1>6. CASE \E w \in Workers, s \in Sources, r \in Results : FinishSource(w, s, r)
  BY <1>6, FinishSourceChanges
<1> QED
  BY <1>1, <1>2, <1>3, <1>4, <1>5, <1>6 DEF Next, Claims, Works, ClaimSelect, ClaimLost,
     DropResult, PollInactive, WorkerStops

------------------------------------------------------------------------------
(***************************************************************************)
(* What the rows say by themselves, attempt by attempt. An open run has    *)
(* found nothing yet: a source that is given up counts for nothing.        *)
(***************************************************************************)
RunTells(r) ==
    /\ r.stage \in {"absent", "building"} => r.count = 0 /\ r.outcome = "" /\ ~r.finished
    /\ r.stage \notin {"absent", "building"} => r.finished
    /\ r.stage # "absent" => r.attempt >= 1
    /\ r.stage \in {"no_routes", "failed", "cancelled"} => r.count = 0
    /\ r.stage = "awaiting_schedules" => r.count > 0
    /\ r.outcome # "" => r.incomplete

BuildingTells(b) ==
    /\ b.stage \in {"absent", "queued"} => b.attempt = 0 /\ ~b.started /\ ~b.finished
    /\ b.stage = "building" => b.attempt >= 1 /\ b.started /\ ~b.finished
    /\ b.stage \in Finished => b.attempt >= 1 /\ b.started /\ b.finished
    /\ b.stage = "cancelled" => b.finished = b.started

RowsTell(q) ==
    /\ Received(q)
    /\ BuildingTells(building[q])
    /\ \A s \in Sources :
          /\ RunTells(runs[q][s])
          /\ runs[q][s].stage = "cancelled" => building[q].stage = "cancelled"

LEMMA FinishedRunType ==
    ASSUME NEW run \in Run, NEW r \in Results
    PROVE  FinishedRun(run, r) \in Run /\ FinishedRun(run, r).stage \in Finished
<1>1. r \in SourceResult
  BY ResultsAssumption
<1>2. r.count \in 0..50 /\ r.incomplete \in BOOLEAN /\ r.outcome \in Outcomes
  BY <1>1 DEF SourceResult
<1>3. FinishStage(r) \in Finished
  BY <1>2 DEF FinishStage, Finished
<1> QED
  BY <1>2, <1>3 DEF FinishedRun, Run, Finished, Stages

LEMMA RunsTell ==
    ASSUME NEW rs \in [Sources -> Run], NEW s \in Sources, RunTells(rs[s])
    PROVE  /\ RunTells(CancelledRuns(rs)[s])
           /\ RunTells(ExhaustedRuns(rs)[s])
           /\ \A S \in SUBSET Sources, n \in 1..MaxAttempts :
                  s \in S /\ rs[s].stage \in {"absent", "building"}
                  => RunTells(StartedRuns(rs, S, n)[s])
           /\ \A r \in Results : rs[s].stage = "building" => RunTells(FinishedRun(rs[s], r))
<1> DEFINE cancelled == [rs[s] EXCEPT !.stage = "cancelled", !.finished = TRUE]
           failed == [rs[s] EXCEPT !.stage = "failed", !.outcome = "timeout",
                                   !.incomplete = TRUE, !.finished = TRUE]
           open(n) == [rs[s] EXCEPT !.stage = "building", !.attempt = n]
<1>1. rs[s] \in Run
  OBVIOUS
<1>2. rs[s].stage = "building" => RunTells(cancelled) /\ RunTells(failed)
  BY <1>1 DEF RunTells, Run
<1>3. ASSUME NEW n \in 1..MaxAttempts, rs[s].stage \in {"absent", "building"}
      PROVE  RunTells(open(n))
  <2>1. n >= 1
    BY <1>3, AttemptsAssumption
  <2>2. /\ open(n).stage = "building" /\ open(n).attempt = n
        /\ open(n).count = rs[s].count /\ open(n).outcome = rs[s].outcome
        /\ open(n).finished = rs[s].finished /\ open(n).incomplete = rs[s].incomplete
    BY <1>1 DEF Run
  <2> QED
    BY <1>3, <2>1, <2>2 DEF RunTells
<1>4. ASSUME NEW r \in Results, rs[s].stage = "building"
      PROVE  RunTells(FinishedRun(rs[s], r))
  <2>1. r \in SourceResult
    BY ResultsAssumption
  <2>2. r.count \in 0..50 /\ (r.outcome # "" => r.incomplete)
    BY <2>1 DEF SourceResult
  <2>3. rs[s].attempt >= 1
    BY <1>4 DEF RunTells
  <2>4. CASE r.count > 0
    BY <2>2, <2>3, <2>4 DEF FinishedRun, FinishStage, RunTells
  <2>5. CASE r.count = 0
    <3>1. FinishStage(r) \in {"failed", "no_routes"}
      BY <2>5 DEF FinishStage
    <3> QED
      BY <2>2, <2>3, <2>5, <3>1 DEF FinishedRun, RunTells
  <2>6. r.count > 0 \/ r.count = 0
    <3>1. \A n \in 0..50 : n > 0 \/ n = 0
      OBVIOUS
    <3> QED
      BY <2>2, <3>1
  <2> QED
    BY <2>4, <2>5, <2>6
<1> HIDE DEF cancelled, failed, open
<1>5. /\ CancelledRuns(rs)[s] = IF rs[s].stage = "building" THEN cancelled ELSE rs[s]
      /\ ExhaustedRuns(rs)[s] = IF rs[s].stage = "building" THEN failed ELSE rs[s]
      /\ \A S, n : StartedRuns(rs, S, n)[s] = IF s \in S THEN open(n) ELSE rs[s]
  BY DEF CancelledRuns, ExhaustedRuns, StartedRuns, Open, cancelled, failed, open
<1> QED
  BY <1>2, <1>3, <1>4, <1>5

LEMMA BuildingsTell ==
    ASSUME NEW b \in Building, BuildingTells(b)
    PROVE  /\ BuildingTells(CancelledBuilding(b))
           /\ BuildingTells([b EXCEPT !.lease = "lapsed"])
           /\ b.stage = "absent" => BuildingTells([b EXCEPT !.stage = "queued"])
           /\ \A rs \in [Sources -> Run] :
                  b.stage = "building" => BuildingTells(Closed(b, rs))
<1>1. BuildingTells(CancelledBuilding(b))
  BY DEF CancelledBuilding, BuildingTells, Building, Finished
<1>2. BuildingTells([b EXCEPT !.lease = "lapsed"])
  BY DEF BuildingTells, Building
<1>3. b.stage = "absent" => BuildingTells([b EXCEPT !.stage = "queued"])
  BY DEF BuildingTells, Building, Finished
<1>4. ASSUME NEW rs \in [Sources -> Run], b.stage = "building"
      PROVE  BuildingTells(Closed(b, rs))
  <2>1. AggregateStage(rs) \in Finished
    BY AggregateStageType
  <2> QED
    BY <1>4, <2>1 DEF Closed, BuildingTells, Building, Finished
<1> QED
  BY <1>1, <1>2, <1>3, <1>4

LEMMA ChangesRows ==
    ASSUME Inductive, NEW q \in Requests, RowsTell(q), Changes(q)
    PROVE  RowsTell(q)'
<1> USE DEF Inductive, Typed
<1>1. /\ building[q] \in Building /\ runs[q] \in [Sources -> Run] /\ JobConsistent(q)
      /\ status[q] \in Statuses
  BY DEF TypeOK, Consistent
<1>2. /\ BuildingTells(building[q]) /\ Received(q)
      /\ \A s \in Sources :
            /\ RunTells(runs[q][s])
            /\ runs[q][s].stage = "cancelled" => building[q].stage = "cancelled"
  BY DEF RowsTell
<1>3. CASE Quiet(q)
  <2>1. building'[q].stage = building[q].stage /\ BuildingTells(building'[q])
    BY <1>1, <1>2, <1>3, BuildingsTell DEF Quiet, Building
  <2> QED
    BY <1>2, <1>3, <2>1 DEF Quiet, RowsTell, Received
<1>4. CASE Queues(q)
  <2>1. building'[q].stage = "queued" /\ BuildingTells(building'[q])
    BY <1>1, <1>2, <1>4, BuildingsTell DEF Queues, Building
  <2>2. \A s \in Sources : runs[q][s].stage # "cancelled"
    BY <1>2, <1>4 DEF Queues
  <2> QED
    BY <1>2, <1>4, <2>1, <2>2 DEF Queues, RowsTell, Received
<1>5. CASE Cancels(q)
  <2>1. /\ building'[q].stage = "cancelled" /\ BuildingTells(building'[q])
    BY <1>1, <1>2, <1>5, BuildingsTell, CancelledBuildingType DEF Cancels
  <2>2. \A s \in Sources : RunTells(runs'[q][s])
    BY <1>1, <1>2, <1>5, RunsTell DEF Cancels
  <2> QED
    BY <1>5, <2>1, <2>2 DEF Cancels, RowsTell, Received
<1>6. CASE Starts(q)
  <2>1. PICK w \in Workers, saved \in (SUBSET Sources) \ {{}}, started \in SUBSET Sources :
            LET n == building[q].attempt + 1 IN
            /\ status'[q] = status[q] /\ n \in 1..MaxAttempts
            /\ building[q].stage \in {"queued", "building"}
            /\ started = {s \in saved : runs[q][s].stage \in {"absent", "building"}}
            /\ building'[q] = [stage |-> "building", planners |-> saved, attempt |-> n,
                  holder |-> w, lease |-> "live", started |-> TRUE, finished |-> FALSE]
            /\ runs'[q] = StartedRuns(runs[q], started, n)
    BY <1>6 DEF Starts
  <2>2. BuildingTells(building'[q]) /\ building'[q].stage = "building"
    BY <2>1 DEF BuildingTells, Finished
  <2>3. \A s \in Sources : RunTells(runs'[q][s])
    <3> TAKE s \in Sources
    <3>1. CASE s \in started
      BY <1>1, <1>2, <2>1, <3>1, RunsTell
    <3>2. CASE s \notin started
      BY <1>1, <1>2, <2>1, <3>2 DEF StartedRuns
    <3> QED
      BY <3>1, <3>2
  <2>4. \A s \in Sources : runs'[q][s].stage # "cancelled"
    <3>1. building[q].attempt + 1 \in 0..MaxAttempts
      BY <2>1
    <3>2. \A s \in Sources : runs[q][s].stage # "cancelled"
      BY <1>2, <2>1
    <3>3. \A s \in Sources :
              runs'[q][s].stage = IF s \in started THEN "building" ELSE runs[q][s].stage
      <4> TAKE s \in Sources
      <4>1. runs'[q] = StartedRuns(runs[q], started, building[q].attempt + 1)
        BY <2>1
      <4> HIDE DEF Sources
      <4> QED
        BY <1>1, <3>1, <4>1, RunStages
    <3> QED
      BY <3>2, <3>3
  <2>5. Received(q)'
    BY <1>2, <2>1 DEF Received
  <2> QED
    BY <2>2, <2>3, <2>4, <2>5 DEF RowsTell
<1>7. CASE Exhausts(q)
  <2>1. runs'[q] \in [Sources -> Run] /\ runs'[q] = ExhaustedRuns(runs[q])
    BY <1>1, <1>7, RunChanges DEF Exhausts
  <2>2. BuildingTells(building'[q])
    BY <1>1, <1>2, <1>7, <2>1, BuildingsTell DEF Exhausts
  <2>3. \A s \in Sources : RunTells(runs'[q][s])
    BY <1>1, <1>2, <2>1, RunsTell
  <2>4. \A s \in Sources : runs'[q][s].stage # "cancelled"
    BY <1>1, <1>2, <1>7, <2>1, RunStages DEF Exhausts
  <2>5. Received(q)'
    BY <1>2, <1>7 DEF Received, Exhausts
  <2> QED
    BY <2>2, <2>3, <2>4, <2>5 DEF RowsTell
<1>8. CASE Reports(q)
  <2>1. PICK s \in Sources, r \in Results :
            /\ status[q] = "pending" /\ status'[q] = status[q]
            /\ building[q].stage = "building" /\ runs[q][s].stage = "building"
            /\ runs'[q] = [runs[q] EXCEPT ![s] = FinishedRun(runs[q][s], r)]
            /\ (building'[q] = building[q] \/ building'[q] = Closed(building[q], runs'[q]))
    BY <1>8 DEF Reports
  <2>2. FinishedRun(runs[q][s], r) \in Run /\ FinishedRun(runs[q][s], r).stage \in Finished
    BY <1>1, FinishedRunType
  <2>3. runs'[q] \in [Sources -> Run]
    BY <1>1, <2>1, <2>2
  <2>4. BuildingTells(building'[q])
    BY <1>1, <1>2, <2>1, <2>3, BuildingsTell
  <2>5. \A t \in Sources : RunTells(runs'[q][t])
    BY <1>1, <1>2, <2>1, RunsTell
  <2>6. \A t \in Sources : runs'[q][t].stage # "cancelled"
    BY <1>1, <1>2, <2>1, <2>2 DEF Finished
  <2>7. Received(q)'
    BY <2>1 DEF Received
  <2> QED
    BY <2>4, <2>5, <2>6, <2>7 DEF RowsTell
<1> QED
  BY <1>3, <1>4, <1>5, <1>6, <1>7, <1>8 DEF Changes

Rows == \A q \in Requests : RowsTell(q)

LEMMA InitRows == Init => Rows
<1>1. RunTells(NoRun) /\ NoRun.stage # "cancelled"
  BY DEF RunTells, NoRun
<1>2. BuildingTells(NoBuilding) /\ NoBuilding.stage = "absent"
  BY DEF BuildingTells, NoBuilding, Finished
<1> QED
  BY <1>1, <1>2 DEF Init, Rows, RowsTell, Received

LEMMA NextRows ==
    ASSUME Inductive, Rows, [Next]_vars
    PROVE  /\ Rows'
           /\ \/ UNCHANGED database
              \/ \E q \in Requests : Changes(q) /\ \A p \in Requests : p # q => Same(p)
<1>1. \A q \in Requests : Received(q) /\ RowsTell(q)
  BY DEF Rows, RowsTell
<1>2. \A q \in Requests : Same(q) => RowsTell(q)'
  BY <1>1 DEF Same, RowsTell, Received
<1>3. CASE UNCHANGED database
  BY <1>2, <1>3 DEF database, Same, Rows
<1>4. CASE \E q \in Requests : Changes(q) /\ \A p \in Requests : p # q => Same(p)
  BY <1>1, <1>2, <1>4, ChangesRows DEF Rows
<1> QED
  BY <1>1, <1>3, <1>4, NextChanges

LEMMA AlwaysRows == Spec => [](Inductive /\ Rows)
BY InitInductive, InitRows, NextInductive, NextRows, PTL DEF Spec

------------------------------------------------------------------------------
(***************************************************************************)
(* Every step of the detailed behaviour is a step of RequestLifecycle, or  *)
(* changes nothing there.                                                  *)
(***************************************************************************)
FoundBy(rs) == [s \in Sources |-> IF rs[s].stage \in Finished THEN {rs[s].count} ELSE {}]

LEMMA InitLifecycle == Init => Lifecycle!Init
<1> SUFFICES ASSUME Init PROVE Lifecycle!Init
  OBVIOUS
<1>1. /\ [q \in Requests |-> building[q].stage] = [q \in Requests |-> "absent"]
      /\ [q \in Requests |-> building[q].planners] = [q \in Requests |-> {}]
  BY DEF Init, NoBuilding
<1>2. \A q \in Requests, s \in Sources : runs[q][s].stage \notin Finished
  BY DEF Init, NoRun, Finished
<1>3. \A q \in Requests : [s \in Sources |->
          IF runs[q][s].stage \in Finished THEN {runs[q][s].count} ELSE {}] = [s \in Sources |-> {}]
  BY <1>2
<1>4. [q \in Requests |-> [s \in Sources |->
          IF runs[q][s].stage \in Finished THEN {runs[q][s].count} ELSE {}]] =
              [q \in Requests |-> [s \in Sources |-> {}]]
  BY <1>3, Zenon
<1>5. status = [q \in Requests |-> "absent"]
  BY DEF Init
<1> QED
  BY <1>1, <1>4, <1>5, Zenon DEF Lifecycle!Init

\* The three variables of RequestLifecycle that are not variables of Search.
LEMMA Mapped ==
    ASSUME Typed, Typed', NEW q \in Requests, \A p \in Requests : p # q => Same(p),
           NEW stage, building'[q].stage = stage, NEW asked, building'[q].planners = asked,
           NEW found, FoundBy(runs'[q]) = found
    PROVE  /\ status' = [status EXCEPT ![q] = status'[q]]
           /\ [p \in Requests |-> building'[p].stage] =
                  [[p \in Requests |-> building[p].stage] EXCEPT ![q] = stage]
           /\ [p \in Requests |-> building'[p].planners] =
                  [[p \in Requests |-> building[p].planners] EXCEPT ![q] = asked]
           /\ [p \in Requests |-> [s \in Sources |->
                   IF runs'[p][s].stage \in Finished THEN {runs'[p][s].count} ELSE {}]] =
                  [[p \in Requests |-> [s \in Sources |->
                       IF runs[p][s].stage \in Finished THEN {runs[p][s].count} ELSE {}]]
                     EXCEPT ![q] = found]
           /\ building[q].stage = stage =>
                  [p \in Requests |-> building'[p].stage] = [p \in Requests |-> building[p].stage]
           /\ building[q].planners = asked =>
                  [p \in Requests |-> building'[p].planners] =
                      [p \in Requests |-> building[p].planners]
           /\ FoundBy(runs[q]) = found =>
                  [p \in Requests |-> [s \in Sources |->
                      IF runs'[p][s].stage \in Finished THEN {runs'[p][s].count} ELSE {}]] =
                  [p \in Requests |-> [s \in Sources |->
                      IF runs[p][s].stage \in Finished THEN {runs[p][s].count} ELSE {}]]
<1>1. status \in [Requests -> Statuses] /\ status' \in [Requests -> Statuses]
  BY DEF Typed, TypeOK
<1>2. \A p \in Requests : p # q =>
          /\ status'[p] = status[p] /\ building'[p] = building[p] /\ runs'[p] = runs[p]
  BY DEF Same
<1>3. status' = [status EXCEPT ![q] = status'[q]]
  BY <1>1, <1>2
<1>4. \A p \in Requests : /\ building'[p].stage = IF p = q THEN stage ELSE building[p].stage
                          /\ building'[p].planners = IF p = q THEN asked ELSE building[p].planners
                          /\ FoundBy(runs'[p]) = IF p = q THEN found ELSE FoundBy(runs[p])
  BY <1>2
<1>5. /\ [p \in Requests |-> FoundBy(runs'[p])] =
             [[p \in Requests |-> FoundBy(runs[p])] EXCEPT ![q] = found]
      /\ FoundBy(runs[q]) = found =>
             [p \in Requests |-> FoundBy(runs'[p])] = [p \in Requests |-> FoundBy(runs[p])]
  BY <1>4
<1>6. /\ [p \in Requests |-> building'[p].stage] =
             [[p \in Requests |-> building[p].stage] EXCEPT ![q] = stage]
      /\ [p \in Requests |-> building'[p].planners] =
             [[p \in Requests |-> building[p].planners] EXCEPT ![q] = asked]
      /\ building[q].stage = stage =>
             [p \in Requests |-> building'[p].stage] = [p \in Requests |-> building[p].stage]
      /\ building[q].planners = asked =>
             [p \in Requests |-> building'[p].planners] = [p \in Requests |-> building[p].planners]
  BY <1>4
<1> QED
  BY <1>3, <1>5, <1>6 DEF FoundBy

\* What the sources of a building job have found, and how it ends.
LEMMA FoundByJob ==
    ASSUME NEW rs \in [Sources -> Run], NEW saved \in SUBSET Sources,
           \A s \in Sources : /\ RunTells(rs[s]) /\ rs[s].stage # "cancelled"
                              /\ rs[s].stage # "absent" <=> s \in saved
    PROVE  /\ {s \in saved : FoundBy(rs)[s] = {}} = Open(rs)
           /\ Open(rs) = {} =>
                  AggregateStage(rs) \in IF \E s \in saved : FoundBy(rs)[s] # {0}
                                         THEN {"awaiting_schedules"} ELSE {"no_routes", "failed"}
<1>1. \A s \in Sources : /\ rs[s].stage \in Finished \cup {"absent", "building"}
                         /\ rs[s].count \in 0..50
  BY DEF Run, Stages
<1>2. \A s \in Sources : FoundBy(rs)[s] =
          IF rs[s].stage \in Finished THEN {rs[s].count} ELSE {}
  BY DEF FoundBy
<1>3. {s \in saved : FoundBy(rs)[s] = {}} = Open(rs)
  BY <1>1, <1>2 DEF Open, Finished
<1>4. ASSUME Open(rs) = {}
      PROVE  AggregateStage(rs) \in IF \E s \in saved : FoundBy(rs)[s] # {0}
                                    THEN {"awaiting_schedules"} ELSE {"no_routes", "failed"}
  <2>1. \A s \in Sources : rs[s].stage \in Finished \/ rs[s].stage = "absent"
    BY <1>1, <1>4 DEF Open
  <2>2. \A s \in Sources : s \notin saved => rs[s].count = 0
    BY DEF RunTells
  <2>3. \A s \in saved : FoundBy(rs)[s] = {rs[s].count}
    BY <1>2, <2>1
  <2>4. "graph" \in Sources /\ "gemini" \in Sources /\ \A s \in Sources : s = "graph" \/ s = "gemini"
    BY DEF Sources
  <2>5. CASE \E s \in saved : FoundBy(rs)[s] # {0}
    <3>1. PICK s \in saved : rs[s].count # 0
      BY <2>3, <2>5
    <3>2. rs["graph"].count \in 0..50 /\ rs["gemini"].count \in 0..50
      BY <1>1, <2>4
    <3>3. rs["graph"].count # 0 \/ rs["gemini"].count # 0
      BY <2>4, <3>1
    <3>4. Total(rs) > 0
      BY <3>2, <3>3 DEF Total
    <3> QED
      BY <2>5, <3>4 DEF AggregateStage
  <2>6. CASE ~\E s \in saved : FoundBy(rs)[s] # {0}
    <3>1. \A s \in Sources : rs[s].count = 0
      BY <2>2, <2>3, <2>6
    <3>2. Total(rs) = 0
      BY <2>4, <3>1 DEF Total
    <3>3. AggregateStage(rs) \in {"no_routes", "failed"}
      BY <3>2 DEF AggregateStage
    <3> QED
      BY <2>6, <3>3
  <2> QED
    BY <2>5, <2>6
<1> QED
  BY <1>3, <1>4

LEMMA QuietLifecycle ==
    ASSUME Typed, Typed', NEW q \in Requests, \A p \in Requests : p # q => Same(p), Quiet(q)
    PROVE  Lifecycle!Cancel(q) \/ Lifecycle!Expire(q) \/ UNCHANGED Lifecycle!vars
<1> DEFINE stage == building[q].stage
           asked == building[q].planners
           found == FoundBy(runs[q])
<1>1. building[q] \in Building
  BY DEF Typed, TypeOK
<1>2. building'[q].stage = stage /\ building'[q].planners = asked /\ FoundBy(runs'[q]) = found
  BY <1>1 DEF Quiet, Building
<1>3. /\ UNCHANGED [p \in Requests |-> building[p].stage]
      /\ UNCHANGED [p \in Requests |-> building[p].planners]
      /\ UNCHANGED [p \in Requests |-> [s \in Sources |->
            IF runs[p][s].stage \in Finished THEN {runs[p][s].count} ELSE {}]]
      /\ status' = [status EXCEPT ![q] = status'[q]]
      /\ [p \in Requests |-> building'[p].stage] =
             [[p \in Requests |-> building[p].stage] EXCEPT ![q] = stage]
  <2> HIDE DEF stage, asked, found
  <2>1. /\ [p \in Requests |-> building'[p].stage] =
               [[p \in Requests |-> building[p].stage] EXCEPT ![q] = stage]
        /\ status' = [status EXCEPT ![q] = status'[q]]
        /\ building[q].stage = stage => UNCHANGED [p \in Requests |-> building[p].stage]
        /\ building[q].planners = asked => UNCHANGED [p \in Requests |-> building[p].planners]
        /\ FoundBy(runs[q]) = found => UNCHANGED [p \in Requests |-> [s \in Sources |->
               IF runs[p][s].stage \in Finished THEN {runs[p][s].count} ELSE {}]]
    BY <1>2, Mapped
  <2> QED
    BY <2>1 DEF stage, asked, found
<1>4. CASE status'[q] = status[q]
  <2>1. status' = status
    BY <1>3, <1>4 DEF Typed, TypeOK
  <2> QED
    BY <1>3, <2>1 DEF Lifecycle!vars
<1>5. CASE status[q] \in {"absent", "pending"} /\ status'[q] = "expired"
  BY <1>3, <1>5 DEF Lifecycle!Expire
<1>6. CASE /\ status[q] # "cancelled" /\ status'[q] = "cancelled"
           /\ building[q].stage \in {"absent", "cancelled"}
  <2>1. (IF stage = "absent" THEN "absent" ELSE "cancelled") = stage
    BY <1>6
  <2>2. [p \in Requests |-> building[p].stage][q] = stage
    OBVIOUS
  <2> QED
    BY <1>3, <1>6, <2>1, <2>2 DEF Lifecycle!Cancel
<1> QED
  BY <1>4, <1>5, <1>6 DEF Quiet

LEMMA QueuesLifecycle ==
    ASSUME Typed, Typed', NEW q \in Requests, \A p \in Requests : p # q => Same(p), Queues(q)
    PROVE  Lifecycle!Create(q)
<1>1. building[q] \in Building
  BY DEF Typed, TypeOK
<1>2. /\ building'[q].stage = "queued" /\ building'[q].planners = building[q].planners
      /\ FoundBy(runs'[q]) = FoundBy(runs[q]) /\ status'[q] = "pending"
  BY <1>1 DEF Queues, Building
<1> QED
  BY <1>2, Mapped DEF Lifecycle!Create, Queues

LEMMA CancelsLifecycle ==
    ASSUME Typed, Typed', NEW q \in Requests, \A p \in Requests : p # q => Same(p), Cancels(q)
    PROVE  Lifecycle!Cancel(q)
<1>1. building[q] \in Building /\ runs[q] \in [Sources -> Run]
  BY DEF Typed, TypeOK
<1>2. /\ building'[q].stage = "cancelled" /\ building'[q].planners = building[q].planners
      /\ status'[q] = "cancelled" /\ status[q] # "cancelled" /\ building[q].stage # "absent"
  BY <1>1 DEF Cancels, CancelledBuilding, Building
<1>3. FoundBy(runs'[q]) = FoundBy(runs[q])
  <2>1. \A s \in Sources :
            \/ runs'[q][s] = runs[q][s]
            \/ runs[q][s].stage = "building" /\ runs'[q][s].stage = "cancelled"
    <3> TAKE s \in Sources
    <3>1. runs'[q] = CancelledRuns(runs[q])
      BY DEF Cancels
    <3>2. CASE runs[q][s].stage = "building"
      BY <1>1, <3>1, <3>2, RunStages
    <3>3. CASE runs[q][s].stage # "building"
      BY <3>1, <3>3 DEF CancelledRuns, Open
    <3> QED
      BY <3>2, <3>3
  <2> QED
    BY <2>1 DEF FoundBy, Finished
<1>4. (IF [p \in Requests |-> building[p].stage][q] = "absent" THEN "absent" ELSE "cancelled")
          = "cancelled"
  BY <1>2
<1> QED
  BY <1>2, <1>3, <1>4, Mapped DEF Lifecycle!Cancel


LEMMA StatusKept ==
    ASSUME Typed, Typed', NEW q \in Requests, \A p \in Requests : p # q => Same(p),
           status'[q] = status[q]
    PROVE  status' = status
BY DEF Same, Typed, TypeOK

LEMMA StartsLifecycle ==
    ASSUME Typed, Typed', NEW q \in Requests, RowsTell(q), CancelledJob(q),
           \A p \in Requests : p # q => Same(p), Starts(q)
    PROVE  Lifecycle!Build(q) \/ UNCHANGED Lifecycle!vars
<1>1. PICK w \in Workers, saved \in (SUBSET Sources) \ {{}}, started \in SUBSET Sources :
            LET n == building[q].attempt + 1 IN
            /\ status'[q] = status[q]
            /\ building[q].stage \in {"queued", "building"}
            /\ building[q].stage = "building" => saved = building[q].planners
            /\ started = {s \in saved : runs[q][s].stage \in {"absent", "building"}}
            /\ building'[q] = [stage |-> "building", planners |-> saved, attempt |-> n,
                  holder |-> w, lease |-> "live", started |-> TRUE, finished |-> FALSE]
            /\ runs'[q] = StartedRuns(runs[q], started, n)
  BY DEF Starts
<1>2. building'[q].stage = "building" /\ building'[q].planners = saved
  BY <1>1
<1>3. FoundBy(runs'[q]) = FoundBy(runs[q])
  <2>1. \A s \in Sources :
            \/ runs'[q][s] = runs[q][s]
            \/ runs[q][s].stage \in {"absent", "building"} /\ runs'[q][s].stage = "building"
    <3> TAKE s \in Sources
    <3>1. runs[q][s] \in Run
      BY DEF Typed, TypeOK
    <3>2. [runs[q][s] EXCEPT !.stage = "building",
                             !.attempt = building[q].attempt + 1].stage = "building"
      BY <3>1 DEF Run
    <3>3. runs'[q] = StartedRuns(runs[q], started, building[q].attempt + 1)
      BY <1>1
    <3>4. CASE s \in started
      <4>1. runs[q][s].stage \in {"absent", "building"}
        BY <1>1, <3>4
      <4> QED
        BY <3>2, <3>3, <3>4, <4>1 DEF StartedRuns
    <3>5. CASE s \notin started
      BY <3>3, <3>5 DEF StartedRuns
    <3> QED
      BY <3>4, <3>5
  <2> QED
    BY <2>1 DEF FoundBy, Finished
<1>4. status' = status
  BY <1>1, StatusKept
<1>5. CASE building[q].stage = "queued"
  <2>1. status[q] # "cancelled"
    BY <1>5 DEF CancelledJob
  <2> QED
    BY <1>2, <1>3, <1>4, <1>5, <2>1, Mapped DEF Lifecycle!Build
<1>6. CASE building[q].stage = "building"
  BY <1>1, <1>2, <1>3, <1>4, <1>6, Mapped DEF Lifecycle!vars
<1> QED
  BY <1>1, <1>5, <1>6

\* The runs of a job that is building: those of its saved sources, none cancelled.
LEMMA BuildingRuns ==
    ASSUME Typed, NEW q \in Requests, RowsTell(q), JobConsistent(q), building[q].stage = "building"
    PROVE  /\ building[q] \in Building /\ runs[q] \in [Sources -> Run]
           /\ building[q].planners \in SUBSET Sources
           /\ status[q] # "cancelled"
           /\ \A s \in Sources : /\ RunTells(runs[q][s]) /\ runs[q][s].stage # "cancelled"
                                 /\ runs[q][s].stage # "absent" <=> s \in building[q].planners
BY DEF Typed, TypeOK, Building, RowsTell, JobConsistent, RunsAreSaved, CancelledJob

LEMMA ExhaustsLifecycle ==
    ASSUME Typed, Typed', NEW q \in Requests, RowsTell(q), RowsTell(q)', JobConsistent(q),
           \A p \in Requests : p # q => Same(p), Exhausts(q)
    PROVE  Lifecycle!GiveUp(q)
<1> DEFINE saved == building[q].planners
           old == runs[q]
           rs == runs'[q]
           found == [s \in Sources |-> IF s \in Open(old) THEN {0} ELSE FoundBy(old)[s]]
<1>1. /\ building[q].stage = "building" /\ status'[q] = status[q]
      /\ rs = ExhaustedRuns(old) /\ building'[q] = Closed(building[q], rs)
  BY DEF Exhausts
<1>2. /\ building[q] \in Building /\ old \in [Sources -> Run] /\ saved \in SUBSET Sources
      /\ status[q] # "cancelled"
      /\ \A s \in Sources : /\ RunTells(old[s]) /\ old[s].stage # "cancelled"
                            /\ old[s].stage # "absent" <=> s \in saved
  BY <1>1, BuildingRuns
<1>3. rs \in [Sources -> Run]
  BY <1>1, <1>2, RunChanges
<1>4. \A s \in Sources : RunTells(rs[s])
  BY DEF RowsTell
<1>5. building'[q].stage = AggregateStage(rs) /\ building'[q].planners = saved
  BY <1>1, <1>2, <1>3, ClosedType
<1>6. /\ [p \in Requests |-> building[p].planners][q] = saved
      /\ [p \in Requests |-> building[p].stage][q] = "building"
      /\ [p \in Requests |-> [s \in Sources |->
             IF runs[p][s].stage \in Finished THEN {runs[p][s].count} ELSE {}]][q] = FoundBy(old)
  BY <1>1 DEF FoundBy
<1> HIDE DEF saved, old, rs
<1>7. \A s \in Sources :
          /\ s \in Open(old) => rs[s].stage = "failed"
          /\ s \notin Open(old) => rs[s] = old[s]
  <2> TAKE s \in Sources
  <2>1. CASE s \in Open(old)
    <3>1. old[s].stage = "building"
      BY <2>1 DEF Open
    <3> QED
      BY <1>1, <1>2, <2>1, <3>1, RunStages
  <2>2. CASE s \notin Open(old)
    BY <1>1, <2>2 DEF ExhaustedRuns
  <2> QED
    BY <2>1, <2>2
<1>8. Open(rs) = {}
  BY <1>7 DEF Open
<1>9. \A s \in Sources : /\ RunTells(rs[s]) /\ rs[s].stage # "cancelled"
                         /\ rs[s].stage # "absent" <=> s \in saved
  <2> TAKE s \in Sources
  <2>1. CASE s \in Open(old)
    <3>1. old[s].stage = "building" /\ rs[s].stage = "failed"
      BY <1>7, <2>1 DEF Open
    <3> QED
      BY <1>2, <1>4, <3>1
  <2>2. CASE s \notin Open(old)
    BY <1>2, <1>7, <2>2
  <2> QED
    BY <2>1, <2>2
<1>10. FoundBy(rs) = found
  <2>1. \A s \in Open(old) : rs[s].count = 0 /\ rs[s].stage \in Finished /\ s \in Sources
    BY <1>4, <1>7 DEF RunTells, Open, Finished
  <2> QED
    BY <1>7, <2>1 DEF FoundBy
<1>11. {s \in saved : FoundBy(old)[s] = {}} = Open(old)
  BY <1>2, FoundByJob
<1>12. AggregateStage(rs) \in IF \E s \in saved : FoundBy(rs)[s] # {0}
                              THEN {"awaiting_schedules"} ELSE {"no_routes", "failed"}
  BY <1>2, <1>3, <1>8, <1>9, FoundByJob
<1>13. [s \in Sources |->
           IF s \in {t \in saved : FoundBy(old)[t] = {}} THEN {0} ELSE FoundBy(old)[s]] = found
  BY <1>11
<1>14. AggregateStage(rs) \in IF \E s \in saved : found[s] # {0}
                              THEN {"awaiting_schedules"} ELSE {"no_routes", "failed"}
  BY <1>10, <1>12
<1>15. status' = status
  BY <1>1, StatusKept
<1> HIDE DEF found
<1>16. /\ UNCHANGED [p \in Requests |-> building[p].planners]
       /\ [p \in Requests |-> building'[p].stage] =
              [[p \in Requests |-> building[p].stage] EXCEPT ![q] = AggregateStage(rs)]
       /\ [p \in Requests |-> [s \in Sources |->
              IF runs'[p][s].stage \in Finished THEN {runs'[p][s].count} ELSE {}]] =
              [[p \in Requests |-> [s \in Sources |->
                   IF runs[p][s].stage \in Finished THEN {runs[p][s].count} ELSE {}]]
                 EXCEPT ![q] = found]
  BY <1>5, <1>10, Mapped DEF saved, rs
<1> DEFINE F == [p \in Requests |-> [s \in Sources |->
                    IF runs[p][s].stage \in Finished THEN {runs[p][s].count} ELSE {}]]
<1>17. [s \in Sources |-> IF s \in Lifecycle!Waiting(F[q], q) THEN {0} ELSE F[q][s]] = found
  <2>1. F[q] = FoundBy(old)
    BY <1>6
  <2>2. Lifecycle!Waiting(FoundBy(old), q) = {t \in saved : FoundBy(old)[t] = {}}
    BY <1>6 DEF Lifecycle!Waiting
  <2> HIDE DEF F
  <2> QED
    BY <1>13, <2>1, <2>2
<1>18. AggregateStage(rs) \in Lifecycle!Verdicts(found, q)
  BY <1>6, <1>14 DEF Lifecycle!Verdicts
<1> QED
  BY <1>1, <1>2, <1>6, <1>15, <1>16, <1>17, <1>18, Zenon DEF Lifecycle!GiveUp

LEMMA ReportsLifecycle ==
    ASSUME Typed, Typed', NEW q \in Requests, RowsTell(q), RowsTell(q)', JobConsistent(q),
           \A p \in Requests : p # q => Same(p), Reports(q)
    PROVE  Lifecycle!Report(q)
<1> DEFINE saved == building[q].planners
           rs == runs'[q]
<1> PICK s \in Sources, r \in Results :
          /\ status[q] = "pending" /\ status'[q] = status[q]
          /\ building[q].stage = "building" /\ runs[q][s].stage = "building"
          /\ rs = [runs[q] EXCEPT ![s] = FinishedRun(runs[q][s], r)]
          /\ \/ Open(rs) # {} /\ building'[q] = building[q]
             \/ Open(rs) = {} /\ building'[q] = Closed(building[q], rs)
  BY DEF Reports
<1> DEFINE n == FinishedRun(runs[q][s], r).count
           found == [FoundBy(runs[q]) EXCEPT ![s] = {n}]
<1>1. /\ building[q] \in Building /\ runs[q] \in [Sources -> Run] /\ saved \in SUBSET Sources
      /\ \A t \in Sources : /\ RunTells(runs[q][t]) /\ runs[q][t].stage # "cancelled"
                            /\ runs[q][t].stage # "absent" <=> t \in saved
  BY BuildingRuns
<1>2. FinishedRun(runs[q][s], r) \in Run /\ FinishedRun(runs[q][s], r).stage \in Finished
  BY <1>1, FinishedRunType
<1>3. rs \in [Sources -> Run] /\ rs[s] = FinishedRun(runs[q][s], r)
      /\ \A t \in Sources : t # s => rs[t] = runs[q][t]
  BY <1>1, <1>2
<1>4. n \in 0..50
  BY <1>2 DEF Run
<1>5. \A t \in Sources : /\ RunTells(rs[t]) /\ rs[t].stage # "cancelled"
                         /\ rs[t].stage # "absent" <=> t \in saved
  BY <1>1, <1>2, <1>3 DEF RowsTell, Finished
<1>6. FoundBy(rs) = found
  BY <1>2, <1>3 DEF FoundBy
<1>7. s \in saved /\ FoundBy(runs[q])[s] = {}
  BY <1>1 DEF FoundBy, Finished
<1> HIDE DEF saved, rs, n
<1>8. /\ {t \in saved : FoundBy(rs)[t] = {}} = Open(rs)
      /\ Open(rs) = {} =>
            AggregateStage(rs) \in IF \E t \in saved : FoundBy(rs)[t] # {0}
                                   THEN {"awaiting_schedules"} ELSE {"no_routes", "failed"}
  BY <1>1, <1>3, <1>5, FoundByJob
<1>9. /\ {t \in saved : found[t] = {}} = Open(rs)
      /\ Open(rs) = {} =>
            AggregateStage(rs) \in IF \E t \in saved : found[t] # {0}
                                   THEN {"awaiting_schedules"} ELSE {"no_routes", "failed"}
  BY <1>6, <1>8
<1>10. /\ building'[q].planners = saved
       /\ Open(rs) # {} => building'[q].stage = building[q].stage
       /\ Open(rs) = {} => building'[q].stage = AggregateStage(rs)
  BY <1>1, <1>3, ClosedType DEF saved
<1>11. status' = status
  BY StatusKept
<1>12. /\ UNCHANGED [p \in Requests |-> building[p].planners]
       /\ Open(rs) # {} => UNCHANGED [p \in Requests |-> building[p].stage]
       /\ Open(rs) = {} => [p \in Requests |-> building'[p].stage] =
              [[p \in Requests |-> building[p].stage] EXCEPT ![q] = AggregateStage(rs)]
       /\ [p \in Requests |-> [t \in Sources |->
              IF runs'[p][t].stage \in Finished THEN {runs'[p][t].count} ELSE {}]] =
              [[p \in Requests |-> [t \in Sources |->
                   IF runs[p][t].stage \in Finished THEN {runs[p][t].count} ELSE {}]]
                 EXCEPT ![q] = found]
  <2> HIDE DEF found
  <2> QED
    BY <1>6, <1>10, Mapped DEF saved, rs
<1>13. /\ [p \in Requests |-> building[p].planners][q] = saved
       /\ [p \in Requests |-> building[p].stage][q] = "building"
       /\ [p \in Requests |-> [t \in Sources |->
              IF runs[p][t].stage \in Finished THEN {runs[p][t].count} ELSE {}]][q] = FoundBy(runs[q])
  BY DEF saved, FoundBy
<1>14. status[q] = "pending" /\ n \in 0..50
  BY <1>4
<1> DEFINE F == [p \in Requests |-> [t \in Sources |->
                    IF runs[p][t].stage \in Finished THEN {runs[p][t].count} ELSE {}]]
<1>15. F[q] = FoundBy(runs[q]) /\ [F[q] EXCEPT ![s] = {n}] = found
  BY <1>13
<1>16. s \in Lifecycle!Waiting(F[q], q) /\ Lifecycle!Waiting(found, q) = Open(rs)
  <2> HIDE DEF found, F
  <2> QED
    BY <1>7, <1>9, <1>13, <1>15 DEF Lifecycle!Waiting
<1>17. Open(rs) = {} => AggregateStage(rs) \in Lifecycle!Verdicts(found, q)
  <2> HIDE DEF found
  <2> QED
    BY <1>9, <1>13 DEF Lifecycle!Verdicts
<1> HIDE DEF found
<1>18. LET f == [F[q] EXCEPT ![s] = {n}] IN
       /\ F' = [F EXCEPT ![q] = f]
       /\ IF Lifecycle!Waiting(f, q) # {} THEN UNCHANGED [p \in Requests |-> building[p].stage]
          ELSE \E v \in Lifecycle!Verdicts(f, q) :
                  [p \in Requests |-> building'[p].stage] =
                      [[p \in Requests |-> building[p].stage] EXCEPT ![q] = v]
  BY <1>12, <1>15, <1>16, <1>17
<1> QED
  BY <1>11, <1>12, <1>13, <1>14, <1>16, <1>18, Zenon DEF Lifecycle!Report

LEMMA NextLifecycle ==
    ASSUME Inductive, Inductive', Rows, [Next]_vars
    PROVE  [Lifecycle!Next]_(Lifecycle!vars)
<1>1. /\ Typed /\ Typed'
      /\ \A q \in Requests : /\ RowsTell(q) /\ RowsTell(q)' /\ JobConsistent(q) /\ CancelledJob(q)
  BY NextRows DEF Inductive, Rows, Consistent, JobConsistent
<1>2. CASE UNCHANGED database
  BY <1>2 DEF database, Lifecycle!vars
<1>3. CASE \E q \in Requests : Changes(q) /\ \A p \in Requests : p # q => Same(p)
  <2> PICK q \in Requests : Changes(q) /\ \A p \in Requests : p # q => Same(p)
    BY <1>3
  <2>1. \/ Lifecycle!Create(q) \/ Lifecycle!Build(q) \/ Lifecycle!Report(q)
        \/ Lifecycle!GiveUp(q) \/ Lifecycle!Cancel(q) \/ Lifecycle!Expire(q)
        \/ UNCHANGED Lifecycle!vars
    BY <1>1, QuietLifecycle, QueuesLifecycle, CancelsLifecycle, StartsLifecycle,
       ExhaustsLifecycle, ReportsLifecycle DEF Changes
  <2> QED
    BY <2>1 DEF Lifecycle!Next
<1> QED
  BY <1>2, <1>3, NextRows

(***************************************************************************)
(* The build of a request, with its leases, attempts, crashes and stale    *)
(* processes (storage/sources.go, planning/multi.go), implements           *)
(* RequestLifecycle: each source asked answers once, a result is never     *)
(* taken back, and the stage follows from the answers.                     *)
(***************************************************************************)
THEOREM LifecycleImplemented == Spec => ImplementsLifecycle
<1>1. Inductive /\ Inductive' /\ Rows /\ [Next]_vars => [Lifecycle!Next]_(Lifecycle!vars)
  BY NextLifecycle
<1> QED
  BY <1>1, InitLifecycle, AlwaysRows, PTL DEF Spec, ImplementsLifecycle, Lifecycle!Spec

------------------------------------------------------------------------------
(***************************************************************************)
(* The process whose token is on a job works on the attempt under way: a   *)
(* process that lost its lease may go on, but never as the holder.         *)
(***************************************************************************)
OwnAttempt ==
    \A w \in Workers :
        job[w].pc = "working" /\ building[job[w].request].holder = w
            => job[w].attempt = building[job[w].request].attempt

\* A step of another process or of Cabinet hands the job to nobody.
HolderKept(q) ==
    \/ building'[q].holder = NoWorker
    \/ building'[q].holder = building[q].holder /\ building'[q].attempt = building[q].attempt

\* A job that goes on works on the same attempt; only a claim starts one.
JobKept(w) ==
    job'[w].pc = "working" =>
        /\ job[w].pc = "working"
        /\ job'[w].request = job[w].request /\ job'[w].attempt = job[w].attempt

LEMMA AttemptKept ==
    ASSUME Typed, OwnAttempt, \A q \in Requests : HolderKept(q), \A w \in Workers : JobKept(w)
    PROVE  OwnAttempt'
<1> SUFFICES ASSUME NEW w \in Workers, job'[w].pc = "working",
                    building'[job'[w].request].holder = w
             PROVE  job'[w].attempt = building'[job'[w].request].attempt
  BY DEF OwnAttempt
<1>1. /\ job[w].pc = "working"
      /\ job'[w].request = job[w].request /\ job'[w].attempt = job[w].attempt
  BY DEF JobKept
<1>2. job[w].request \in Requests /\ HolderKept(job[w].request)
  BY <1>1 DEF Typed, Selected
<1>3. w # NoWorker
  BY NoWorkerAssumption
<1> QED
  BY <1>1, <1>2, <1>3 DEF HolderKept, OwnAttempt

LEMMA BuildingKept ==
    ASSUME Typed, NEW p \in Requests, NEW b,
           building' \in {building, [building EXCEPT ![p] = b]},
           \/ b.holder = NoWorker
           \/ b.holder = building[p].holder /\ b.attempt = building[p].attempt
    PROVE  \A q \in Requests : HolderKept(q)
BY DEF HolderKept, Typed, TypeOK

LEMMA JobChanged ==
    ASSUME Typed, NEW v \in Workers, NEW j, job' = [job EXCEPT ![v] = j],
           \/ j.pc # "working"
           \/ j = job[v]
           \/ \E s \in Sources : j = Done(job[v], s) /\ job[v].pc = "working"
    PROVE  \A w \in Workers : JobKept(w)
<1>1. job[v] \in Job /\ job'[v] = j /\ \A w \in Workers : w # v => job'[w] = job[w]
  BY DEF Typed, TypeOK
<1>2. \A s \in Sources : Done(job[v], s).pc # "idle" =>
          /\ Done(job[v], s).request = job[v].request /\ Done(job[v], s).attempt = job[v].attempt
  BY <1>1 DEF Done, Job, Idle
<1> QED
  BY <1>1, <1>2 DEF JobKept

LEMMA ReceivesKeepsAttempt ==
    ASSUME Typed, OwnAttempt, NEW p \in Requests, Receives(p) \/ LeaseLapses(p)
    PROVE  OwnAttempt'
<1>1. building[p] \in Building
  BY DEF Typed, TypeOK
<1>2. PICK b : /\ building' \in {building, [building EXCEPT ![p] = b]}
               /\ \/ b.holder = NoWorker
                  \/ b.holder = building[p].holder /\ b.attempt = building[p].attempt
  <2>1. CASE ApplyCreated(p)
    <3> DEFINE b == [building[p] EXCEPT !.stage = "queued"]
    <3>1. b.holder = building[p].holder /\ b.attempt = building[p].attempt
      BY <1>1 DEF Building
    <3>2. building' \in {building, [building EXCEPT ![p] = b]}
      BY <2>1 DEF ApplyCreated
    <3> HIDE DEF b
    <3> QED
      BY <3>1, <3>2
  <2>2. CASE ApplyCancelled(p)
    <3>1. CancelledBuilding(building[p]).holder = NoWorker
      BY <1>1 DEF CancelledBuilding, Building
    <3>2. building' \in {building, [building EXCEPT ![p] = CancelledBuilding(building[p])]}
      BY <2>2 DEF ApplyCancelled
    <3> QED
      BY <3>1, <3>2
  <2>3. CASE ApplyExpired(p)
    BY <2>3 DEF ApplyExpired
  <2>4. CASE LeaseLapses(p)
    <3> DEFINE b == [building[p] EXCEPT !.lease = "lapsed"]
    <3>1. b.holder = building[p].holder /\ b.attempt = building[p].attempt
      BY <1>1 DEF Building
    <3>2. building' \in {building, [building EXCEPT ![p] = b]}
      BY <2>4 DEF LeaseLapses
    <3> HIDE DEF b
    <3> QED
      BY <3>1, <3>2
  <2> QED
    BY <2>1, <2>2, <2>3, <2>4 DEF Receives
<1>3. \A q \in Requests : HolderKept(q)
  BY <1>2, BuildingKept
<1>4. \A w \in Workers : JobKept(w)
  BY DEF Receives, ApplyCreated, ApplyCancelled, ApplyExpired, LeaseLapses, JobKept
<1> QED
  BY <1>3, <1>4, AttemptKept

LEMMA ClaimStartKeepsAttempt ==
    ASSUME Typed, Typed', OwnAttempt, NEW w \in Workers, ClaimStart(w)
    PROVE  OwnAttempt'
<1> DEFINE q == job[w].request
           n == building[q].attempt + 1
<1>1. q \in Requests
  BY DEF ClaimStart, Typed, Selected
<1>2. /\ building'[q].holder = w /\ building'[q].attempt = n
      /\ \A p \in Requests : p # q => building'[p] = building[p]
  BY <1>1 DEF ClaimStart, Typed, TypeOK
<1>3. /\ job'[w].request = q /\ job'[w].attempt = n
      /\ \A v \in Workers : v # w => job'[v] = job[v]
  BY DEF ClaimStart, Typed, TypeOK
<1> HIDE DEF q, n
<1> SUFFICES ASSUME NEW v \in Workers, job'[v].pc = "working",
                    building'[job'[v].request].holder = v
             PROVE  job'[v].attempt = building'[job'[v].request].attempt
  BY DEF OwnAttempt
<1>4. CASE v = w
  BY <1>2, <1>3, <1>4
<1>5. CASE v # w
  <2>1. job'[v] = job[v] /\ job[v].request \in Requests /\ job[v].request # q
    BY <1>2, <1>3, <1>5 DEF Typed, Selected
  <2> QED
    BY <1>2, <2>1 DEF OwnAttempt
<1> QED
  BY <1>4, <1>5

LEMMA WorkerKeepsAttempt ==
    ASSUME Typed, OwnAttempt, NEW w \in Workers, Claims(w) \/ Works(w) \/ WorkerStops(w),
           ~ClaimStart(w)
    PROVE  OwnAttempt'
<1>1. job[w] \in Job /\ Idle.pc = "idle"
  BY DEF Typed, TypeOK, Idle
<1>2. \A v \in Workers : JobKept(v)
  <2>1. CASE ClaimSelect(w)
    <3>1. PICK q \in Requests :
              job' = [job EXCEPT ![w] = [job[w] EXCEPT !.pc = "selected", !.request = q]]
      BY <2>1 DEF ClaimSelect
    <3>2. [job[w] EXCEPT !.pc = "selected", !.request = q].pc = "selected"
      BY <1>1 DEF Job
    <3> QED
      BY <3>1, <3>2, JobChanged
  <2>2. CASE ClaimLost(w) \/ ClaimExhausted(w) \/ PollInactive(w) \/ WorkerStops(w)
    <3>1. job' = [job EXCEPT ![w] = Idle]
      BY <2>2 DEF ClaimLost, ClaimExhausted, PollInactive, WorkerStops
    <3> QED
      BY <1>1, <3>1, JobChanged
  <2>3. CASE \E s \in Sources : DropResult(w, s) \/ \E r \in Results : FinishSource(w, s, r)
    <3>1. PICK s \in Sources :
              job' = [job EXCEPT ![w] = Done(job[w], s)] /\ job[w].pc = "working"
      BY <2>3 DEF DropResult, FinishSource
    <3> QED
      BY <3>1, JobChanged
  <2> QED
    BY <2>1, <2>2, <2>3 DEF Claims, Works
<1>3. \A q \in Requests : HolderKept(q)
  <2>1. CASE UNCHANGED building
    BY <2>1 DEF HolderKept
  <2>2. CASE ~UNCHANGED building
    <3> DEFINE p == job[w].request
    <3>1. p \in Requests
      BY <2>2 DEF Claims, Works, ClaimSelect, ClaimLost, ClaimExhausted, FinishSource, DropResult,
         PollInactive, WorkerStops, database, Typed, Selected
    <3>2. building[p] \in Building
      BY <3>1 DEF Typed, TypeOK
    <3>3. \A rs : /\ Closed(building[p], rs).holder = NoWorker
                  /\ \A S : Closed([building[p] EXCEPT !.planners = S], rs).holder = NoWorker
      BY <3>2 DEF Closed, Building
    <3>4. PICK b : building' = [building EXCEPT ![p] = b] /\ b.holder = NoWorker
      <4>1. CASE ClaimExhausted(w)
        BY <3>3, <4>1 DEF ClaimExhausted
      <4>2. CASE \E s \in Sources, r \in Results : FinishSource(w, s, r)
        BY <2>2, <3>3, <4>2 DEF FinishSource
      <4> QED
        BY <2>2, <4>1, <4>2 DEF Claims, Works, ClaimSelect, ClaimLost, DropResult,
           PollInactive, WorkerStops, database
    <3> HIDE DEF p
    <3> QED
      BY <3>1, <3>4 DEF HolderKept, Typed, TypeOK
  <2> QED
    BY <2>1, <2>2
<1> QED
  BY <1>2, <1>3, AttemptKept

LEMMA AlwaysOwnAttempt == Spec => [](Inductive /\ OwnAttempt)
<1>1. Init => OwnAttempt
  BY DEF Init, Idle, OwnAttempt
<1>2. ASSUME Inductive, Inductive', OwnAttempt, [Next]_vars
      PROVE  OwnAttempt'
  <2>1. Typed /\ Typed'
    BY <1>2 DEF Inductive
  <2>2. CASE UNCHANGED vars
    BY <1>2, <2>2 DEF vars, OwnAttempt
  <2>3. CASE \E q \in Requests : Receives(q) \/ LeaseLapses(q)
    BY <1>2, <2>1, <2>3, ReceivesKeepsAttempt
  <2>4. CASE \E w \in Workers : Claims(w) \/ Works(w) \/ WorkerStops(w)
    BY <1>2, <2>1, <2>4, ClaimStartKeepsAttempt, WorkerKeepsAttempt
  <2> QED
    BY <1>2, <2>2, <2>3, <2>4 DEF Next
<1> QED
  BY <1>1, <1>2, AlwaysInductive, PTL DEF Spec

(***************************************************************************)
(* A result is recorded only for the attempt under way: whoever saves what *)
(* a source found claimed this very attempt, whatever stale processes are  *)
(* still at work on the same job (FinishSource, claim.go's lease token).   *)
(***************************************************************************)
THEOREM StaleResultsDropped == Spec => OnlyCurrentAttempt
<1>1. ASSUME Inductive, OwnAttempt, [Next]_vars, NEW q \in Requests, NEW s \in Sources,
             runs[q][s].stage = "building", runs'[q][s].stage \in Finished,
             runs'[q][s].outcome # "timeout"
      PROVE  \E w \in Workers : /\ job[w].request = q
                                /\ job[w].attempt = building[q].attempt
                                /\ s \in job[w].remaining
                                /\ s \notin job'[w].remaining
  <2>1. /\ Typed /\ runs \in [Requests -> [Sources -> Run]] /\ job \in [Workers -> Job]
        /\ runs[q] \in [Sources -> Run] /\ runs'[q] # runs[q]
    BY <1>1 DEF Inductive, Typed, TypeOK, Finished
  <2>2. CASE \E p \in Requests : Receives(p)
    <3>1. runs'[q] = CancelledRuns(runs[q])
      BY <2>1, <2>2 DEF Receives, ApplyCreated, ApplyCancelled, ApplyExpired
    <3>2. runs'[q][s].stage = "cancelled"
      BY <1>1, <2>1, <3>1, RunStages
    <3> QED
      BY <1>1, <3>2 DEF Finished
  <2>3. CASE \E w \in Workers : ClaimStart(w)
    <3>1. PICK S, n : runs'[q] = StartedRuns(runs[q], S, n)
      BY <2>1, <2>3 DEF ClaimStart, Typed, Selected
    <3>2. [runs[q][s] EXCEPT !.stage = "building", !.attempt = n].stage = "building"
      BY <2>1 DEF Run
    <3>3. runs'[q][s].stage = "building"
      BY <1>1, <3>1, <3>2 DEF StartedRuns
    <3> QED
      BY <1>1, <3>3 DEF Finished
  <2>4. CASE \E w \in Workers : ClaimExhausted(w)
    <3>1. runs'[q] = ExhaustedRuns(runs[q])
      BY <2>1, <2>4 DEF ClaimExhausted, Typed, Selected
    <3>2. [runs[q][s] EXCEPT !.stage = "failed", !.outcome = "timeout",
                             !.incomplete = TRUE, !.finished = TRUE].outcome = "timeout"
      BY <2>1 DEF Run
    <3>3. runs'[q][s].outcome = "timeout"
      BY <1>1, <3>1, <3>2 DEF ExhaustedRuns, Open
    <3> QED
      BY <1>1, <3>3
  <2>5. CASE \E w \in Workers, t \in Sources, r \in Results : FinishSource(w, t, r)
    <3>1. PICK w \in Workers, t \in Sources, r \in Results : FinishSource(w, t, r)
      BY <2>5
    <3>2. /\ job[w].request \in Requests /\ job[w] \in Job /\ t \in job[w].remaining
          /\ job[w].pc = "working" /\ building[job[w].request].holder = w
          /\ job' = [job EXCEPT ![w] = Done(job[w], t)]
          /\ runs' = [runs EXCEPT ![job[w].request][t] =
                                    FinishedRun(runs[job[w].request][t], r)]
      BY <2>1, <3>1 DEF FinishSource, Recordable, Holds, Typed, Selected
    <3>3. job[w].request = q /\ t = s
      BY <1>1, <2>1, <3>2 DEF Finished
    <3>4. job[w].attempt = building[q].attempt
      BY <1>1, <3>2, <3>3 DEF OwnAttempt
    <3>5. s \notin job'[w].remaining
      <4>1. job'[w] = Done(job[w], s)
        BY <2>1, <3>2, <3>3
      <4>2. s \notin Done(job[w], s).remaining
        BY <3>2 DEF Done, Idle, Job
      <4> QED
        BY <4>1, <4>2
    <3> QED
      BY <3>2, <3>3, <3>4, <3>5
  <2> QED
    BY <1>1, <2>1, <2>2, <2>3, <2>4, <2>5 DEF Next, Claims, Works, ClaimSelect, ClaimLost,
       DropResult, PollInactive, WorkerStops, LeaseLapses, database, vars
<1>2. Inductive /\ OwnAttempt /\ [Next]_vars =>
          [\A q \in Requests, s \in Sources :
              (/\ runs[q][s].stage = "building"
               /\ runs'[q][s].stage \in Finished
               /\ runs'[q][s].outcome # "timeout")
              => \E w \in Workers : /\ job[w].request = q
                                    /\ job[w].attempt = building[q].attempt
                                    /\ s \in job[w].remaining
                                    /\ s \notin job'[w].remaining]_vars
  BY <1>1
<1> QED
  BY <1>2, AlwaysOwnAttempt, PTL DEF Spec, OnlyCurrentAttempt

------------------------------------------------------------------------------
(***************************************************************************)
(* The history of a request, as a sequence of events that only grows. Each *)
(* end of a source tells what its row says, the end of the whole stage     *)
(* comes after them, and the last event of the stage tells where it is.    *)
(***************************************************************************)
EndsOf(h, p) == {i \in DOMAIN h : h[i].planner = p /\ h[i].stage \in Finished}

AllOf(h) == {i \in DOMAIN h : h[i].planner = "all"}

SourcesTell(h, rs) ==
    \A s \in Sources :
        /\ rs[s].stage \in Finished => EndsOf(h, s) # {}
        /\ \A i \in EndsOf(h, s) :
              /\ rs[s].stage \in Finished /\ h[i].count = rs[s].count
              /\ \A j \in EndsOf(h, s) : i = j

StageTells(h, rs, b) ==
    \A i \in EndsOf(h, "all") :
        /\ b.stage \in Finished \cup {"cancelled"}
        /\ \A s \in Sources : rs[s].stage \in Finished \cup {"absent"}
        /\ h[i].count = Total(rs)
        /\ \A s \in b.planners : \E k \in EndsOf(h, s) : k < i
        /\ \A j \in EndsOf(h, "all") : i = j

LastTells(h, stage, st) ==
    /\ stage = "absent" => h = <<>>
    /\ stage # "absent" =>
          \E i \in AllOf(h) : h[i].stage = stage /\ \A j \in AllOf(h) : j <= i
    /\ \A i \in AllOf(h) : /\ h[i].stage = "queued" => i = 1
                           /\ h[i].stage = "cancelled" => st = "cancelled"
    /\ \A i \in DOMAIN h : Accepted(h[i])

HistoryTells(q) ==
    /\ SourcesTell(progress[q], runs[q])
    /\ StageTells(progress[q], runs[q], building[q])
    /\ LastTells(progress[q], building[q].stage, status[q])

\* What the events of one step tell: all keep to the contract,
AllAccepted(ev) == \A j \in DOMAIN ev : Accepted(ev[j])

OnlySources(ev) == \A i \in DOMAIN ev : ev[i].planner \in Sources /\ Accepted(ev[i])

\* one of them is of the whole stage,
OneOfAll(ev, e) == \E m \in DOMAIN ev : AllOf(ev) = {m} /\ ev[m] = e

\* the sources of S report an end whose runs have ended,
EndsAre(ev, S, rs) ==
    \A s \in Sources :
        IF s \in S /\ rs[s].stage \in Finished
        THEN \E j \in DOMAIN ev : EndsOf(ev, s) = {j} /\ ev[j].count = rs[s].count
        ELSE EndsOf(ev, s) = {}

\* and that is what the step changes in the runs.
Told(ev, rs, rt) ==
    \A s \in Sources :
        \/ /\ EndsOf(ev, s) = {} /\ (rt[s].stage \in Finished <=> rs[s].stage \in Finished)
           /\ rs[s].stage \in Finished => rt[s].count = rs[s].count
        \/ /\ rs[s].stage \notin Finished /\ rt[s].stage \in Finished
           /\ \E j \in DOMAIN ev : EndsOf(ev, s) = {j} /\ ev[j].count = rt[s].count

LEMMA Appended ==
    ASSUME NEW h \in Seq(Event), NEW ev \in Seq(Event)
    PROVE  /\ h \o ev \in Seq(Event)
           /\ DOMAIN (h \o ev) = 1..(Len(h) + Len(ev))
           /\ \A i \in DOMAIN h : i \in 1..Len(h) /\ i \in DOMAIN (h \o ev) /\ (h \o ev)[i] = h[i]
           /\ \A j \in DOMAIN ev : /\ j \in 1..Len(ev) /\ Len(h) + j \in DOMAIN (h \o ev)
                                   /\ (h \o ev)[Len(h) + j] = ev[j]
           /\ \A i \in DOMAIN (h \o ev) :
                  i \in DOMAIN h \/ \E j \in DOMAIN ev : i = Len(h) + j
<1>1. /\ h \o ev \in Seq(Event) /\ Len(h) \in Nat /\ Len(ev) \in Nat
      /\ DOMAIN (h \o ev) = 1..(Len(h) + Len(ev))
      /\ DOMAIN h = 1..Len(h) /\ DOMAIN ev = 1..Len(ev)
  OBVIOUS
<1>2. \A i \in DOMAIN h : (h \o ev)[i] = h[i]
  OBVIOUS
<1>3. \A j \in DOMAIN ev : (h \o ev)[Len(h) + j] = ev[j]
  OBVIOUS
<1>4. \A i \in DOMAIN (h \o ev) :
          i \in DOMAIN h \/ \E j \in DOMAIN ev : i = Len(h) + j
  <2> TAKE i \in DOMAIN (h \o ev)
  <2>1. CASE i <= Len(h)
    BY <1>1, <2>1
  <2>2. CASE ~(i <= Len(h))
    <3>1. i - Len(h) \in DOMAIN ev /\ i = Len(h) + (i - Len(h))
      BY <1>1, <2>2
    <3> QED
      BY <3>1
  <2> QED
    BY <2>1, <2>2
<1> QED
  BY <1>1, <1>2, <1>3, <1>4

LEMMA AppendedEnds ==
    ASSUME NEW h \in Seq(Event), NEW ev \in Seq(Event), NEW p
    PROVE  /\ EndsOf(h \o ev, p) = EndsOf(h, p) \cup {Len(h) + j : j \in EndsOf(ev, p)}
           /\ AllOf(h \o ev) = AllOf(h) \cup {Len(h) + j : j \in AllOf(ev)}
<1>1. /\ \A i \in DOMAIN h : i \in DOMAIN (h \o ev) /\ (h \o ev)[i] = h[i]
      /\ \A j \in DOMAIN ev : /\ Len(h) + j \in DOMAIN (h \o ev)
                              /\ (h \o ev)[Len(h) + j] = ev[j]
      /\ \A i \in DOMAIN (h \o ev) :
             i \in DOMAIN h \/ \E j \in DOMAIN ev : i = Len(h) + j
  BY Appended
<1> QED
  BY <1>1, Zenon DEF EndsOf, AllOf

\* Each end of a source is told once, with what its row says.
LEMMA SourcesGrow ==
    ASSUME NEW h \in Seq(Event), NEW ev \in Seq(Event), NEW rs, NEW rt, SourcesTell(h, rs),
           Told(ev, rs, rt)
    PROVE  SourcesTell(h \o ev, rt)
<1> SUFFICES ASSUME NEW s \in Sources
             PROVE  /\ rt[s].stage \in Finished => EndsOf(h \o ev, s) # {}
                    /\ \A i \in EndsOf(h \o ev, s) :
                          /\ rt[s].stage \in Finished /\ (h \o ev)[i].count = rt[s].count
                          /\ \A j \in EndsOf(h \o ev, s) : i = j
  BY DEF SourcesTell
<1>1. EndsOf(h \o ev, s) = EndsOf(h, s) \cup {Len(h) + j : j \in EndsOf(ev, s)}
  BY AppendedEnds
<1>2. \A i \in EndsOf(h, s) : (h \o ev)[i] = h[i]
  BY Appended DEF EndsOf
<1>3. CASE /\ EndsOf(ev, s) = {} /\ (rt[s].stage \in Finished <=> rs[s].stage \in Finished)
           /\ rs[s].stage \in Finished => rt[s].count = rs[s].count
  <2>1. EndsOf(h \o ev, s) = EndsOf(h, s)
    BY <1>1, <1>3
  <2> QED
    BY <1>2, <1>3, <2>1 DEF SourcesTell
<1>4. CASE /\ rs[s].stage \notin Finished /\ rt[s].stage \in Finished
           /\ \E j \in DOMAIN ev : EndsOf(ev, s) = {j} /\ ev[j].count = rt[s].count
  <2>1. PICK j \in DOMAIN ev : EndsOf(ev, s) = {j} /\ ev[j].count = rt[s].count
    BY <1>4
  <2>2. EndsOf(h, s) = {}
    BY <1>4 DEF SourcesTell
  <2>3. EndsOf(h \o ev, s) = {Len(h) + j}
    BY <1>1, <2>1, <2>2
  <2>4. (h \o ev)[Len(h) + j] = ev[j]
    BY Appended
  <2> QED
    BY <1>4, <2>1, <2>3, <2>4
<1> QED
  BY <1>3, <1>4 DEF Told

\* The end of the stage stays what it is, and no other is told.
LEMMA StageStays ==
    ASSUME NEW h \in Seq(Event), NEW ev \in Seq(Event), NEW rs, NEW rt, NEW b, NEW c,
           StageTells(h, rs, b), EndsOf(ev, "all") = {},
           EndsOf(h, "all") # {} => /\ rt = rs /\ c.planners = b.planners
                                    /\ c.stage \in Finished \cup {"cancelled"}
    PROVE  StageTells(h \o ev, rt, c)
<1>1. EndsOf(h \o ev, "all") = EndsOf(h, "all")
  <2>1. EndsOf(h \o ev, "all") = EndsOf(h, "all") \cup {Len(h) + j : j \in EndsOf(ev, "all")}
    BY AppendedEnds
  <2> QED
    BY <2>1
<1>2. \A i \in EndsOf(h, "all") : (h \o ev)[i] = h[i]
  BY Appended DEF EndsOf
<1>3. \A s : EndsOf(h, s) \subseteq EndsOf(h \o ev, s)
  BY AppendedEnds
<1> QED
  BY <1>1, <1>2, <1>3 DEF StageTells

\* The stage ends with the last of the events, once all sources have ended.
LEMMA StageCloses ==
    ASSUME NEW h \in Seq(Event), NEW ev \in Seq(Event), NEW rt, NEW c,
           SourcesTell(h \o ev, rt), EndsOf(h, "all") = {}, EndsOf(ev, "all") = {Len(ev)},
           ev[Len(ev)].count = Total(rt), c.stage \in Finished, c.planners \subseteq Sources,
           \A s \in Sources : rt[s].stage \in Finished \cup {"absent"},
           \A s \in c.planners : rt[s].stage \in Finished
    PROVE  StageTells(h \o ev, rt, c)
<1>1. EndsOf(h \o ev, "all") = {Len(h) + Len(ev)}
  BY AppendedEnds
<1>2. Len(ev) \in DOMAIN ev
  BY DEF EndsOf
<1>3. (h \o ev)[Len(h) + Len(ev)] = ev[Len(ev)]
  BY <1>2, Appended
<1>4. ASSUME NEW s \in c.planners
      PROVE  \E k \in EndsOf(h \o ev, s) : k < Len(h) + Len(ev)
  <2>1. PICK k \in EndsOf(h \o ev, s) : TRUE
    BY DEF SourcesTell
  <2>2. k \in DOMAIN (h \o ev) /\ (h \o ev)[k].planner = s /\ s # "all"
    BY DEF EndsOf, Sources
  <2>3. (h \o ev)[Len(h) + Len(ev)].planner = "all"
    BY <1>1 DEF EndsOf
  <2>4. k \in 1..(Len(h) + Len(ev)) /\ k # Len(h) + Len(ev)
    BY <2>2, <2>3, Appended
  <2> QED
    BY <2>4
<1> QED
  BY <1>1, <1>3, <1>4 DEF StageTells

LEMMA LastGrows ==
    ASSUME NEW h \in Seq(Event), NEW ev \in Seq(Event), NEW stage, NEW stage2, NEW st, NEW st2,
           LastTells(h, stage, st), st = "cancelled" => st2 = "cancelled", stage2 # "absent",
           AllAccepted(ev),
           \/ AllOf(ev) = {} /\ stage2 = stage
           \/ /\ \E e : OneOfAll(ev, e) /\ e.stage = stage2
              /\ stage2 = "queued" => h = <<>> /\ Len(ev) = 1
              /\ stage2 = "cancelled" => st2 = "cancelled"
    PROVE  LastTells(h \o ev, stage2, st2)
<1>1. AllOf(h \o ev) = AllOf(h) \cup {Len(h) + j : j \in AllOf(ev)}
  BY AppendedEnds
<1>2. \A i \in DOMAIN h : i \in 1..Len(h) /\ (h \o ev)[i] = h[i]
  BY Appended
<1>3. \A j \in DOMAIN ev : j \in 1..Len(ev) /\ (h \o ev)[Len(h) + j] = ev[j]
  BY Appended
<1>4. \A i \in DOMAIN (h \o ev) : Accepted((h \o ev)[i])
  BY <1>2, <1>3, Appended DEF LastTells, AllAccepted
<1>5. CASE AllOf(ev) = {} /\ stage2 = stage
  <2>1. AllOf(h \o ev) = AllOf(h)
    BY <1>1, <1>5
  <2> QED
    BY <1>2, <1>4, <1>5, <2>1 DEF LastTells, AllOf
<1>6. CASE /\ \E e : OneOfAll(ev, e) /\ e.stage = stage2
           /\ stage2 = "queued" => h = <<>> /\ Len(ev) = 1
           /\ stage2 = "cancelled" => st2 = "cancelled"
  <2>1. PICK m \in DOMAIN ev : /\ AllOf(ev) = {m} /\ ev[m].stage = stage2
                               /\ stage2 = "queued" => h = <<>> /\ m = 1
    <3>1. PICK e : OneOfAll(ev, e) /\ e.stage = stage2
      BY <1>6
    <3>2. PICK m \in DOMAIN ev : AllOf(ev) = {m} /\ ev[m] = e
      BY <3>1 DEF OneOfAll
    <3>3. m \in 1..Len(ev)
      OBVIOUS
    <3>4. Len(ev) = 1 => m = 1
      BY <3>3
    <3> QED
      BY <1>6, <3>1, <3>2, <3>4
  <2>2. AllOf(h \o ev) = AllOf(h) \cup {Len(h) + m}
    BY <1>1, <2>1
  <2>3. Len(h) \in Nat /\ m \in 1..Len(ev) /\ (h \o ev)[Len(h) + m] = ev[m]
    BY <1>3
  <2>4. \A i \in AllOf(h) : i \in DOMAIN h /\ i <= Len(h) + m
    BY <1>2, <2>3 DEF AllOf
  <2>5. \E i \in AllOf(h \o ev) : /\ (h \o ev)[i].stage = stage2
                                  /\ \A j \in AllOf(h \o ev) : j <= i
    BY <2>1, <2>2, <2>3, <2>4
  <2>6. \A i \in AllOf(h \o ev) : /\ (h \o ev)[i].stage = "queued" => i = 1
                                  /\ (h \o ev)[i].stage = "cancelled" => st2 = "cancelled"
    <3> TAKE i \in AllOf(h \o ev)
    <3>1. CASE i \in AllOf(h)
      BY <1>2, <2>4, <3>1 DEF LastTells
    <3>2. CASE i = Len(h) + m
      BY <1>6, <2>1, <2>3, <3>2
    <3> QED
      BY <2>2, <3>1, <3>2
  <2> QED
    BY <1>4, <2>5, <2>6 DEF LastTells
<1> QED
  BY <1>5, <1>6

------------------------------------------------------------------------------
\* Every event keeps to the contract, because the rows it is written from do.
LEMMA SourceAccepted ==
    ASSUME NEW s \in Sources, NEW r \in Run, RunTells(r), r.stage # "absent"
    PROVE  Accepted(SourceEvent(s, r))
<1>1. /\ r.count \in 0..50 /\ r.attempt \in 0..MaxAttempts /\ r.stage # "queued"
      /\ r.finished \in BOOLEAN /\ r.incomplete \in BOOLEAN
      /\ r.stage \in {"building", "cancelled", "awaiting_schedules", "no_routes", "failed"}
  BY DEF Run, Stages, Finished
<1>2. r.attempt <= 100 /\ r.count <= 100 /\ r.count <= 50
  BY <1>1, AttemptsAssumption
<1>3. s # "all"
  BY DEF Sources
<1>4. /\ r.outcome # "" => r.finished /\ r.incomplete
      /\ r.stage = "building" => r.attempt >= 1 /\ ~r.finished /\ r.count = 0
      /\ r.stage \in Finished => r.attempt >= 1 /\ r.finished
      /\ r.stage = "awaiting_schedules" => r.count > 0
      /\ r.stage \in {"no_routes", "failed"} => r.count = 0
  BY DEF RunTells, Finished
<1> QED
  BY <1>1, <1>2, <1>3, <1>4 DEF Accepted, SourceEvent

LEMMA AggregateAccepted ==
    ASSUME NEW b \in Building, BuildingTells(b), NEW n \in 0..100, NEW x,
           b.stage \in {"awaiting_schedules"} => n > 0,
           b.stage # "awaiting_schedules" => n = 0
    PROVE  Accepted(AggregateEvent(b, n, x))
<1>1. b.attempt \in 0..MaxAttempts /\ b.finished \in BOOLEAN /\ b.started \in BOOLEAN
  BY DEF Building
<1>2. b.attempt <= 100 /\ n <= 100
  BY <1>1, AttemptsAssumption
<1>3. /\ b.finished => b.started
      /\ b.stage = "queued" => b.attempt = 0 /\ ~b.started
      /\ b.stage = "building" => b.attempt >= 1 /\ b.started /\ ~b.finished
      /\ b.stage \in Finished => b.attempt >= 1 /\ b.started /\ b.finished
  <2>1. b.stage \in {"absent", "queued", "building", "cancelled"} \cup Finished
    BY DEF Building, Stages
  <2> QED
    BY <2>1 DEF BuildingTells
<1> QED
  BY <1>2, <1>3 DEF Accepted, AggregateEvent

LEMMA ClosingAccepted ==
    ASSUME NEW b \in Building, NEW rs \in [Sources -> Run], BuildingTells(Closed(b, rs))
    PROVE  Accepted(ClosingEvent(Closed(b, rs), rs))
<1>1. Closed(b, rs) \in Building /\ Closed(b, rs).stage = AggregateStage(rs)
  BY ClosedType
<1>2. Total(rs) \in 0..100
  BY TotalType
<1>3. /\ AggregateStage(rs) \in {"awaiting_schedules"} => Total(rs) > 0
      /\ AggregateStage(rs) # "awaiting_schedules" => Total(rs) = 0
  <2>1. Total(rs) > 0 \/ Total(rs) = 0
    BY <1>2
  <2> QED
    BY <2>1 DEF AggregateStage
<1> QED
  BY <1>1, <1>2, <1>3, AggregateAccepted DEF ClosingEvent

\* One event for each source, whatever the order: its end, if its run has ended.
LEMMA SourceEventsTell ==
    ASSUME NEW S \in SUBSET Sources, NEW order \in SetToSeqs(S), NEW rs \in [Sources -> Run],
           \A s \in S : rs[s].stage # "absent" /\ RunTells(rs[s]),
           NEW ev, ev = SourceEvents(order, rs)
    PROVE  /\ ev \in Seq(Event)
           /\ OnlySources(ev)
           /\ EndsAre(ev, S, rs)
<1>1. IsFiniteSet(S)
  <2>1. IsFiniteSet({"graph"})
    BY FS_Singleton
  <2>2. IsFiniteSet({"graph"} \cup {"gemini"})
    BY <2>1, FS_AddElement
  <2>3. S \subseteq {"graph"} \cup {"gemini"}
    BY DEF Sources
  <2> QED
    BY <2>2, <2>3, FS_Subset
<1> DEFINE D == 1..Cardinality(S)
<1>2. Cardinality(S) \in Nat
  BY <1>1, FS_CardinalityType
<1>3. order \in [D -> S] /\ \A i, j \in D : i # j => order[i] # order[j]
  BY DEF SetToSeqs
<1>4. \A s \in S : \E j \in D : order[j] = s
  <2>1. order \in Injection(D, S)
    BY <1>3 DEF Injection, IsInjective
  <2>2. IsFiniteSet(D) /\ Cardinality(D) = Cardinality(S)
    BY <1>2, FS_Interval
  <2>3. order \in Surjection(D, S)
    BY <1>1, <2>1, <2>2, FS_Injection
  <2> QED
    BY <2>3 DEF Surjection
<1>5. ev \in Seq(Event)
  BY SourceEventsType
<1>6. DOMAIN ev = D /\ \A i \in D : ev[i] = SourceEvent(order[i], rs[order[i]])
  BY <1>3 DEF SourceEvents
<1>7. \A i \in D : /\ order[i] \in S /\ order[i] \in Sources /\ ev[i].planner = order[i]
                   /\ ev[i].stage = rs[order[i]].stage /\ ev[i].count = rs[order[i]].count
  BY <1>3, <1>6 DEF SourceEvent
<1>8. \A i \in D : Accepted(ev[i])
  BY <1>6, <1>7, SourceAccepted
<1> HIDE DEF D
<1>9. ASSUME NEW s \in Sources
      PROVE  IF s \in S /\ rs[s].stage \in Finished
             THEN \E j \in DOMAIN ev : EndsOf(ev, s) = {j} /\ ev[j].count = rs[s].count
             ELSE EndsOf(ev, s) = {}
  <2>1. CASE s \in S /\ rs[s].stage \in Finished
    <3>1. PICK j \in D : order[j] = s
      BY <1>4, <2>1
    <3>2. EndsOf(ev, s) = {j}
      BY <1>3, <1>6, <1>7, <2>1, <3>1 DEF EndsOf
    <3> QED
      BY <1>6, <1>7, <2>1, <3>1, <3>2
  <2>2. CASE ~(s \in S /\ rs[s].stage \in Finished)
    <3>1. EndsOf(ev, s) = {}
      BY <1>6, <1>7, <2>2 DEF EndsOf
    <3> QED
      BY <2>2, <3>1
  <2> QED
    BY <2>1, <2>2
<1>10. OnlySources(ev)
  BY <1>6, <1>7, <1>8 DEF OnlySources
<1>11. EndsAre(ev, S, rs)
  BY <1>9 DEF EndsAre
<1> QED
  BY <1>5, <1>10, <1>11

\* The events of sources with one of the whole stage before or after them.
Followed(src, e) == src \o <<e>>

Led(e, src) == <<e>> \o src

LEMMA WithAggregate ==
    ASSUME NEW src \in Seq(Event), NEW e \in Event, e.planner = "all", Accepted(e),
           OnlySources(src), NEW last, NEW first, last = Followed(src, e), first = Led(e, src)
    PROVE  /\ last \in Seq(Event) /\ AllAccepted(last) /\ OneOfAll(last, e)
           /\ last[Len(last)] = e
           /\ EndsOf(last, "all") = IF e.stage \in Finished THEN {Len(last)} ELSE {}
           /\ \A S, rs : EndsAre(src, S, rs) => EndsAre(last, S, rs)
           /\ first \in Seq(Event) /\ AllAccepted(first) /\ OneOfAll(first, e)
           /\ EndsOf(first, "all") = IF e.stage \in Finished THEN {1} ELSE {}
           /\ \A S, rs : EndsAre(src, S, rs) /\ (\A s \in S : rs[s].stage \notin Finished)
                  => EndsAre(first, S, rs)
<1> DEFINE one == <<e>>
<1>1. one \in Seq(Event) /\ Len(one) = 1 /\ DOMAIN one = {1} /\ one[1] = e
  OBVIOUS
<1>2. "all" \notin Sources /\ \A i \in DOMAIN src : src[i].planner \in Sources /\ Accepted(src[i])
  BY DEF Sources, OnlySources
<1>3. AllOf(one) = {1} /\ \A p : EndsOf(one, p) =
          IF p = "all" /\ e.stage \in Finished THEN {1} ELSE {}
  BY <1>1 DEF AllOf, EndsOf
<1>4. AllOf(src) = {} /\ EndsOf(src, "all") = {}
  BY <1>2 DEF AllOf, EndsOf
<1> HIDE DEF one
<1>5. /\ AllOf(src \o one) = {Len(src) + 1}
      /\ \A p : EndsOf(src \o one, p) = EndsOf(src, p) \cup {Len(src) + j : j \in EndsOf(one, p)}
  <2>1. AllOf(src \o one) = AllOf(src) \cup {Len(src) + j : j \in AllOf(one)}
    BY <1>1, AppendedEnds
  <2>2. \A p : EndsOf(src \o one, p) = EndsOf(src, p) \cup {Len(src) + j : j \in EndsOf(one, p)}
    BY <1>1, AppendedEnds
  <2> QED
    BY <1>3, <1>4, <2>1, <2>2
<1>6. /\ AllOf(one \o src) = {1}
      /\ \A p : EndsOf(one \o src, p) = EndsOf(one, p) \cup {Len(one) + j : j \in EndsOf(src, p)}
  <2>1. AllOf(one \o src) = AllOf(one) \cup {Len(one) + j : j \in AllOf(src)}
    BY <1>1, AppendedEnds
  <2>2. \A p : EndsOf(one \o src, p) = EndsOf(one, p) \cup {Len(one) + j : j \in EndsOf(src, p)}
    BY <1>1, AppendedEnds
  <2> QED
    BY <1>3, <1>4, <2>1, <2>2
<1>7. /\ EndsOf(src \o one, "all") = IF e.stage \in Finished THEN {Len(src) + 1} ELSE {}
      /\ EndsOf(one \o src, "all") = IF e.stage \in Finished THEN {1} ELSE {}
  <2>1. EndsOf(one, "all") = IF e.stage \in Finished THEN {1} ELSE {}
    BY <1>3
  <2>2. EndsOf(src \o one, "all") = {Len(src) + j : j \in EndsOf(one, "all")}
    BY <1>4, <1>5
  <2>3. EndsOf(one \o src, "all") = EndsOf(one, "all")
    BY <1>4, <1>6
  <2> QED
    BY <2>1, <2>2, <2>3
<1>8. ASSUME NEW s \in Sources
      PROVE  /\ EndsOf(src \o one, s) = EndsOf(src, s)
             /\ EndsOf(src, s) = {} => EndsOf(one \o src, s) = {}
  <2>1. EndsOf(one, s) = {}
    BY <1>2, <1>3
  <2> QED
    BY <1>5, <1>6, <2>1
<1>9. /\ src \o one \in Seq(Event) /\ one \o src \in Seq(Event)
      /\ \A j \in DOMAIN (src \o one) : Accepted((src \o one)[j])
      /\ \A j \in DOMAIN (one \o src) : Accepted((one \o src)[j])
      /\ \A j \in DOMAIN src : j \in DOMAIN (src \o one) /\ (src \o one)[j] = src[j]
      /\ (src \o one)[Len(src) + 1] = e /\ (one \o src)[1] = e
  <2>1. /\ src \o one \in Seq(Event) /\ one \o src \in Seq(Event)
        /\ \A j \in DOMAIN src : j \in DOMAIN (src \o one) /\ (src \o one)[j] = src[j]
        /\ (src \o one)[Len(src) + 1] = e /\ (one \o src)[1] = e
    BY <1>1, Appended
  <2>2. \A j \in DOMAIN (src \o one) : Accepted((src \o one)[j])
    <3> TAKE j \in DOMAIN (src \o one)
    <3>1. j \in DOMAIN src \/ \E k \in DOMAIN one : j = Len(src) + k
      BY <1>1, Appended
    <3> QED
      BY <1>1, <1>2, <2>1, <3>1
  <2>3. \A j \in DOMAIN (one \o src) : Accepted((one \o src)[j])
    <3> TAKE j \in DOMAIN (one \o src)
    <3>1. \/ j = 1
          \/ \E k \in DOMAIN src : j = Len(one) + k /\ (one \o src)[Len(one) + k] = src[k]
      BY <1>1, Appended
    <3> QED
      BY <1>2, <2>1, <3>1
  <2> QED
    BY <2>1, <2>2, <2>3
<1>10. Len(src \o one) = Len(src) + 1
  BY DEF one
<1>11. last = src \o one /\ first = one \o src
  BY DEF one, Followed, Led
<1>12. AllAccepted(last) /\ AllAccepted(first)
  BY <1>9, <1>11 DEF AllAccepted
<1>13. OneOfAll(last, e) /\ OneOfAll(first, e)
  <2>1. Len(src) + 1 \in DOMAIN (src \o one) /\ 1 \in DOMAIN (one \o src)
    BY <1>5, <1>6 DEF AllOf
  <2> QED
    BY <1>5, <1>6, <1>9, <1>11, <2>1 DEF OneOfAll
<1>14. ASSUME NEW S, NEW rs, EndsAre(src, S, rs)
       PROVE  EndsAre(last, S, rs)
  BY <1>8, <1>9, <1>11, <1>14 DEF EndsAre
<1>15. ASSUME NEW S, NEW rs, EndsAre(src, S, rs), \A s \in S : rs[s].stage \notin Finished
       PROVE  EndsAre(first, S, rs)
  BY <1>8, <1>11, <1>15 DEF EndsAre
<1>16. /\ last \in Seq(Event) /\ first \in Seq(Event) /\ last[Len(last)] = e
       /\ EndsOf(last, "all") = IF e.stage \in Finished THEN {Len(last)} ELSE {}
       /\ EndsOf(first, "all") = IF e.stage \in Finished THEN {1} ELSE {}
  BY <1>7, <1>9, <1>10, <1>11
<1> QED
  BY <1>12, <1>13, <1>14, <1>15, <1>16

------------------------------------------------------------------------------
(***************************************************************************)
(* Each step keeps the history true, shape by shape.                       *)
(***************************************************************************)
\* The rows of a request before and after a step, and its history before it.
LEMMA HistoryTypes ==
    ASSUME Typed, NEW q \in Requests, RowsTell(q), HistoryTells(q)
    PROVE  /\ building[q] \in Building /\ runs[q] \in [Sources -> Run]
           /\ progress[q] \in Seq(Event) /\ building[q].planners \in SUBSET Sources
           /\ \A s \in Sources : RunTells(runs[q][s])
           /\ building[q].stage \notin Finished \cup {"cancelled"} =>
                  EndsOf(progress[q], "all") = {}
           /\ building[q].stage = "absent" => progress[q] = <<>>
           /\ BuildingTells(building[q])
<1>1. /\ building[q] \in Building /\ runs[q] \in [Sources -> Run]
      /\ progress[q] \in Seq(Event)
  BY DEF Typed, TypeOK
<1> QED
  BY <1>1 DEF Building, RowsTell, HistoryTells, StageTells, LastTells

LEMMA OpenAccepted ==
    ASSUME NEW b \in Building, BuildingTells(b), b.stage \in {"queued", "building", "cancelled"},
           NEW x \in BOOLEAN, NEW e, e = AggregateEvent(b, 0, x)
    PROVE  e \in Event /\ e.stage = b.stage /\ e.planner = "all" /\ Accepted(e)
<1>1. 0 \in 0..100 /\ b.stage # "awaiting_schedules" /\ b.stage # "absent"
  OBVIOUS
<1>2. e \in Event
  BY <1>1, OpenEventType
<1>3. Accepted(e)
  BY <1>1, AggregateAccepted
<1> QED
  BY <1>2, <1>3 DEF AggregateEvent

LEMMA SourcesThenAggregate ==
    ASSUME NEW S \in SUBSET Sources, NEW order \in SetToSeqs(S), NEW rs \in [Sources -> Run],
           \A s \in S : rs[s].stage # "absent" /\ RunTells(rs[s]),
           NEW e \in Event, e.planner = "all", Accepted(e),
           NEW ev, ev = Followed(SourceEvents(order, rs), e)
    PROVE  /\ ev \in Seq(Event) /\ AllAccepted(ev) /\ OneOfAll(ev, e)
           /\ EndsOf(ev, "all") = IF e.stage \in Finished THEN {Len(ev)} ELSE {}
           /\ ev[Len(ev)] = e
           /\ EndsAre(ev, S, rs)
<1>1. PICK src, first : src = SourceEvents(order, rs) /\ first = Led(e, src)
  OBVIOUS
<1>2. src \in Seq(Event) /\ OnlySources(src) /\ EndsAre(src, S, rs)
  BY <1>1, SourceEventsTell
<1>3. ev = Followed(src, e)
  BY <1>1
<1> QED
  BY <1>1, <1>2, <1>3, WithAggregate

LEMMA AggregateThenSources ==
    ASSUME NEW S \in SUBSET Sources, NEW order \in SetToSeqs(S), NEW rs \in [Sources -> Run],
           \A s \in S : rs[s].stage = "building" /\ RunTells(rs[s]),
           NEW e \in Event, e.planner = "all", Accepted(e), e.stage \notin Finished,
           NEW ev, ev = Led(e, SourceEvents(order, rs))
    PROVE  /\ ev \in Seq(Event) /\ AllAccepted(ev) /\ OneOfAll(ev, e)
           /\ EndsOf(ev, "all") = {}
           /\ EndsAre(ev, S, rs)
<1>1. PICK src, last : src = SourceEvents(order, rs) /\ last = Followed(src, e)
  OBVIOUS
<1>2. \A s \in S : rs[s].stage # "absent" /\ RunTells(rs[s]) /\ rs[s].stage \notin Finished
  BY DEF Finished
<1>3. src \in Seq(Event) /\ OnlySources(src) /\ EndsAre(src, S, rs)
  BY <1>1, <1>2, SourceEventsTell
<1>4. ev = Led(e, src)
  BY <1>1
<1> QED
  BY <1>1, <1>2, <1>3, <1>4, WithAggregate

LEMMA QuietHistory ==
    ASSUME Typed, NEW q \in Requests, RowsTell(q), HistoryTells(q), Quiet(q)
    PROVE  HistoryTells(q)'
<1>1. /\ building'[q].stage = building[q].stage /\ building'[q].planners = building[q].planners
      /\ runs'[q] = runs[q] /\ progress'[q] = progress[q]
      /\ status[q] = "cancelled" => status'[q] = "cancelled"
  BY HistoryTypes DEF Quiet, Building
<1>2. SourcesTell(progress[q], runs[q])'
  BY <1>1, Zenon DEF HistoryTells, SourcesTell
<1>3. StageTells(progress[q], runs[q], building[q])'
  BY <1>1, Zenon DEF HistoryTells, StageTells
<1>4. LastTells(progress[q], building[q].stage, status[q])'
  BY <1>1, Zenon DEF HistoryTells, LastTells
<1> QED
  BY <1>2, <1>3, <1>4 DEF HistoryTells

LEMMA QueuesHistory ==
    ASSUME Typed, Typed', NEW q \in Requests, RowsTell(q), RowsTell(q)', HistoryTells(q), Queues(q)
    PROVE  HistoryTells(q)'
<1> DEFINE h == progress[q]
           e == AggregateEvent(building'[q], 0, FALSE)
           ev == <<e>>
<1>1. /\ building[q] \in Building /\ building'[q] \in Building /\ BuildingTells(building'[q])
      /\ h \in Seq(Event) /\ h = <<>> /\ EndsOf(h, "all") = {}
  BY HistoryTypes DEF RowsTell, Queues, Typed, TypeOK, Finished
<1>2. /\ building'[q].stage = "queued" /\ runs'[q] = runs[q] /\ progress'[q] = h \o ev
      /\ status[q] = "absent"
  BY <1>1 DEF Queues, Building
<1>3. e \in Event /\ e.stage = "queued" /\ e.planner = "all" /\ Accepted(e)
  BY <1>1, <1>2, OpenAccepted
<1> HIDE DEF h, e
<1>4. ev \in Seq(Event) /\ DOMAIN ev = {1} /\ ev[1] = e /\ Len(ev) = 1
  BY <1>3
<1>5. OneOfAll(ev, e) /\ AllAccepted(ev) /\ \A p : EndsOf(ev, p) = {}
  BY <1>3, <1>4 DEF AllOf, EndsOf, Finished, OneOfAll, AllAccepted
<1> HIDE DEF ev
<1>6. SourcesTell(h \o ev, runs[q])
  <2>1. Told(ev, runs[q], runs[q])
    BY <1>5 DEF Told
  <2> QED
    BY <1>1, <1>4, <2>1, SourcesGrow DEF HistoryTells, h
<1>7. StageTells(h \o ev, runs[q], building'[q])
  BY <1>1, <1>4, <1>5, StageStays DEF HistoryTells, h
<1>8. LastTells(h \o ev, "queued", status'[q])
  <2>1. LastTells(h, building[q].stage, status[q])
    BY DEF HistoryTells, h
  <2> QED
    BY <1>1, <1>2, <1>3, <1>4, <1>5, <2>1, LastGrows
<1> QED
  BY <1>2, <1>6, <1>7, <1>8 DEF HistoryTells

LEMMA CancelsHistory ==
    ASSUME Typed, Typed', NEW q \in Requests, RowsTell(q), RowsTell(q)', HistoryTells(q), Cancels(q)
    PROVE  HistoryTells(q)'
<1> DEFINE h == progress[q]
           rs == runs[q]
           rt == runs'[q]
           e == AggregateEvent(building'[q], 0, TRUE)
<1>1. PICK order \in SetToSeqs(Open(rs)) : progress'[q] = h \o (SourceEvents(order, rt) \o <<e>>)
  BY DEF Cancels
<1> DEFINE ev == SourceEvents(order, rt) \o <<e>>
<1>2. /\ building[q] \in Building /\ building'[q] \in Building /\ BuildingTells(building'[q])
      /\ h \in Seq(Event) /\ rs \in [Sources -> Run] /\ rt \in [Sources -> Run]
      /\ \A s \in Sources : RunTells(rt[s])
      /\ SourcesTell(h, rs) /\ StageTells(h, rs, building[q])
      /\ LastTells(h, building[q].stage, status[q])
  BY HistoryTypes DEF RowsTell, Typed, TypeOK, HistoryTells
<1>3. /\ building'[q].stage = "cancelled" /\ building'[q].planners = building[q].planners
      /\ rt = CancelledRuns(rs) /\ status[q] # "cancelled" /\ status'[q] = "cancelled"
  BY <1>2 DEF Cancels, CancelledBuilding, Building
<1>4. e \in Event /\ e.stage = "cancelled" /\ e.planner = "all" /\ Accepted(e)
  BY <1>2, <1>3, OpenAccepted
<1>5. \A s \in Sources : /\ s \in Open(rs) => /\ rt[s].stage = "cancelled"
                                              /\ rs[s].stage = "building"
                         /\ s \notin Open(rs) => rt[s] = rs[s]
  <2> TAKE s \in Sources
  <2>1. CASE s \in Open(rs)
    BY <1>2, <1>3, <2>1, RunStages DEF Open
  <2>2. CASE s \notin Open(rs)
    BY <1>3, <2>2 DEF CancelledRuns
  <2> QED
    BY <2>1, <2>2
<1>6. Open(rs) = {} => rt = rs
  BY <1>2, <1>5
<1> HIDE DEF h, rs, rt, e
<1>7. Open(rs) \in SUBSET Sources /\ \A s \in Open(rs) : rt[s].stage = "cancelled"
  BY <1>5 DEF Open
<1>8. /\ ev \in Seq(Event) /\ AllAccepted(ev) /\ OneOfAll(ev, e)
      /\ EndsOf(ev, "all") = {} /\ EndsAre(ev, Open(rs), rt)
  <2>1. \A s \in Open(rs) : rt[s].stage # "absent" /\ RunTells(rt[s])
    BY <1>2, <1>7
  <2>2. ev = Followed(SourceEvents(order, rt), e)
    BY DEF Followed
  <2> HIDE DEF ev
  <2>3. /\ ev \in Seq(Event) /\ AllAccepted(ev) /\ OneOfAll(ev, e)
        /\ EndsOf(ev, "all") = IF e.stage \in Finished THEN {Len(ev)} ELSE {}
        /\ EndsAre(ev, Open(rs), rt)
    <3>1. order \in SetToSeqs(Open(rs)) /\ Open(rs) \in SUBSET Sources /\ rt \in [Sources -> Run]
      BY <1>2, <1>7
    <3>2. e \in Event /\ e.planner = "all" /\ Accepted(e)
      BY <1>4
    <3> QED
      BY <2>1, <2>2, <3>1, <3>2, SourcesThenAggregate
  <2> QED
    BY <1>4, <2>3 DEF Finished
<1> HIDE DEF ev
<1>9. SourcesTell(h \o ev, rt)
  <2>1. \A s \in Sources :
            /\ EndsOf(ev, s) = {} /\ (rt[s].stage \in Finished <=> rs[s].stage \in Finished)
            /\ rs[s].stage \in Finished => rt[s].count = rs[s].count
    BY <1>5, <1>8 DEF Finished, EndsAre
  <2>2. Told(ev, rs, rt)
    BY <2>1 DEF Told
  <2> QED
    BY <1>2, <1>8, <2>2, SourcesGrow
<1>10. StageTells(h \o ev, rt, building'[q])
  <2>1. EndsOf(h, "all") # {} => Open(rs) = {}
    BY <1>2 DEF StageTells, Open, Finished
  <2> QED
    BY <1>2, <1>3, <1>6, <1>8, <2>1, StageStays
<1>11. LastTells(h \o ev, "cancelled", "cancelled")
  <2>1. \E f : OneOfAll(ev, f) /\ f.stage = "cancelled"
    BY <1>4, <1>8
  <2> QED
    BY <1>2, <1>8, <2>1, LastGrows
<1> QED
  BY <1>1, <1>3, <1>9, <1>10, <1>11 DEF HistoryTells, h, rt, ev

LEMMA StartsHistory ==
    ASSUME Typed, Typed', NEW q \in Requests, RowsTell(q), RowsTell(q)', HistoryTells(q),
           JobConsistent(q), Starts(q)
    PROVE  HistoryTells(q)'
<1> DEFINE h == progress[q]
           rs == runs[q]
           rt == runs'[q]
           n == building[q].attempt + 1
           e == AggregateEvent(building'[q], 0, TRUE)
<1>0. PICK w \in Workers, saved \in (SUBSET Sources) \ {{}}, started \in SUBSET Sources :
            /\ status'[q] = status[q]
            /\ building[q].stage \in {"queued", "building"}
            /\ started = {s \in saved : runs[q][s].stage \in {"absent", "building"}}
            /\ building'[q] =
                   [stage |-> "building", planners |-> saved, attempt |-> building[q].attempt + 1,
                    holder |-> w, lease |-> "live", started |-> TRUE, finished |-> FALSE]
            /\ runs'[q] = StartedRuns(runs[q], started, building[q].attempt + 1)
            /\ \E order \in SetToSeqs(started) :
                  progress'[q] = progress[q] \o (<<AggregateEvent(building'[q], 0, TRUE)>>
                                     \o SourceEvents(order, runs'[q]))
  BY DEF Starts
<1>1. /\ \E order \in SetToSeqs(started) :
            progress'[q] = h \o Led(e, SourceEvents(order, rt))
      /\ started = {s \in saved : rs[s].stage \in {"absent", "building"}}
      /\ building[q].stage \in {"queued", "building"}
      /\ building'[q].stage = "building"
      /\ status'[q] = status[q] /\ rt = StartedRuns(rs, started, n)
  <2>1. \E order \in SetToSeqs(started) : progress'[q] = h \o Led(e, SourceEvents(order, rt))
    BY <1>0, Zenon DEF Led
  <2>2. building'[q].stage = "building"
    BY <1>0
  <2> QED
    BY <1>0, <2>1, <2>2
<1>2. PICK order \in SetToSeqs(started) : progress'[q] = h \o Led(e, SourceEvents(order, rt))
  BY <1>1
<1> DEFINE ev == Led(e, SourceEvents(order, rt))
<1>3. /\ building[q] \in Building /\ building'[q] \in Building /\ BuildingTells(building'[q])
      /\ h \in Seq(Event) /\ rs \in [Sources -> Run] /\ rt \in [Sources -> Run]
      /\ \A s \in Sources : RunTells(rt[s])
      /\ SourcesTell(h, rs) /\ StageTells(h, rs, building[q])
      /\ LastTells(h, building[q].stage, status[q])
  BY HistoryTypes DEF RowsTell, Typed, TypeOK, HistoryTells
<1>4. EndsOf(h, "all") = {}
  BY <1>1, <1>3 DEF StageTells, Finished
<1>5. e \in Event /\ e.stage = "building" /\ e.planner = "all" /\ Accepted(e)
  BY <1>1, <1>3, OpenAccepted
<1>6. \A s \in Sources : /\ s \in started => /\ rt[s].stage = "building"
                                             /\ rs[s].stage \in {"absent", "building"}
                         /\ s \notin started => rt[s] = rs[s]
  <2> TAKE s \in Sources
  <2>1. CASE s \in started
    <3>1. [rs[s] EXCEPT !.stage = "building", !.attempt = n].stage = "building"
      BY <1>3 DEF Run
    <3> QED
      BY <1>1, <2>1, <3>1 DEF StartedRuns
  <2>2. CASE s \notin started
    BY <1>1, <2>2 DEF StartedRuns
  <2> QED
    BY <2>1, <2>2
<1> HIDE DEF h, rs, rt, e, n
<1>7. /\ ev \in Seq(Event) /\ AllAccepted(ev) /\ OneOfAll(ev, e)
      /\ EndsOf(ev, "all") = {} /\ EndsAre(ev, started, rt)
  <2>1. \A s \in started : rt[s].stage = "building" /\ RunTells(rt[s])
    BY <1>3, <1>6
  <2>2. ev = Led(e, SourceEvents(order, rt))
    OBVIOUS
  <2>3. e \in Event /\ e.planner = "all" /\ Accepted(e) /\ e.stage \notin Finished
    BY <1>5 DEF Finished
  <2> HIDE DEF ev
  <2> QED
    BY <1>3, <2>1, <2>2, <2>3, AggregateThenSources
<1> HIDE DEF ev
<1>8. SourcesTell(h \o ev, rt)
  <2>1. \A s \in Sources :
            /\ EndsOf(ev, s) = {} /\ (rt[s].stage \in Finished <=> rs[s].stage \in Finished)
            /\ rs[s].stage \in Finished => rt[s].count = rs[s].count
    BY <1>6, <1>7 DEF Finished, EndsAre
  <2>2. Told(ev, rs, rt)
    BY <2>1 DEF Told
  <2> QED
    BY <1>3, <1>7, <2>2, SourcesGrow
<1>9. StageTells(h \o ev, rt, building'[q])
  BY <1>3, <1>4, <1>7, StageStays
<1>10. LastTells(h \o ev, "building", status'[q])
  <2>1. \E f : OneOfAll(ev, f) /\ f.stage = "building"
    BY <1>5, <1>7
  <2> QED
    BY <1>1, <1>3, <1>7, <2>1, LastGrows
<1> QED
  BY <1>1, <1>2, <1>8, <1>9, <1>10 DEF HistoryTells, h, rt, ev

\* The runs of a job that closes: each has ended, or its source was not saved.
LEMMA ClosedRuns ==
    ASSUME NEW rs \in [Sources -> Run], NEW saved, Open(rs) = {},
           \A s \in Sources : /\ rs[s].stage # "cancelled"
                              /\ rs[s].stage # "absent" <=> s \in saved
    PROVE  \A s \in Sources : /\ rs[s].stage \in Finished \cup {"absent"}
                              /\ s \in saved => rs[s].stage \in Finished
BY DEF Open, Run, Stages

LEMMA ExhaustsHistory ==
    ASSUME Typed, Typed', NEW q \in Requests, RowsTell(q), RowsTell(q)', HistoryTells(q),
           JobConsistent(q), Exhausts(q)
    PROVE  HistoryTells(q)'
<1> DEFINE h == progress[q]
           rs == runs[q]
           rt == runs'[q]
           saved == building[q].planners
           e == ClosingEvent(building'[q], rt)
<1>1. PICK order \in SetToSeqs(Open(rs)) :
            progress'[q] = h \o Followed(SourceEvents(order, rt), e)
  BY DEF Exhausts, Followed
<1> DEFINE ev == Followed(SourceEvents(order, rt), e)
<1>2. /\ building[q] \in Building /\ building'[q] \in Building /\ BuildingTells(building'[q])
      /\ h \in Seq(Event) /\ rs \in [Sources -> Run] /\ rt \in [Sources -> Run]
      /\ \A s \in Sources : RunTells(rt[s])
      /\ SourcesTell(h, rs) /\ StageTells(h, rs, building[q])
      /\ LastTells(h, building[q].stage, status[q]) /\ saved \in SUBSET Sources
  BY HistoryTypes DEF RowsTell, Typed, TypeOK, HistoryTells
<1>3. /\ building[q].stage = "building" /\ building'[q] = Closed(building[q], rt)
      /\ rt = ExhaustedRuns(rs) /\ status'[q] = status[q]
  BY DEF Exhausts
<1>4. \A s \in Sources : rs[s].stage # "cancelled" /\ (rs[s].stage # "absent" <=> s \in saved)
  BY <1>3, BuildingRuns
<1>5. /\ building'[q].stage = AggregateStage(rt) /\ building'[q].planners = saved
      /\ AggregateStage(rt) \in Finished
  BY <1>2, <1>3, ClosedType, AggregateStageType
<1>6. e \in Event /\ Accepted(e)
  BY <1>2, <1>3, ClosedType, ClosingAccepted
<1>7. e.stage = AggregateStage(rt) /\ e.planner = "all" /\ e.count = Total(rt)
  BY <1>5 DEF ClosingEvent, AggregateEvent
<1> HIDE DEF h, rs, rt, e, saved
<1>8. \A s \in Sources : /\ s \in Open(rs) => /\ rt[s].stage = "failed"
                                              /\ rs[s].stage = "building"
                         /\ s \notin Open(rs) => rt[s] = rs[s]
  <2> TAKE s \in Sources
  <2>1. CASE s \in Open(rs)
    BY <1>2, <1>3, <2>1, RunStages DEF Open
  <2>2. CASE s \notin Open(rs)
    BY <1>3, <2>2 DEF ExhaustedRuns
  <2> QED
    BY <2>1, <2>2
<1>9. /\ \A s \in Sources : /\ rt[s].stage \in Finished \cup {"absent"}
                            /\ s \in saved => rt[s].stage \in Finished
      /\ EndsOf(h, "all") = {}
  <2>1. Open(rt) = {}
    BY <1>8 DEF Open
  <2>2. \A s \in Sources : /\ rt[s].stage # "cancelled"
                           /\ rt[s].stage # "absent" <=> s \in saved
    <3> TAKE s \in Sources
    <3>1. CASE s \in Open(rs)
      BY <1>4, <1>8, <3>1
    <3>2. CASE s \notin Open(rs)
      BY <1>4, <1>8, <3>2
    <3> QED
      BY <3>1, <3>2
  <2>3. EndsOf(h, "all") = {}
    BY <1>2, <1>3 DEF StageTells, Finished
  <2> QED
    BY <1>2, <2>1, <2>2, <2>3, ClosedRuns
<1>10. /\ ev \in Seq(Event) /\ AllAccepted(ev) /\ OneOfAll(ev, e)
       /\ EndsOf(ev, "all") = {Len(ev)} /\ ev[Len(ev)] = e
       /\ EndsAre(ev, Open(rs), rt)
  <2>1. \A s \in Open(rs) : rt[s].stage # "absent" /\ RunTells(rt[s])
    BY <1>2, <1>8 DEF Open
  <2>2. ev = Followed(SourceEvents(order, rt), e)
    OBVIOUS
  <2>3. Open(rs) \in SUBSET Sources /\ order \in SetToSeqs(Open(rs))
    BY DEF Open
  <2> HIDE DEF ev
  <2>4. /\ ev \in Seq(Event) /\ AllAccepted(ev) /\ OneOfAll(ev, e)
        /\ EndsOf(ev, "all") = IF e.stage \in Finished THEN {Len(ev)} ELSE {}
        /\ ev[Len(ev)] = e
        /\ EndsAre(ev, Open(rs), rt)
    BY <1>2, <1>6, <1>7, <2>1, <2>2, <2>3, SourcesThenAggregate
  <2> QED
    BY <1>5, <1>7, <2>4
<1> HIDE DEF ev
<1>11. SourcesTell(h \o ev, rt)
  <2>1. Told(ev, rs, rt)
    BY <1>8, <1>10 DEF Told, EndsAre, Finished
  <2> QED
    BY <1>2, <1>10, <2>1, SourcesGrow
<1>12. StageTells(h \o ev, rt, building'[q])
  BY <1>2, <1>5, <1>7, <1>9, <1>10, <1>11, StageCloses
<1>13. LastTells(h \o ev, building'[q].stage, status'[q])
  <2>1. \E f : OneOfAll(ev, f) /\ f.stage = building'[q].stage
    BY <1>5, <1>7, <1>10
  <2>2. building'[q].stage \notin {"absent", "queued", "cancelled"}
    BY <1>5 DEF Finished
  <2> QED
    BY <1>2, <1>3, <1>10, <2>1, <2>2, LastGrows
<1> QED
  BY <1>1, <1>11, <1>12, <1>13 DEF HistoryTells, h, rt, ev

\* The event of one source that has just ended.
LEMMA OneSourceTells ==
    ASSUME NEW s \in Sources, NEW rs \in [Sources -> Run], RunTells(rs[s]),
           rs[s].stage \in Finished, NEW src, src = <<SourceEvent(s, rs[s])>>
    PROVE  /\ src \in Seq(Event) /\ OnlySources(src) /\ AllAccepted(src)
           /\ EndsAre(src, {s}, rs) /\ AllOf(src) = {} /\ EndsOf(src, "all") = {}
<1> DEFINE e == SourceEvent(s, rs[s])
<1>1. rs[s] \in Run /\ rs[s].stage # "absent"
  BY DEF Finished
<1>2. e \in Event /\ Accepted(e)
  BY <1>1, SourceEventType, SourceAccepted
<1>3. e.planner = s /\ e.stage = rs[s].stage /\ e.count = rs[s].count
  BY DEF SourceEvent
<1>4. src = <<e>>
  OBVIOUS
<1> HIDE DEF e
<1>5. src \in Seq(Event) /\ DOMAIN src = {1} /\ src[1] = e
  BY <1>2, <1>4
<1>6. "all" \notin Sources
  BY DEF Sources
<1>7. OnlySources(src) /\ AllAccepted(src)
  BY <1>2, <1>3, <1>5 DEF OnlySources, AllAccepted
<1>8. AllOf(src) = {} /\ EndsOf(src, "all") = {}
  BY <1>3, <1>5, <1>6 DEF AllOf, EndsOf
<1>9. \A t \in Sources : EndsOf(src, t) = IF t = s THEN {1} ELSE {}
  BY <1>3, <1>5 DEF EndsOf
<1>10. EndsAre(src, {s}, rs)
  BY <1>3, <1>5, <1>9 DEF EndsAre
<1> QED
  BY <1>5, <1>7, <1>8, <1>10

LEMMA ReportsHistory ==
    ASSUME Typed, Typed', NEW q \in Requests, RowsTell(q), RowsTell(q)', HistoryTells(q),
           JobConsistent(q), Reports(q)
    PROVE  HistoryTells(q)'
<1> DEFINE h == progress[q]
           rs == runs[q]
           rt == runs'[q]
           saved == building[q].planners
           e == ClosingEvent(building'[q], rt)
<1>1. PICK s \in Sources, r \in Results :
            /\ status[q] = "pending" /\ status'[q] = status[q]
            /\ building[q].stage = "building" /\ rs[s].stage = "building"
            /\ rt = [rs EXCEPT ![s] = FinishedRun(rs[s], r)]
            /\ \/ /\ Open(rt) # {} /\ building'[q] = building[q]
                  /\ progress'[q] = h \o <<SourceEvent(s, rt[s])>>
               \/ /\ Open(rt) = {} /\ building'[q] = Closed(building[q], rt)
                  /\ progress'[q] = h \o <<SourceEvent(s, rt[s]), e>>
  BY DEF Reports
<1> DEFINE src == <<SourceEvent(s, rt[s])>>
<1>2. /\ building[q] \in Building /\ building'[q] \in Building /\ BuildingTells(building'[q])
      /\ h \in Seq(Event) /\ rs \in [Sources -> Run] /\ rt \in [Sources -> Run]
      /\ \A t \in Sources : RunTells(rt[t])
      /\ SourcesTell(h, rs) /\ StageTells(h, rs, building[q])
      /\ LastTells(h, building[q].stage, status[q]) /\ saved \in SUBSET Sources
  BY HistoryTypes DEF RowsTell, Typed, TypeOK, HistoryTells
<1>3. \A t \in Sources : rs[t].stage # "cancelled" /\ (rs[t].stage # "absent" <=> t \in saved)
  BY <1>1, BuildingRuns
<1>4. /\ rt[s].stage \in Finished /\ \A t \in Sources : t # s => rt[t] = rs[t]
      /\ rs[s].stage \notin Finished /\ s \in saved
  <2>1. FinishedRun(rs[s], r).stage \in Finished
    BY <1>2, FinishedRunType
  <2> QED
    BY <1>1, <1>2, <1>3, <2>1 DEF Finished
<1>5. EndsOf(h, "all") = {}
  BY <1>1, <1>2 DEF StageTells, Finished
<1>6. \/ /\ Open(rt) # {} /\ building'[q] = building[q] /\ progress'[q] = h \o src
      \/ /\ Open(rt) = {} /\ building'[q] = Closed(building[q], rt)
         /\ progress'[q] = h \o Followed(src, e)
  <2>1. <<SourceEvent(s, rt[s]), e>> = Followed(src, e)
    BY DEF Followed
  <2> QED
    BY <1>1, <2>1
<1> HIDE DEF h, rs, rt, saved
<1>7. /\ src \in Seq(Event) /\ OnlySources(src) /\ AllAccepted(src)
      /\ EndsAre(src, {s}, rt) /\ AllOf(src) = {} /\ EndsOf(src, "all") = {}
  BY <1>2, <1>4, OneSourceTells
<1> HIDE DEF src
<1>8. ASSUME NEW ev, EndsAre(ev, {s}, rt)
      PROVE  Told(ev, rs, rt)
  BY <1>4, <1>8 DEF Told, EndsAre
<1>9. CASE Open(rt) # {} /\ building'[q] = building[q] /\ progress'[q] = h \o src
  <2>1. SourcesTell(h \o src, rt)
    BY <1>2, <1>7, <1>8, SourcesGrow
  <2>2. StageTells(h \o src, rt, building'[q])
    BY <1>2, <1>5, <1>7, StageStays
  <2>3. LastTells(h \o src, building'[q].stage, status'[q])
    BY <1>1, <1>2, <1>7, <1>9, LastGrows
  <2> QED
    BY <1>9, <2>1, <2>2, <2>3 DEF HistoryTells, rt
<1>10. CASE /\ Open(rt) = {} /\ building'[q] = Closed(building[q], rt)
            /\ progress'[q] = h \o Followed(src, e)
  <2>1. /\ building'[q].stage = AggregateStage(rt) /\ building'[q].planners = saved
        /\ AggregateStage(rt) \in Finished
    BY <1>2, <1>10, ClosedType, AggregateStageType DEF saved
  <2>2. e \in Event /\ Accepted(e)
    BY <1>2, <1>10, ClosedType, ClosingAccepted
  <2>3. e.stage = AggregateStage(rt) /\ e.planner = "all" /\ e.count = Total(rt)
    BY <2>1 DEF ClosingEvent, AggregateEvent
  <2>4. \A t \in Sources : /\ rt[t].stage \in Finished \cup {"absent"}
                           /\ t \in saved => rt[t].stage \in Finished
    <3>1. \A t \in Sources : /\ rt[t].stage # "cancelled"
                             /\ rt[t].stage # "absent" <=> t \in saved
      <4> TAKE t \in Sources
      <4>1. CASE t = s
        BY <1>4, <4>1 DEF Finished
      <4>2. CASE t # s
        BY <1>3, <1>4, <4>2
      <4> QED
        BY <4>1, <4>2
    <3> QED
      BY <1>2, <1>10, <3>1, ClosedRuns
  <2> HIDE DEF e
  <2> DEFINE ev == Followed(src, e)
  <2>5. PICK first : first = Led(e, src)
    OBVIOUS
  <2>6. ev = Followed(src, e)
    OBVIOUS
  <2> HIDE DEF ev
  <2>7. /\ ev \in Seq(Event) /\ AllAccepted(ev) /\ OneOfAll(ev, e)
        /\ EndsOf(ev, "all") = IF e.stage \in Finished THEN {Len(ev)} ELSE {}
        /\ ev[Len(ev)] = e /\ EndsAre(ev, {s}, rt)
    BY <1>7, <2>2, <2>3, <2>5, <2>6, WithAggregate
  <2>8. EndsOf(ev, "all") = {Len(ev)}
    BY <2>1, <2>3, <2>7
  <2>9. SourcesTell(h \o ev, rt)
    BY <1>2, <1>8, <2>7, SourcesGrow
  <2>10. StageTells(h \o ev, rt, building'[q])
    BY <1>2, <1>5, <2>1, <2>3, <2>4, <2>7, <2>8, <2>9, StageCloses
  <2>11. LastTells(h \o ev, building'[q].stage, status'[q])
    <3>1. \E f : OneOfAll(ev, f) /\ f.stage = building'[q].stage
      BY <2>1, <2>3, <2>7
    <3>2. building'[q].stage \notin {"absent", "queued", "cancelled"}
      BY <2>1 DEF Finished
    <3> QED
      BY <1>1, <1>2, <2>7, <3>1, <3>2, LastGrows
  <2> QED
    BY <1>10, <2>6, <2>9, <2>10, <2>11 DEF HistoryTells, rt
<1> QED
  BY <1>6, <1>9, <1>10

Histories == \A q \in Requests : HistoryTells(q)

LEMMA InitHistories == Init => Histories
<1> SUFFICES ASSUME Init, NEW q \in Requests PROVE HistoryTells(q)
  BY DEF Histories
<1>1. /\ progress[q] = <<>> /\ building[q].stage = "absent"
      /\ \A s \in Sources : runs[q][s].stage = "absent"
  BY DEF Init, NoBuilding, NoRun
<1>2. DOMAIN progress[q] = {}
  BY <1>1
<1> QED
  BY <1>1, <1>2 DEF HistoryTells, SourcesTell, StageTells, LastTells, EndsOf, AllOf, Finished

LEMMA NextHistories ==
    ASSUME Inductive, Inductive', Rows, Rows', Histories, [Next]_vars
    PROVE  Histories'
<1>1. Typed /\ Typed' /\ \A q \in Requests : JobConsistent(q)
  BY DEF Inductive, Consistent
<1>2. \A q \in Requests : RowsTell(q) /\ RowsTell(q)' /\ HistoryTells(q)
  BY DEF Rows, Histories
<1>3. ASSUME NEW q \in Requests, Same(q)
      PROVE  HistoryTells(q)'
  BY <1>2, <1>3 DEF Same, HistoryTells
<1>4. ASSUME NEW q \in Requests, Changes(q)
      PROVE  HistoryTells(q)'
  BY <1>1, <1>2, <1>4, QuietHistory, QueuesHistory, CancelsHistory, StartsHistory,
     ExhaustsHistory, ReportsHistory DEF Changes
<1>5. CASE UNCHANGED database
  BY <1>3, <1>5 DEF database, Same, Histories
<1>6. CASE \E q \in Requests : Changes(q) /\ \A p \in Requests : p # q => Same(p)
  BY <1>3, <1>4, <1>6 DEF Histories
<1> QED
  BY <1>5, <1>6, NextRows

LEMMA AlwaysHistories == Spec => [](Inductive /\ Rows /\ Histories)
<1>1. Inductive /\ Inductive' /\ Rows /\ Rows' /\ Histories /\ [Next]_vars => Histories'
  BY NextHistories
<1> QED
  BY <1>1, InitHistories, AlwaysRows, PTL DEF Spec

\* Two ends of one planner are one and the same.
LEMMA AtMostOne ==
    ASSUME NEW S, \A i, j \in S : i = j
    PROVE  Cardinality(S) <= 1
<1>1. CASE S = {}
  BY <1>1, FS_EmptySet
<1>2. CASE S # {}
  <2>1. PICK i \in S : TRUE
    BY <1>2
  <2>2. S = {i}
    BY <2>1
  <2>3. Cardinality({i}) = 1
    BY FS_Singleton
  <2> QED
    BY <2>2, <2>3
<1> QED
  BY <1>1, <1>2

LEMMA ReportedByRun ==
    ASSUME NEW q \in Requests, NEW s \in Sources, SourcesTell(progress[q], runs[q]),
           RunTells(runs[q][s]), runs[q][s].stage \in Finished \cup {"absent"}
    PROVE  Reported(q, s) = runs[q][s].count
<1>1. Ends(q, s) = EndsOf(progress[q], s)
  BY DEF Ends, EndsOf
<1>2. CASE Ends(q, s) = {}
  <2>1. runs[q][s].stage = "absent"
    BY <1>1, <1>2 DEF SourcesTell
  <2> QED
    BY <1>2, <2>1 DEF Reported, RunTells
<1>3. CASE Ends(q, s) # {}
  <2>1. (CHOOSE k \in Ends(q, s) : TRUE) \in Ends(q, s)
    BY <1>3
  <2>2. progress[q][CHOOSE k \in Ends(q, s) : TRUE].count = runs[q][s].count
    BY <1>1, <2>1 DEF SourcesTell
  <2> QED
    BY <1>3, <2>2 DEF Reported
<1> QED
  BY <1>2, <1>3

LEMMA HistorySums == Rows /\ Histories => HistoryAddsUp
<1> SUFFICES ASSUME Rows, Histories, NEW q \in Requests
             PROVE  /\ \A p \in Sources \cup {"all"} : Cardinality(Ends(q, p)) <= 1
                    /\ \A i \in Ends(q, "all") :
                          /\ \A s \in building[q].planners : \E k \in Ends(q, s) : k < i
                          /\ progress[q][i].count = Reported(q, "graph") + Reported(q, "gemini")
  BY DEF HistoryAddsUp
<1>1. /\ SourcesTell(progress[q], runs[q]) /\ StageTells(progress[q], runs[q], building[q])
      /\ \A s \in Sources : RunTells(runs[q][s])
  BY DEF Rows, RowsTell, Histories, HistoryTells
<1>2. \A p : Ends(q, p) = EndsOf(progress[q], p)
  BY DEF Ends, EndsOf
<1>3. ASSUME NEW p \in Sources \cup {"all"}
      PROVE  Cardinality(Ends(q, p)) <= 1
  <2>1. \A i, j \in EndsOf(progress[q], p) : i = j
    BY <1>1 DEF SourcesTell, StageTells
  <2> QED
    BY <1>2, <2>1, AtMostOne
<1>4. ASSUME NEW i \in Ends(q, "all")
      PROVE  /\ \A s \in building[q].planners : \E k \in Ends(q, s) : k < i
             /\ progress[q][i].count = Reported(q, "graph") + Reported(q, "gemini")
  <2>1. /\ \A s \in Sources : runs[q][s].stage \in Finished \cup {"absent"}
        /\ progress[q][i].count = Total(runs[q])
        /\ \A s \in building[q].planners : \E k \in EndsOf(progress[q], s) : k < i
    BY <1>1, <1>2, <1>4 DEF StageTells
  <2>2. \A s \in Sources : Reported(q, s) = runs[q][s].count
    BY <1>1, <2>1, ReportedByRun
  <2>3. progress[q][i].count = Reported(q, "graph") + Reported(q, "gemini")
    BY <2>1, <2>2 DEF Total, Sources
  <2> QED
    BY <1>2, <2>1, <2>3
<1> QED
  BY <1>3, <1>4

(***************************************************************************)
(* The history a user reads adds up, for any number of processes, attempts *)
(* and results (storage/sources.go, storage/building.go): each source ends *)
(* at most once, the whole stage after all of them, with their sum.        *)
(***************************************************************************)
THEOREM HistoryIsConsistent == Spec => []HistoryAddsUp
BY HistorySums, AlwaysHistories, PTL

------------------------------------------------------------------------------
(***************************************************************************)
(* The history of a request only grows, so a revision never names another  *)
(* event than the one it was given to.                                     *)
(***************************************************************************)
LEMMA SourceEventsOf ==
    ASSUME NEW S \in SUBSET Sources, NEW order \in SetToSeqs(S), NEW rs \in [Sources -> Run],
           \A s \in S : rs[s].stage # "absent", NEW e \in Event
    PROVE  /\ SourceEvents(order, rs) \o <<e>> \in Seq(Event)
           /\ <<e>> \o SourceEvents(order, rs) \in Seq(Event)
<1>1. SourceEvents(order, rs) \in Seq(Event)
  BY SourceEventsType
<1> QED
  BY <1>1

LEMMA ChangesAppend ==
    ASSUME Typed, Typed', NEW q \in Requests, RowsTell(q), RowsTell(q)', Changes(q)
    PROVE  \E ev \in Seq(Event) : progress'[q] = progress[q] \o ev
<1> DEFINE rs == runs[q]
           rt == runs'[q]
           b == building'[q]
<1>1. /\ building[q] \in Building /\ b \in Building
      /\ progress[q] \in Seq(Event) /\ rs \in [Sources -> Run] /\ rt \in [Sources -> Run]
  BY DEF Typed, TypeOK
<1>2. b.stage # "absent" => /\ AggregateEvent(b, 0, TRUE) \in Event
                            /\ AggregateEvent(b, 0, FALSE) \in Event
  BY <1>1, OpenEventType
<1>3. CASE Quiet(q)
  <2>1. progress[q] = progress[q] \o <<>> /\ <<>> \in Seq(Event)
    BY <1>1
  <2> QED
    BY <1>3, <2>1 DEF Quiet
<1>4. CASE Queues(q)
  <2>1. b.stage # "absent"
    BY <1>1, <1>4 DEF Queues, Building
  <2>2. <<AggregateEvent(b, 0, FALSE)>> \in Seq(Event)
    <3> DEFINE e == AggregateEvent(b, 0, FALSE)
    <3>1. e \in Event
      BY <1>2, <2>1
    <3> HIDE DEF e
    <3>2. <<e>> \in Seq(Event)
      BY <3>1
    <3> QED
      BY <3>2 DEF e
  <2> QED
    BY <1>4, <2>2 DEF Queues
<1>5. CASE Cancels(q)
  <2>1. b.stage = "cancelled" /\ \A s \in Open(rs) : rt[s].stage # "absent"
    BY <1>1, <1>5, CancelledBuildingType, RunStages DEF Cancels, Open
  <2>2. Open(rs) \in SUBSET Sources
    BY DEF Open
  <2>3. \A order \in SetToSeqs(Open(rs)) :
            SourceEvents(order, rt) \o <<AggregateEvent(b, 0, TRUE)>> \in Seq(Event)
    BY <1>1, <1>2, <2>1, <2>2, SourceEventsOf
  <2> QED
    BY <1>5, <2>3 DEF Cancels
<1>6. CASE Starts(q)
  <2>1. PICK w \in Workers, saved \in (SUBSET Sources) \ {{}}, started \in SUBSET Sources :
            /\ building[q].attempt + 1 \in 1..MaxAttempts
            /\ building'[q] =
                   [stage |-> "building", planners |-> saved, attempt |-> building[q].attempt + 1,
                    holder |-> w, lease |-> "live", started |-> TRUE, finished |-> FALSE]
            /\ runs'[q] = StartedRuns(runs[q], started, building[q].attempt + 1)
            /\ \E order \in SetToSeqs(started) :
                  progress'[q] = progress[q] \o (<<AggregateEvent(building'[q], 0, TRUE)>>
                                     \o SourceEvents(order, runs'[q]))
    BY <1>6 DEF Starts
  <2>2. \A s \in started : rt[s].stage # "absent"
    <3>1. building[q].attempt + 1 \in 0..MaxAttempts
      BY <2>1, AttemptsAssumption
    <3>2. rt = StartedRuns(rs, started, building[q].attempt + 1)
      BY <2>1
    <3> DEFINE n == building[q].attempt + 1
    <3> HIDE DEF b, rs, rt, n
    <3>3. rs \in [Sources -> Run] /\ n \in 0..MaxAttempts /\ rt = StartedRuns(rs, started, n)
      BY <1>1, <3>1, <3>2 DEF n
    <3>4. ASSUME NEW s \in Sources
          PROVE  StartedRuns(rs, started, n)[s].stage =
                     IF s \in started THEN "building" ELSE rs[s].stage
      BY <3>3, RunStages
    <3> QED
      BY <3>3, <3>4
  <2>3. \A order \in SetToSeqs(started) :
            <<AggregateEvent(b, 0, TRUE)>> \o SourceEvents(order, rt) \in Seq(Event)
    <3>1. b.stage # "absent"
      BY <2>1
    <3> HIDE DEF b, rs, rt
    <3> QED
      BY <1>1, <1>2, <2>2, <3>1, SourceEventsOf
  <2> QED
    BY <2>1, <2>3
<1>7. CASE Exhausts(q)
  <2>1. ClosingEvent(b, rt) \in Event /\ \A s \in Open(rs) : rt[s].stage # "absent"
    BY <1>1, <1>7, ClosedType, RunStages DEF Exhausts, Open
  <2>2. Open(rs) \in SUBSET Sources
    BY DEF Open
  <2>3. \A order \in SetToSeqs(Open(rs)) :
            SourceEvents(order, rt) \o <<ClosingEvent(b, rt)>> \in Seq(Event)
    BY <1>1, <2>1, <2>2, SourceEventsOf
  <2> QED
    BY <1>7, <2>3 DEF Exhausts
<1>8. CASE Reports(q)
  <2>1. PICK s \in Sources, r \in Results :
            /\ rt = [rs EXCEPT ![s] = FinishedRun(rs[s], r)]
            /\ \/ progress'[q] = progress[q] \o <<SourceEvent(s, rt[s])>>
               \/ /\ b = Closed(building[q], rt)
                  /\ progress'[q] = progress[q] \o <<SourceEvent(s, rt[s]), ClosingEvent(b, rt)>>
    BY <1>8 DEF Reports
  <2>2. rt[s] \in Run /\ rt[s].stage # "absent"
    BY <1>1, <2>1, FinishedRunType DEF Finished
  <2>3. SourceEvent(s, rt[s]) \in Event
    BY <2>2, SourceEventType
  <2>4. b = Closed(building[q], rt) => ClosingEvent(b, rt) \in Event
    BY <1>1, ClosedType
  <2>5. /\ <<SourceEvent(s, rt[s])>> \in Seq(Event)
        /\ b = Closed(building[q], rt) => <<SourceEvent(s, rt[s]), ClosingEvent(b, rt)>> \in Seq(Event)
    BY <2>3, <2>4, SingleEvents
  <2> QED
    BY <2>1, <2>5
<1> QED
  BY <1>3, <1>4, <1>5, <1>6, <1>7, <1>8 DEF Changes

LEMMA HistoryGrows ==
    ASSUME Inductive, Inductive', Rows, Rows', [Next]_vars
    PROVE  \A q \in Requests : \A i \in DOMAIN progress[q] :
               i \in DOMAIN progress'[q] /\ progress'[q][i] = progress[q][i]
<1>1. ASSUME NEW q \in Requests, Changes(q)
      PROVE  \A i \in DOMAIN progress[q] :
                 i \in DOMAIN progress'[q] /\ progress'[q][i] = progress[q][i]
  <2>1. Typed /\ Typed' /\ RowsTell(q) /\ RowsTell(q)' /\ progress[q] \in Seq(Event)
    BY DEF Inductive, Rows, Typed, TypeOK
  <2>2. PICK ev \in Seq(Event) : progress'[q] = progress[q] \o ev
    BY <1>1, <2>1, ChangesAppend
  <2> QED
    BY <2>1, <2>2, Appended
<1> QED
  BY <1>1, NextRows DEF database, Same

==============================================================================
