---------------------------- MODULE RouteBuilding ----------------------------
(***************************************************************************)
(* Route building in the Search service: the inbox that receives trip      *)
(* events from Cabinet, the route_building job of each request, the        *)
(* planner_runs of its sources, the progress events written with every     *)
(* transition, and the build-routes processes that claim jobs under a      *)
(* lease, run the sources and record what they found.                      *)
(*                                                                         *)
(* Every action is one PostgreSQL transaction of Search, or one step of a  *)
(* build-routes process between two transactions.                          *)
(***************************************************************************)
EXTENDS Naturals, Sequences, FiniteSets, SequencesExt

CONSTANTS
    Requests,     \* identifiers of trip requests
    Workers,      \* build-routes processes
    NoWorker,     \* the NULL lease token
    NoRequest,    \* the request of an idle process
    Members,      \* the sources each process is configured to start
    Results,      \* what a source may return
    MaxAttempts   \* claims of a job before it is given up

Sources == {"graph", "gemini"}
Outcomes == {"", "error", "timeout", "unavailable"}

\* What FinishSource accepts: at most 50 routes, and a failed source is incomplete.
SourceResult ==
    {r \in [count : 0..50, incomplete : BOOLEAN, outcome : Outcomes] :
        r.outcome # "" => r.incomplete}

ASSUME NoWorkerAssumption == NoWorker \notin Workers
ASSUME NoRequestAssumption == NoRequest \notin Requests
ASSUME MembersAssumption == Members \in [Workers -> (SUBSET Sources) \ {{}}]
ASSUME ResultsAssumption == Results \subseteq SourceResult
ASSUME AttemptsAssumption == MaxAttempts \in 1..10

VARIABLES
    inbox,     \* types of the events of a request recorded in inbox_events
    status,    \* search_requests.status
    snapshot,  \* search_requests.created_payload IS NOT NULL
    building,  \* the row of route_building
    runs,      \* the rows of planner_runs
    progress,  \* the events of progress_outbox; the revision is the position
    job        \* what each build-routes process is doing

database == <<inbox, status, snapshot, building, runs, progress>>
vars == <<inbox, status, snapshot, building, runs, progress, job>>

------------------------------------------------------------------------------
EventTypes == {"created", "cancelled", "expired"}
Statuses == {"absent", "pending", "cancelled", "expired"}
Finished == {"awaiting_schedules", "no_routes", "failed"}
Stages == {"queued", "building", "cancelled"} \cup Finished

Building ==
    [stage : Stages \cup {"absent"}, planners : SUBSET Sources, attempt : 0..MaxAttempts,
     holder : Workers \cup {NoWorker}, lease : {"none", "live", "lapsed"},
     started : BOOLEAN, finished : BOOLEAN]

Run ==
    [stage : (Stages \ {"queued"}) \cup {"absent"}, attempt : 0..MaxAttempts,
     count : 0..50, incomplete : BOOLEAN, outcome : Outcomes, finished : BOOLEAN]

Event ==
    [planner : Sources \cup {"all"}, stage : Stages, attempt : 0..MaxAttempts,
     count : 0..100, incomplete : BOOLEAN, outcome : Outcomes,
     started : BOOLEAN, finished : BOOLEAN]

Job ==
    [pc : {"idle", "selected", "working", "rejected"}, request : Requests \cup {NoRequest},
     attempt : 0..MaxAttempts, remaining : SUBSET Sources]

NoBuilding ==
    [stage |-> "absent", planners |-> {}, attempt |-> 0, holder |-> NoWorker,
     lease |-> "none", started |-> FALSE, finished |-> FALSE]

NoRun ==
    [stage |-> "absent", attempt |-> 0, count |-> 0, incomplete |-> TRUE,
     outcome |-> "", finished |-> FALSE]

Idle == [pc |-> "idle", request |-> NoRequest, attempt |-> 0, remaining |-> {}]

Init ==
    /\ inbox = [q \in Requests |-> {}]
    /\ status = [q \in Requests |-> "absent"]
    /\ snapshot = [q \in Requests |-> FALSE]
    /\ building = [q \in Requests |-> NoBuilding]
    /\ runs = [q \in Requests |-> [s \in Sources |-> NoRun]]
    /\ progress = [q \in Requests |-> <<>>]
    /\ job = [w \in Workers |-> Idle]

------------------------------------------------------------------------------
\* The event progressEvent writes for the whole stage.
AggregateEvent(b, count, incomplete) ==
    [planner |-> "all", stage |-> b.stage, attempt |-> b.attempt, count |-> count,
     incomplete |-> incomplete, outcome |-> "", started |-> b.started,
     finished |-> b.finished]

\* The event sourceEvent writes for one source.
SourceEvent(s, r) ==
    [planner |-> s, stage |-> r.stage, attempt |-> r.attempt, count |-> r.count,
     incomplete |-> r.incomplete, outcome |-> r.outcome, started |-> TRUE,
     finished |-> r.finished]

SourceEvents(order, rs) == [i \in DOMAIN order |-> SourceEvent(order[i], rs[order[i]])]

\* Revisions grow by one with each event of a request.
Emit(q, events) == progress' = [progress EXCEPT ![q] = @ \o events]

Open(rs) == {s \in Sources : rs[s].stage = "building"}

\* finishAggregate: the stage that summarises the sources once all have finished.
Total(rs) == rs["graph"].count + rs["gemini"].count

AggregateStage(rs) ==
    CASE Total(rs) > 0 -> "awaiting_schedules"
      [] Total(rs) = 0 /\ (\E s \in Sources : rs[s].stage = "failed") -> "failed"
      [] OTHER -> "no_routes"

Closed(b, rs) ==
    [b EXCEPT !.stage = AggregateStage(rs), !.finished = TRUE,
              !.holder = NoWorker, !.lease = "none"]

ClosingEvent(b, rs) ==
    AggregateEvent(b, Total(rs),
        \E s \in Sources : \/ rs[s].stage = "failed"
                           \/ rs[s].stage # "absent" /\ rs[s].incomplete)

------------------------------------------------------------------------------
(***************************************************************************)
(* Apply: one event of Cabinet, in any order. A repeated event_id changes  *)
(* nothing, so only the first delivery is a step.                          *)
(***************************************************************************)
Receive(q, type) ==
    /\ type \notin inbox[q]
    /\ inbox' = [inbox EXCEPT ![q] = @ \cup {type}]

ApplyCreated(q) ==
    /\ Receive(q, "created")
    /\ snapshot' = [snapshot EXCEPT ![q] = TRUE]
    /\ status' = [status EXCEPT ![q] = IF @ = "absent" THEN "pending" ELSE @]
    /\ IF status'[q] = "pending" /\ building[q].stage = "absent"
       THEN /\ building' = [building EXCEPT ![q].stage = "queued"]
            /\ Emit(q, <<AggregateEvent(building'[q], 0, FALSE)>>)
       ELSE UNCHANGED <<building, progress>>
    /\ UNCHANGED <<runs, job>>

CancelledRuns(rs) ==
    [s \in Sources |->
        IF s \in Open(rs) THEN [rs[s] EXCEPT !.stage = "cancelled", !.finished = TRUE]
                          ELSE rs[s]]

CancelledBuilding(b) ==
    [b EXCEPT !.stage = "cancelled", !.finished = b.started, !.holder = NoWorker,
              !.lease = "none"]

ApplyCancelled(q) ==
    /\ Receive(q, "cancelled")
    /\ status' = [status EXCEPT ![q] = "cancelled"]
    /\ IF building[q].stage \in {"absent", "cancelled"}
       THEN UNCHANGED <<building, runs, progress>>
       ELSE /\ building' = [building EXCEPT ![q] = CancelledBuilding(@)]
            /\ runs' = [runs EXCEPT ![q] = CancelledRuns(@)]
            /\ \E order \in SetToSeqs(Open(runs[q])) :
                   Emit(q, SourceEvents(order, runs'[q])
                               \o <<AggregateEvent(building'[q], 0, TRUE)>>)
    /\ UNCHANGED <<snapshot, job>>

\* Expiry never overrides a cancellation.
Expire(st) == IF st \in {"absent", "pending"} THEN "expired" ELSE st

ApplyExpired(q) ==
    /\ Receive(q, "expired")
    /\ status' = [status EXCEPT ![q] = Expire(@)]
    /\ UNCHANGED <<snapshot, building, runs, progress, job>>

------------------------------------------------------------------------------
(***************************************************************************)
(* ClaimBuilding. The query reads search_requests in its snapshot and      *)
(* locks only the route_building row, so an event applied between the two  *)
(* is noticed through that row alone: ClaimSelect is the snapshot, the     *)
(* other actions are the transaction once it has the row. A process that   *)
(* stops in between rolls back and has changed nothing.                    *)
(***************************************************************************)
\* Mutant of Claimable: only queued jobs are claimed, as if nothing ever crashed.
QueuedOnly(b) == b.stage = "queued"

\* Mutant of Claimable: any job without a live lease, whatever its stage.
Unleased(b) == b.stage = "queued" \/ b.lease # "live"

Claimable(b) == b.stage = "queued" \/ (b.stage = "building" /\ b.lease = "lapsed")

ClaimSelect(w) ==
    /\ job[w].pc = "idle"
    /\ \E q \in Requests :
          /\ status[q] = "pending"
          /\ Claimable(building[q])
          /\ job' = [job EXCEPT ![w] = [@ EXCEPT !.pc = "selected", !.request = q]]
    /\ UNCHANGED database

ClaimLost(w) ==
    /\ job[w].pc = "selected"
    /\ ~Claimable(building[job[w].request])
    /\ job' = [job EXCEPT ![w] = Idle]
    /\ UNCHANGED database

Exhausted(b) == b.attempt >= MaxAttempts

\* Mutant of SavedPlanners: the configuration replaces the saved sources.
ReplacedPlanners(w, b) == Members[w]

\* The first claim saves the sources of a job; later ones keep them.
SavedPlanners(w, b) == IF b.planners = {} THEN Members[w] ELSE b.planners

\* startSources: a source that has finished is not started again.
Startable(w, q) ==
    {s \in SavedPlanners(w, building[q]) : runs[q][s].stage \in {"absent", "building"}}

StartedRuns(rs, started, attempt) ==
    [s \in Sources |->
        IF s \in started THEN [rs[s] EXCEPT !.stage = "building", !.attempt = attempt]
                         ELSE rs[s]]

ClaimStart(w) ==
    LET q == job[w].request
        started == Startable(w, q)
    IN
    /\ job[w].pc = "selected"
    /\ Claimable(building[q])
    /\ ~Exhausted(building[q])
    /\ building' = [building EXCEPT ![q] =
           [stage |-> "building", planners |-> SavedPlanners(w, @), attempt |-> @.attempt + 1,
            holder |-> w, lease |-> "live", started |-> TRUE, finished |-> FALSE]]
    /\ runs' = [runs EXCEPT ![q] = StartedRuns(@, started, building[q].attempt + 1)]
    /\ \E order \in SetToSeqs(started) :
           Emit(q, <<AggregateEvent(building'[q], 0, TRUE)>> \o SourceEvents(order, runs'[q]))
    /\ job' = [job EXCEPT ![w] =
           [pc |-> IF started = {} THEN "rejected" ELSE "working", request |-> q,
            attempt |-> building[q].attempt + 1, remaining |-> started]]
    /\ UNCHANGED <<inbox, status, snapshot>>

\* Mutant of ExhaustedRuns: the WHERE stage='building' is missing.
AllExhausted(rs) ==
    [s \in Sources |->
        IF rs[s].stage # "absent"
        THEN [rs[s] EXCEPT !.stage = "failed", !.outcome = "timeout", !.count = 0,
                           !.incomplete = TRUE, !.finished = TRUE]
        ELSE rs[s]]

\* exhaustSources: the sources still open time out, what the others found is kept.
ExhaustedRuns(rs) ==
    [s \in Sources |->
        IF s \in Open(rs)
        THEN [rs[s] EXCEPT !.stage = "failed", !.outcome = "timeout",
                           !.incomplete = TRUE, !.finished = TRUE]
        ELSE rs[s]]

ClaimExhausted(w) ==
    LET q == job[w].request IN
    /\ job[w].pc = "selected"
    /\ Claimable(building[q])
    /\ Exhausted(building[q])
    /\ runs' = [runs EXCEPT ![q] = ExhaustedRuns(@)]
    /\ building' = [building EXCEPT ![q] =
           Closed([@ EXCEPT !.planners = SavedPlanners(w, building[q])], runs'[q])]
    /\ \E order \in SetToSeqs(Open(runs[q])) :
           Emit(q, SourceEvents(order, runs'[q]) \o <<ClosingEvent(building'[q], runs'[q])>>)
    /\ job' = [job EXCEPT ![w] = Idle]
    /\ UNCHANGED <<inbox, status, snapshot>>

------------------------------------------------------------------------------
(***************************************************************************)
(* MultiWorker.Step after a claim: the sources run concurrently, each      *)
(* result is saved as it arrives, and the job is polled meanwhile. A       *)
(* process holds one job at a time, so its name stands for the fresh token *)
(* of its claim. The lease is compared with the start of the transaction:  *)
(* a lapse while the transaction runs takes effect after it.               *)
(***************************************************************************)
\* Mutant of Holds: the lease token is not compared.
AnyHolder(w, q) == building[q].stage = "building" /\ building[q].lease = "live"

Holds(w, q) ==
    building[q].stage = "building" /\ building[q].holder = w /\ building[q].lease = "live"

Active(w, q) == Holds(w, q) /\ status[q] = "pending"

FinishStage(r) ==
    CASE r.count > 0 -> "awaiting_schedules"
      [] r.count = 0 /\ r.outcome # "" -> "failed"
      [] OTHER -> "no_routes"

FinishedRun(run, r) ==
    [stage |-> FinishStage(r), attempt |-> run.attempt, count |-> r.count,
     incomplete |-> r.incomplete, outcome |-> r.outcome, finished |-> TRUE]

\* The job after one more source is done; Step returns when none is left.
Done(j, s) ==
    IF j.remaining = {s} THEN Idle ELSE [j EXCEPT !.remaining = @ \ {s}]

\* Mutant of Recordable: the status of the request is not read again.
StatusUnread(w, q, s) == Holds(w, q) /\ runs[q][s].stage = "building"

Recordable(w, q, s) == status[q] = "pending" /\ Holds(w, q) /\ runs[q][s].stage = "building"

FinishSource(w, s, r) ==
    LET q == job[w].request IN
    /\ job[w].pc = "working"
    /\ s \in job[w].remaining
    /\ Recordable(w, q, s)
    /\ runs' = [runs EXCEPT ![q][s] = FinishedRun(@, r)]
    /\ IF Open(runs'[q]) # {}
       THEN /\ Emit(q, <<SourceEvent(s, runs'[q][s])>>)
            /\ UNCHANGED building
       ELSE /\ building' = [building EXCEPT ![q] = Closed(@, runs'[q])]
            /\ Emit(q, <<SourceEvent(s, runs'[q][s]), ClosingEvent(building'[q], runs'[q])>>)
    /\ job' = [job EXCEPT ![w] = Done(@, s)]
    /\ UNCHANGED <<inbox, status, snapshot>>

\* The result of a cancelled, expired or reclaimed job is dropped.
DropResult(w, s) ==
    /\ job[w].pc = "working"
    /\ s \in job[w].remaining
    /\ ~Recordable(w, job[w].request, s)
    /\ job' = [job EXCEPT ![w] = Done(@, s)]
    /\ UNCHANGED database

\* BuildingActive answers no: the sources are stopped and joined.
PollInactive(w) ==
    /\ job[w].pc = "working"
    /\ ~Active(w, job[w].request)
    /\ job' = [job EXCEPT ![w] = Idle]
    /\ UNCHANGED database

\* A crash, a shutdown, or an error that ends Run; the process is started again.
WorkerStops(w) ==
    /\ job[w].pc \in {"working", "rejected"}
    /\ job' = [job EXCEPT ![w] = Idle]
    /\ UNCHANGED database

\* lease_until passes.
LeaseLapses(q) ==
    /\ building[q].lease = "live"
    /\ building' = [building EXCEPT ![q].lease = "lapsed"]
    /\ UNCHANGED <<inbox, status, snapshot, runs, progress, job>>

------------------------------------------------------------------------------
Receives(q) == ApplyCreated(q) \/ ApplyCancelled(q) \/ ApplyExpired(q)

Claims(w) == ClaimSelect(w) \/ ClaimLost(w) \/ ClaimStart(w) \/ ClaimExhausted(w)

Works(w) ==
    \/ \E s \in Sources, r \in Results : FinishSource(w, s, r)
    \/ \E s \in Sources : DropResult(w, s)
    \/ PollInactive(w)

Next ==
    \/ \E q \in Requests : Receives(q) \/ LeaseLapses(q)
    \/ \E w \in Workers : Claims(w) \/ Works(w) \/ WorkerStops(w)

Spec == Init /\ [][Next]_vars

------------------------------------------------------------------------------
TypeOK ==
    /\ inbox \in [Requests -> SUBSET EventTypes]
    /\ status \in [Requests -> Statuses]
    /\ snapshot \in [Requests -> BOOLEAN]
    /\ building \in [Requests -> Building]
    /\ runs \in [Requests -> [Sources -> Run]]
    /\ progress \in [Requests -> Seq(Event)]
    /\ job \in [Workers -> Job]

(***************************************************************************)
(* The state of a request depends on which events were applied and not on  *)
(* their order: cancellation wins over expiry, both win over creation,     *)
(* also when they come first and leave a tombstone (Apply).                *)
(***************************************************************************)
StatusFollowsInbox ==
    \A q \in Requests :
        /\ status[q] = "cancelled" <=> "cancelled" \in inbox[q]
        /\ status[q] = "expired" <=> "expired" \in inbox[q] /\ "cancelled" \notin inbox[q]
        /\ status[q] = "pending" <=> inbox[q] = {"created"}
        /\ snapshot[q] <=> "created" \in inbox[q]

(***************************************************************************)
(* The barrier: the stage of the job is building exactly while one of its  *)
(* saved sources is, and a job that has closed summarises its sources.     *)
(* When it breaks, a lapsed job is claimed with nothing to start, or its   *)
(* stage hides a source that still runs (finishAggregate, startSources).   *)
(***************************************************************************)
AggregateBarrier ==
    \A q \in Requests :
        /\ building[q].stage = "building" <=> Open(runs[q]) # {}
        /\ building[q].stage \in Finished =>
               /\ building[q].stage = AggregateStage(runs[q])
               /\ \A s \in Sources : runs[q][s].stage # "absent" <=> s \in building[q].planners

(***************************************************************************)
(* A claim always finds a source to start: Step never stops the process    *)
(* with "invalid saved source membership".                                 *)
(***************************************************************************)
MembershipValid == \A w \in Workers : job[w].pc # "rejected"

(***************************************************************************)
(* Cancellation is final: the job of a cancelled request is cancelled with *)
(* all its sources, even when a claim had read the request as pending.     *)
(***************************************************************************)
CancelWins ==
    \A q \in Requests : status[q] = "cancelled" =>
        /\ building[q].stage \in {"absent", "cancelled"}
        /\ Open(runs[q]) = {}

\* What the contract asks of the fields of an event (Decode of the progress event).
Accepted(e) ==
    /\ e.planner # "all" => e.count <= 50 /\ e.stage # "queued"
    /\ e.count <= 100 /\ e.attempt <= 100
    /\ e.outcome # "" => e.planner # "all" /\ e.finished /\ e.incomplete
    /\ e.finished => e.started
    /\ e.stage = "queued" => e.attempt = 0 /\ ~e.started /\ e.count = 0
    /\ e.stage = "building" => e.attempt >= 1 /\ e.started /\ ~e.finished /\ e.count = 0
    /\ e.stage \in Finished => e.attempt >= 1 /\ e.started /\ e.finished
    /\ e.stage = "awaiting_schedules" => e.count > 0
    /\ e.stage \in {"no_routes", "failed"} => e.count = 0

\* The events of a history that report an end, of a source or of the stage.
Ends(q, planner) ==
    {i \in DOMAIN progress[q] :
        progress[q][i].planner = planner /\ progress[q][i].stage \in Finished}

\* How many routes a source has reported: none before its end.
Reported(q, s) ==
    IF Ends(q, s) = {} THEN 0 ELSE progress[q][CHOOSE k \in Ends(q, s) : TRUE].count

(***************************************************************************)
(* The history a user reads adds up: each source reports an end at most    *)
(* once, the stage as a whole ends after all of them, and its count is the *)
(* sum of theirs, whichever attempts, processes or timeouts ended them.    *)
(***************************************************************************)
HistoryAddsUp ==
    \A q \in Requests :
        /\ \A p \in Sources \cup {"all"} : Cardinality(Ends(q, p)) <= 1
        /\ \A i \in Ends(q, "all") :
               /\ \A s \in building[q].planners : \E k \in Ends(q, s) : k < i
               /\ progress[q][i].count = Reported(q, "graph") + Reported(q, "gemini")

(***************************************************************************)
(* What a source found is kept: a run that has ended never changes, not by *)
(* a new attempt, exhaustion, cancellation or a late duplicate.            *)
(***************************************************************************)
RunsKept ==
    [][\A q \in Requests, s \in Sources :
          runs[q][s].stage \in Finished \cup {"cancelled"} => runs'[q][s] = runs[q][s]]_vars

(***************************************************************************)
(* Nothing is reported after a cancellation: no later claim, result or     *)
(* exhaustion of a stale process reaches the progress outbox.              *)
(***************************************************************************)
SilentAfterCancel ==
    [][\A q \in Requests : status[q] = "cancelled" => progress'[q] = progress[q]]_vars

(***************************************************************************)
(* A result is recorded only for the attempt under way: when a source of a *)
(* job ends with its own result, the process that saved it had claimed     *)
(* this very attempt, and no process that lost its lease can.              *)
(***************************************************************************)
OnlyCurrentAttempt ==
    [][\A q \in Requests, s \in Sources :
          (/\ runs[q][s].stage = "building"
           /\ runs'[q][s].stage \in Finished
           /\ runs'[q][s].outcome # "timeout")
          => \E w \in Workers : /\ job[w].request = q
                                /\ job[w].attempt = building[q].attempt
                                /\ s \in job[w].remaining
                                /\ s \notin job'[w].remaining]_vars

(***************************************************************************)
(* The detailed behaviour implements RequestLifecycle: attempts, leases,   *)
(* crashes and stale processes show up there as single answers of sources. *)
(***************************************************************************)
Lifecycle == INSTANCE RequestLifecycle WITH
    stage <- [q \in Requests |-> building[q].stage],
    asked <- [q \in Requests |-> building[q].planners],
    found <- [q \in Requests |-> [s \in Sources |->
                 IF runs[q][s].stage \in Finished THEN {runs[q][s].count} ELSE {}]]

ImplementsLifecycle == Lifecycle!Spec

==============================================================================
