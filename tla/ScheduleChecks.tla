---------------------------- MODULE ScheduleChecks ----------------------------
(***************************************************************************)
(* Schedule checks in Search: a build-routes process claims a request      *)
(* whose graph source has found routes, asks the timetables under a lease, *)
(* saves the result and plans the next check. A check that is repeated     *)
(* keeps the earlier result readable. Each action is one transaction; the  *)
(* row of search_requests is locked by every one that needs its status.    *)
(***************************************************************************)
EXTENDS Naturals, Sequences, FiniteSets, SequencesExt

CONSTANTS
    Requests,    \* requests that Search has accepted
    Workers,     \* build-routes processes
    Rechecks,    \* schedules.recheck_interval is positive
    NoWorker,    \* the NULL lease token
    NoRequest    \* what an idle process checks

ASSUME RequestsAssumption == IsFiniteSet(Requests)
ASSUME NoWorkerAssumption == NoWorker \notin Workers
ASSUME NoRequestAssumption == NoRequest \notin Requests
ASSUME RechecksAssumption == Rechecks \in BOOLEAN

MaxAttempts == 3

VARIABLES
    status,    \* search_requests.status
    ready,     \* requests whose graph source awaits schedules, with a result
    check,     \* the row of schedule_checks
    plan,      \* the rows that have a next_check_at, in its order
    due,       \* the rows whose next_check_at has passed
    checking,  \* the request each process checks
    overtaken  \* history, for ReportKept: processes whose check was claimed by another, or given up, since

checksVars == <<status, ready, check, plan, due, checking, overtaken>>

------------------------------------------------------------------------------
Ended == {"done", "failed"}

\* result is the state the saved report carries; refreshFailed is refresh_failed_at.
Check ==
    [state : {"absent", "running"} \cup Ended, attempt : 0..MaxAttempts,
     holder : Workers \cup {NoWorker}, lease : {"none", "live", "lapsed"},
     result : {"none"} \cup Ended, refreshFailed : BOOLEAN]

NoCheck ==
    [state |-> "absent", attempt |-> 0, holder |-> NoWorker, lease |-> "none",
     result |-> "none", refreshFailed |-> FALSE]

ChecksInit ==
    /\ status = [q \in Requests |-> "pending"]
    /\ ready = {}
    /\ check = [q \in Requests |-> NoCheck]
    /\ plan = <<>>
    /\ due = {}
    /\ checking = [w \in Workers |-> NoRequest]
    /\ overtaken = {}

\* The plan without the rows of S, in its order.
PlannedBefore(p, q) == \E i, j \in DOMAIN plan : i < j /\ plan[i] = p /\ plan[j] = q

Others(S) ==
    {rest \in SetToSeqs(Range(plan) \ S) :
        \A i, j \in DOMAIN rest : i < j => PlannedBefore(rest[i], rest[j])}

\* The plan once the checks of S have ended: their next check is the last one, if any.
Replanned(S) ==
    IF Rechecks THEN {rest \o last : rest \in Others(S), last \in SetToSeqs(S)} ELSE Others(S)

------------------------------------------------------------------------------
\* What happens to a request meanwhile.
GraphFinishes(q) ==
    /\ status[q] = "pending" /\ q \notin ready
    /\ ready' = ready \cup {q}
    /\ UNCHANGED <<status, check, plan, due, checking, overtaken>>

Expires(q) ==
    /\ status[q] = "pending"
    /\ status' = [status EXCEPT ![q] = "expired"]
    /\ UNCHANGED <<ready, check, plan, due, checking, overtaken>>

Cancels(q) ==
    /\ status[q] # "cancelled"
    /\ status' = [status EXCEPT ![q] = "cancelled"]
    /\ UNCHANGED <<ready, check, plan, due, checking, overtaken>>

\* next_check_at passes, for the rows in its order.
BecomesDue(q) ==
    /\ q \notin due
    /\ \E i \in DOMAIN plan : plan[i] = q /\ \A j \in 1..(i - 1) : plan[j] \in due
    /\ due' = due \cup {q}
    /\ UNCHANGED <<status, ready, check, plan, checking, overtaken>>

LeaseLapses(q) ==
    /\ check[q].lease = "live"
    /\ check' = [check EXCEPT ![q].lease = "lapsed"]
    /\ UNCHANGED <<status, ready, plan, due, checking, overtaken>>

------------------------------------------------------------------------------
(***************************************************************************)
(* ClaimSchedules gives up the checks abandoned too often, of any request, *)
(* then takes a pending request: one never checked, else one abandoned,    *)
(* else the one whose next check came first.                               *)
(***************************************************************************)
Lapsed(q) == check[q].state = "running" /\ check[q].lease = "lapsed"

GivenUp == {q \in Requests : Lapsed(q) /\ check[q].attempt >= MaxAttempts}

\* Mutant of PlannedAgain: a check that is given up gets no next_check_at.
PlannedNever(S) == Others(S)

PlannedAgain(S) == Replanned(S)

Wanted(q) == status[q] = "pending" /\ q \in ready

New == {q \in Requests : Wanted(q) /\ check[q].state = "absent"}

Abandoned == {q \in Requests : Wanted(q) /\ Lapsed(q) /\ check[q].attempt < MaxAttempts}

\* Mutant of Recheckable: in any order.
AnyDue == {q \in due : Wanted(q) /\ check[q].state \in Ended}

Recheckable ==
    LET all == {q \in due : Wanted(q) /\ check[q].state \in Ended}
    IN {q \in all : \E i \in DOMAIN plan :
            plan[i] = q /\ \A j \in 1..(i - 1) : plan[j] \notin all}

\* A check given up by this very transaction is planned for later, so not among them.
Claimable ==
    CASE New # {} -> New
      [] New = {} /\ Abandoned # {} -> Abandoned
      [] OTHER -> Recheckable

Attempt(c) == IF c.state = "running" THEN c.attempt + 1 ELSE 1

Reaped ==
    [q \in Requests |->
        IF q \in GivenUp
        THEN [check[q] EXCEPT !.state = "failed", !.holder = NoWorker, !.lease = "none"]
        ELSE check[q]]

Overtaken(S) == overtaken \cup {v \in Workers : checking[v] \in S}

ClaimSchedules(w) ==
    /\ checking[w] = NoRequest
    /\ plan' \in PlannedAgain(GivenUp)
    /\ due' = due \ GivenUp
    /\ \E q \in Claimable :
          /\ check' = [Reaped EXCEPT ![q] =
                 [@ EXCEPT !.state = "running", !.attempt = Attempt(check[q]),
                           !.holder = w, !.lease = "live"]]
          /\ checking' = [checking EXCEPT ![w] = q]
          /\ overtaken' = Overtaken(GivenUp \cup {q})
    /\ UNCHANGED <<status, ready>>

\* The same when there is nothing to claim.
ClaimNothing(w) ==
    /\ checking[w] = NoRequest
    /\ GivenUp # {} /\ Claimable = {}
    /\ plan' \in PlannedAgain(GivenUp)
    /\ due' = due \ GivenUp
    /\ check' = Reaped
    /\ overtaken' = Overtaken(GivenUp)
    /\ UNCHANGED <<status, ready, checking>>

------------------------------------------------------------------------------
(***************************************************************************)
(* runScheduleCheck ends within its timeout, well or not. FinishSchedules  *)
(* saves the outcome of a pending request under its live lease, and drops  *)
(* it otherwise. A failed check never replaces a saved report.             *)
(***************************************************************************)
\* Mutant of Holds: the lease is looked at, the token is not.
HoldsAnyToken(w, q) == check[q].state = "running" /\ check[q].lease = "live"

Holds(w, q) ==
    check[q].state = "running" /\ check[q].holder = w /\ check[q].lease = "live"

Saves(w, q) == status[q] = "pending" /\ Holds(w, q)

KeepsReport(c, outcome) == outcome = "failed" /\ c.result # "none"

\* Mutant of SavedState: a report that is kept is taken for a good one.
KeptIsDone(c, outcome) == IF KeepsReport(c, outcome) THEN "done" ELSE outcome

SavedState(c, outcome) == IF KeepsReport(c, outcome) THEN c.result ELSE outcome

Saved(c, outcome) ==
    [c EXCEPT !.state = SavedState(c, outcome),
              !.result = IF KeepsReport(c, outcome) THEN @ ELSE outcome,
              !.refreshFailed = KeepsReport(c, outcome),
              !.holder = NoWorker, !.lease = "none"]

FinishSchedules(w, outcome) ==
    LET q == checking[w] IN
    /\ q # NoRequest
    /\ checking' = [checking EXCEPT ![w] = NoRequest]
    /\ overtaken' = overtaken \ {w}
    /\ IF Saves(w, q)
       THEN /\ check' = [check EXCEPT ![q] = Saved(@, outcome)]
            /\ plan' \in Replanned({q})
            /\ due' = due \ {q}
       ELSE UNCHANGED <<check, plan, due>>
    /\ UNCHANGED <<status, ready>>

\* A crash, a shutdown or a failed transaction; the process is started again.
WorkerStops(w) ==
    /\ checking[w] # NoRequest
    /\ checking' = [checking EXCEPT ![w] = NoRequest]
    /\ overtaken' = overtaken \ {w}
    /\ UNCHANGED <<status, ready, check, plan, due>>

------------------------------------------------------------------------------
Claims(w) == ClaimSchedules(w) \/ ClaimNothing(w)

Finishes(w) == \E outcome \in Ended : FinishSchedules(w, outcome)

ChecksNext ==
    \/ \E q \in Requests :
          GraphFinishes(q) \/ Expires(q) \/ Cancels(q) \/ BecomesDue(q) \/ LeaseLapses(q)
    \/ \E w \in Workers : Claims(w) \/ Finishes(w) \/ WorkerStops(w)

ChecksSpec == ChecksInit /\ [][ChecksNext]_checksVars

(***************************************************************************)
(* Time passes for leases and plans, and processes keep polling. Any check *)
(* may be cut short by a crash, every time.                                *)
(***************************************************************************)
Fairness ==
    /\ \A q \in Requests : WF_checksVars(BecomesDue(q)) /\ WF_checksVars(LeaseLapses(q))
    /\ \A w \in Workers : WF_checksVars(Claims(w)) /\ WF_checksVars(Finishes(w) \/ WorkerStops(w))

FairSpec == ChecksSpec /\ Fairness

------------------------------------------------------------------------------
(***************************************************************************)
(* What readSchedules shows: the state of the row, which wins over the     *)
(* saved report, or cancelled.                                             *)
(***************************************************************************)
Shown(q) ==
    CASE check[q].state = "absent" -> "pending"
      [] check[q].state # "absent" /\ status[q] = "cancelled" -> "cancelled"
      [] OTHER -> check[q].state

(***************************************************************************)
(* A check shown as done has a good report behind it, and a failed refresh *)
(* is only reported beside a report, also after repeated failures.         *)
(***************************************************************************)
ShownIsSaved ==
    \A q \in Requests :
        /\ Shown(q) = "done" => check[q].result = "done"
        /\ check[q].refreshFailed => check[q].result # "none"

(***************************************************************************)
(* With re-checks on, no request falls out of them: every check that has   *)
(* ended, by itself or because it was abandoned, has its next one planned. *)
(***************************************************************************)
NothingForgotten ==
    Rechecks => \A q \in Requests : check[q].state \in Ended => q \in Range(plan)

(***************************************************************************)
(* A saved report only makes way for a good one: failures, crashes and     *)
(* given-up checks keep it. Nor does an older outcome take the place of a  *)
(* newer one: a process whose check another process has claimed since, or  *)
(* that was given up since, saves nothing when it ends, whatever the lease *)
(* of that row is by then (FinishSchedules compares the token).            *)
(***************************************************************************)
ReportKept ==
    [][/\ \A q \in Requests :
             check[q].result # "none" => check'[q].result \in {check[q].result, "done"}
       /\ \A w \in overtaken :
             checking'[w] # checking[w] => UNCHANGED <<check, plan, due>>]_checksVars

(***************************************************************************)
(* Every pending request with routes gets its first check, and every       *)
(* re-check that is due is made, to an end its owner is told, although     *)
(* every process may crash during every check and other requests come due  *)
(* again and again.                                                        *)
(***************************************************************************)
Waiting(q) == Wanted(q) /\ (check[q].state \notin Ended \/ q \in due)

ChecksMade == \A q \in Requests : Waiting(q) ~> ~Waiting(q)

(***************************************************************************)
(* A check that is shown as running ends: the page polls it until then     *)
(* (docs/ops/schedules.md).                                                *)
(***************************************************************************)
RunningEnds == \A q \in Requests : Shown(q) = "running" ~> Shown(q) # "running"

==============================================================================
