---------------------------- MODULE ScheduleProofs ----------------------------
(***************************************************************************)
(* Proofs about the schedule checks. First who makes a check and what is   *)
(* kept of it (ScheduleChecks), for any requests and processes, with       *)
(* re-checks on or off. Then what one check brings (CheckLimits), for any  *)
(* scheme, timetables and limits: the windows of the search lose no        *)
(* journey, it finds what is to be found, both matchers find the same, and *)
(* the report tells the truth about it.                                    *)
(***************************************************************************)
EXTENDS CheckLimits, ScheduleChecks, FiniteSetTheorems, SequenceTheorems, TLAPS

Typed ==
    /\ check \in [Requests -> Check]
    /\ plan \in Seq(Requests)
    /\ due \subseteq Requests
    /\ checking \in [Workers -> Requests \cup {NoRequest}]

\* A state that is shown as done, or a failure of a refresh, rests on a saved report.
RowIsSaved(c) ==
    /\ c.state = "done" => c.result = "done"
    /\ c.refreshFailed => c.result # "none"

RowsAreSaved == \A q \in Requests : RowIsSaved(check[q])

Inductive == Typed /\ RowsAreSaved /\ NothingForgotten

\* A process that was overtaken is still at its check, whose row is no longer under its token.
TokensGone ==
    /\ overtaken \subseteq Workers
    /\ \A w \in overtaken : checking[w] \in Requests /\ check[checking[w]].holder # w

\* What a step does to a report: nothing, or a good one takes its place.
RowIsKept(c, d) == c.result # "none" => d.result \in {c.result, "done"}

------------------------------------------------------------------------------
(***************************************************************************)
(* The plan: the rows whose checks have ended go to its end, and no other  *)
(* row is lost.                                                            *)
(***************************************************************************)
LEMMA SeqOfAll ==
    ASSUME NEW S, IsFiniteSet(S), NEW s \in SetToSeqs(S)
    PROVE  s \in Seq(S) /\ Range(s) = S
<1> DEFINE D == 1..Cardinality(S)
<1>1. Cardinality(S) \in Nat
  BY FS_CardinalityType
<1>2. s \in [D -> S] /\ \A i, j \in D : i # j => s[i] # s[j]
  BY DEF SetToSeqs
<1>3. s \in Injection(D, S)
  BY <1>2 DEF Injection, IsInjective
<1>4. IsFiniteSet(D) /\ Cardinality(D) = Cardinality(S)
  BY <1>1, FS_Interval
<1>5. s \in Surjection(D, S)
  BY <1>3, <1>4, FS_Injection
<1>6. Range(s) = S
  BY <1>2, <1>5 DEF Surjection, Range
<1> QED
  BY <1>1, <1>2, <1>6

LEMMA OthersStay ==
    ASSUME plan \in Seq(Requests), NEW S, NEW rest \in Others(S)
    PROVE  rest \in Seq(Requests) /\ Range(rest) = Range(plan) \ S
<1> DEFINE kept == Range(plan) \ S
<1>1. kept \subseteq Requests
  BY RangeOfSeq
<1>2. IsFiniteSet(kept)
  BY <1>1, RequestsAssumption, FS_Subset
<1>3. rest \in SetToSeqs(kept)
  BY DEF Others
<1> HIDE DEF kept
<1>4. rest \in Seq(kept) /\ Range(rest) = kept
  BY <1>2, <1>3, SeqOfAll
<1>5. rest \in Seq(Requests)
  BY <1>1, <1>4
<1> QED
  BY <1>4, <1>5 DEF kept

LEMMA ReplannedRange ==
    ASSUME plan \in Seq(Requests), NEW S \in SUBSET Requests, NEW new \in Replanned(S)
    PROVE  /\ new \in Seq(Requests)
           /\ Rechecks => Range(new) = Range(plan) \cup S
<1>1. CASE Rechecks
  <2>1. PICK rest \in Others(S), last \in SetToSeqs(S) : new = rest \o last
    BY <1>1 DEF Replanned
  <2>2. IsFiniteSet(S)
    BY RequestsAssumption, FS_Subset
  <2>3. last \in Seq(S) /\ Range(last) = S
    BY <2>2, SeqOfAll
  <2>4. last \in Seq(Requests)
    BY <2>3
  <2>5. rest \in Seq(Requests) /\ Range(rest) = Range(plan) \ S
    BY OthersStay
  <2> QED
    BY <2>1, <2>3, <2>4, <2>5, RangeConcatenation
<1>2. CASE ~Rechecks
  BY <1>2, OthersStay DEF Replanned
<1> QED
  BY <1>1, <1>2

------------------------------------------------------------------------------
LEMMA InitInductive == ChecksInit => Inductive
<1> SUFFICES ASSUME ChecksInit PROVE Inductive
  OBVIOUS
<1>1. NoCheck \in Check
  BY DEF NoCheck, Check, MaxAttempts
<1>2. RowIsSaved(NoCheck)
  BY DEF NoCheck, RowIsSaved
<1>3. NoCheck.state \notin Ended
  BY DEF NoCheck, Ended
<1> QED
  BY <1>1, <1>2, <1>3 DEF ChecksInit, Inductive, Typed, RowsAreSaved, NothingForgotten

\* What the outcome of a check makes of its row.
LEMMA SavedRow ==
    ASSUME NEW c \in Check, RowIsSaved(c), NEW outcome \in Ended
    PROVE  /\ Saved(c, outcome) \in Check
           /\ RowIsSaved(Saved(c, outcome))
           /\ RowIsKept(c, Saved(c, outcome))
<1> DEFINE kept == KeepsReport(c, outcome)
           state == SavedState(c, outcome)
           result == IF kept THEN c.result ELSE outcome
<1>1. Saved(c, outcome) = [c EXCEPT !.state = state, !.result = result, !.refreshFailed = kept,
                                    !.holder = NoWorker, !.lease = "none"]
  BY DEF Saved
<1>2. /\ state \in Ended /\ result \in Ended /\ kept \in BOOLEAN
      /\ state = result /\ (c.result # "none" => result \in {c.result, "done"})
  BY DEF KeepsReport, SavedState, Ended, Check
<1> HIDE DEF kept, state, result
<1>3. /\ Saved(c, outcome) \in Check
      /\ Saved(c, outcome).state = state /\ Saved(c, outcome).result = result
  BY <1>1, <1>2 DEF Check
<1> QED
  BY <1>2, <1>3 DEF RowIsSaved, RowIsKept, Ended

LEMMA ReapedRows ==
    ASSUME Inductive
    PROVE  /\ Reaped \in [Requests -> Check]
           /\ \A q \in Requests :
                 /\ RowIsSaved(Reaped[q]) /\ Reaped[q].result = check[q].result
                 /\ Reaped[q].state \in Ended => check[q].state \in Ended \/ q \in GivenUp
<1> SUFFICES ASSUME NEW q \in Requests
             PROVE  /\ Reaped[q] \in Check
                    /\ RowIsSaved(Reaped[q]) /\ Reaped[q].result = check[q].result
                    /\ Reaped[q].state \in Ended => check[q].state \in Ended \/ q \in GivenUp
  BY DEF Reaped
<1>1. check[q] \in Check /\ RowIsSaved(check[q])
  BY DEF Inductive, Typed, RowsAreSaved
<1> DEFINE failed == [check[q] EXCEPT !.state = "failed", !.holder = NoWorker, !.lease = "none"]
<1>2. /\ failed \in Check /\ failed.state = "failed" /\ failed.result = check[q].result
      /\ failed.refreshFailed = check[q].refreshFailed
  BY <1>1 DEF Check, Ended
<1>3. Reaped[q] = IF q \in GivenUp THEN failed ELSE check[q]
  BY DEF Reaped
<1> HIDE DEF failed
<1> QED
  BY <1>1, <1>2, <1>3 DEF RowIsSaved

\* A row that a process claims: its report is as it was.
LEMMA ClaimedRow ==
    ASSUME Inductive, NEW q \in Claimable, NEW w \in Workers
    PROVE  LET new == [Reaped[q] EXCEPT !.state = "running", !.attempt = Attempt(check[q]),
                                        !.holder = w, !.lease = "live"]
           IN  /\ q \in Requests /\ new \in Check
               /\ RowIsSaved(new) /\ new.result = check[q].result /\ new.state \notin Ended
<1> DEFINE new == [Reaped[q] EXCEPT !.state = "running", !.attempt = Attempt(check[q]),
                                    !.holder = w, !.lease = "live"]
<1>1. q \in New \/ q \in Abandoned \/ q \in Recheckable
  BY DEF Claimable
<1>2. q \in Requests /\ (check[q].state = "running" => check[q].attempt < MaxAttempts)
  BY <1>1 DEF New, Abandoned, Recheckable, Inductive, Typed, Ended
<1>3. check[q] \in Check /\ Reaped[q] \in Check
      /\ RowIsSaved(Reaped[q]) /\ Reaped[q].result = check[q].result
  BY <1>2, ReapedRows DEF Inductive, Typed
<1>4. Attempt(check[q]) \in 0..MaxAttempts
  BY <1>2, <1>3 DEF Attempt, MaxAttempts, Check
<1>5. new \in Check /\ new.result = check[q].result /\ new.state = "running"
      /\ new.refreshFailed = Reaped[q].refreshFailed
  BY <1>3, <1>4 DEF Check
<1>6. RowIsSaved(new) /\ new.state \notin Ended
  BY <1>3, <1>5 DEF RowIsSaved, Ended
<1> QED
  BY <1>2, <1>5, <1>6

------------------------------------------------------------------------------
\* A step that leaves the rows and the plan as they are, or only passes time.
LEMMA OthersKeep ==
    ASSUME Inductive, check' \in [Requests -> Check], UNCHANGED plan,
           due' \subseteq Requests, checking' \in [Workers -> Requests \cup {NoRequest}],
           \A q \in Requests :
               /\ check'[q].state = check[q].state /\ check'[q].result = check[q].result
               /\ check'[q].refreshFailed = check[q].refreshFailed
    PROVE  /\ Inductive'
           /\ \A q \in Requests : RowIsKept(check[q], check'[q])
BY DEF Inductive, Typed, RowsAreSaved, RowIsSaved, NothingForgotten, RowIsKept

\* Rows that end are planned again, and no row loses its plan.
LEMMA PlanKeeps ==
    ASSUME Inductive, NEW S \in SUBSET Requests, plan' \in Replanned(S),
           \A q \in Requests : check'[q].state \in Ended => check[q].state \in Ended \/ q \in S
    PROVE  plan' \in Seq(Requests) /\ NothingForgotten'
<1>1. plan \in Seq(Requests)
  BY DEF Inductive, Typed
<1>2. plan' \in Seq(Requests) /\ (Rechecks => Range(plan') = Range(plan) \cup S)
  BY <1>1, ReplannedRange
<1> QED
  BY <1>2 DEF Inductive, NothingForgotten

LEMMA ClaimsKeep ==
    ASSUME Inductive, NEW w \in Workers, Claims(w)
    PROVE  /\ Inductive'
           /\ \A q \in Requests : RowIsKept(check[q], check'[q])
<1>1. /\ plan' \in Replanned(GivenUp) /\ due' \subseteq Requests
      /\ GivenUp \subseteq Requests
  BY DEF Claims, ClaimSchedules, ClaimNothing, PlannedAgain, GivenUp, Inductive, Typed
<1>2. /\ check' \in [Requests -> Check]
      /\ checking' \in [Workers -> Requests \cup {NoRequest}]
      /\ \A q \in Requests :
            /\ RowIsSaved(check'[q]) /\ check'[q].result = check[q].result
            /\ check'[q].state \in Ended => check[q].state \in Ended \/ q \in GivenUp
  <2>1. CASE ClaimNothing(w)
    BY <2>1, ReapedRows DEF ClaimNothing, Inductive, Typed
  <2>2. CASE ClaimSchedules(w)
    <3>1. PICK q \in Claimable :
            /\ check' = [Reaped EXCEPT ![q] =
                   [@ EXCEPT !.state = "running", !.attempt = Attempt(check[q]),
                             !.holder = w, !.lease = "live"]]
            /\ checking' = [checking EXCEPT ![w] = q]
      BY <2>2 DEF ClaimSchedules
    <3> DEFINE new == [Reaped[q] EXCEPT !.state = "running", !.attempt = Attempt(check[q]),
                                        !.holder = w, !.lease = "live"]
    <3>2. /\ q \in Requests /\ new \in Check
          /\ RowIsSaved(new) /\ new.result = check[q].result /\ new.state \notin Ended
      BY ClaimedRow
    <3>3. check' = [Reaped EXCEPT ![q] = new]
      BY <3>1
    <3> HIDE DEF new
    <3> QED
      BY <3>1, <3>2, <3>3, ReapedRows DEF Inductive, Typed
  <2> QED
    BY <2>1, <2>2 DEF Claims
<1>3. plan' \in Seq(Requests) /\ NothingForgotten'
  BY <1>1, <1>2, PlanKeeps
<1> QED
  BY <1>1, <1>2, <1>3 DEF Inductive, Typed, RowsAreSaved, RowIsKept

LEMMA FinishKeeps ==
    ASSUME Inductive, NEW w \in Workers, NEW outcome \in Ended, FinishSchedules(w, outcome)
    PROVE  /\ Inductive'
           /\ \A q \in Requests : RowIsKept(check[q], check'[q])
<1> DEFINE q == checking[w]
<1>1. q \in Requests
  BY DEF FinishSchedules, Inductive, Typed
<1>2. checking' \in [Workers -> Requests \cup {NoRequest}]
  BY DEF FinishSchedules, Inductive, Typed
<1>3. CASE Saves(w, q)
  <2> DEFINE new == Saved(check[q], outcome)
  <2>1. /\ check' = [check EXCEPT ![q] = new]
        /\ plan' \in Replanned({q}) /\ due' = due \ {q}
    BY <1>3 DEF FinishSchedules
  <2>2. check[q] \in Check /\ RowIsSaved(check[q])
    BY <1>1 DEF Inductive, Typed, RowsAreSaved
  <2>3. new \in Check /\ RowIsSaved(new) /\ RowIsKept(check[q], new)
    BY <2>2, SavedRow
  <2> HIDE DEF new, q
  <2>4. /\ check' \in [Requests -> Check] /\ RowsAreSaved'
        /\ \A p \in Requests : RowIsKept(check[p], check'[p])
        /\ \A p \in Requests : p # q => check'[p] = check[p]
    BY <1>1, <2>1, <2>3 DEF Inductive, Typed, RowsAreSaved, RowIsKept
  <2>5. plan' \in Seq(Requests) /\ NothingForgotten'
    BY <1>1, <2>1, <2>4, PlanKeeps
  <2> QED
    BY <1>2, <2>1, <2>4, <2>5 DEF Inductive, Typed
<1>4. CASE ~Saves(w, q)
  BY <1>2, <1>4, OthersKeep DEF FinishSchedules, Inductive, Typed
<1> QED
  BY <1>3, <1>4

LEMMA NextKeeps ==
    ASSUME Inductive, [ChecksNext]_checksVars
    PROVE  /\ Inductive'
           /\ \A q \in Requests : RowIsKept(check[q], check'[q])
<1>1. CASE UNCHANGED checksVars
  BY <1>1, OthersKeep DEF checksVars, Inductive, Typed
<1>2. ASSUME NEW q \in Requests, GraphFinishes(q) \/ Expires(q) \/ Cancels(q) \/ BecomesDue(q)
      PROVE  /\ Inductive'
             /\ \A p \in Requests : RowIsKept(check[p], check'[p])
  BY <1>2, OthersKeep DEF GraphFinishes, Expires, Cancels, BecomesDue, Inductive, Typed
<1>3. ASSUME NEW q \in Requests, LeaseLapses(q)
      PROVE  /\ Inductive'
             /\ \A p \in Requests : RowIsKept(check[p], check'[p])
  <2>1. check[q] \in Check
    BY DEF Inductive, Typed
  <2> DEFINE new == [check[q] EXCEPT !.lease = "lapsed"]
  <2>2. /\ new \in Check /\ new.state = check[q].state /\ new.result = check[q].result
        /\ new.refreshFailed = check[q].refreshFailed
    BY <2>1 DEF Check
  <2>3. check' = [check EXCEPT ![q] = new] /\ UNCHANGED <<plan, due, checking>>
    BY <1>3 DEF LeaseLapses
  <2> HIDE DEF new
  <2> QED
    BY <2>2, <2>3, OthersKeep DEF Inductive, Typed
<1>4. ASSUME NEW w \in Workers, WorkerStops(w)
      PROVE  /\ Inductive'
             /\ \A p \in Requests : RowIsKept(check[p], check'[p])
  BY <1>4, OthersKeep DEF WorkerStops, Inductive, Typed
<1> QED
  BY <1>1, <1>2, <1>3, <1>4, ClaimsKeep, FinishKeeps DEF ChecksNext, Finishes

\* A process that was overtaken leaves its check without a trace.
OvertakenSaveNothing ==
    \A w \in overtaken : checking'[w] # checking[w] => UNCHANGED <<check, plan, due>>

\* The rows of S, whoever was at them, are under no token or that of w; the others are as they were.
LEMMA ClaimsOvertake ==
    ASSUME Inductive, TokensGone, NEW w \in Workers, checking[w] = NoRequest,
           NEW S \in SUBSET Requests, overtaken' = Overtaken(S),
           \A v \in Workers : v # w => checking'[v] = checking[v],
           \A q \in Requests : \/ q \notin S /\ check'[q].holder = check[q].holder
                               \/ check'[q].holder \in {NoWorker, w}
    PROVE  TokensGone' /\ OvertakenSaveNothing
<1>1. w \notin overtaken
  BY NoRequestAssumption DEF TokensGone
<1>2. OvertakenSaveNothing
  BY <1>1 DEF TokensGone, OvertakenSaveNothing
<1>3. ASSUME NEW v \in overtaken'
      PROVE  v \in Workers /\ checking'[v] \in Requests /\ check'[checking'[v]].holder # v
  <2>1. /\ v \in Workers /\ checking[v] \in Requests
        /\ checking[v] \in S \/ check[checking[v]].holder # v
    BY <1>3 DEF Overtaken, TokensGone
  <2>2. v # w /\ v # NoWorker
    BY <2>1, NoRequestAssumption, NoWorkerAssumption
  <2> QED
    BY <2>1, <2>2
<1> QED
  BY <1>2, <1>3 DEF TokensGone

LEMMA TokensStay ==
    ASSUME Inductive, TokensGone, [ChecksNext]_checksVars
    PROVE  TokensGone' /\ OvertakenSaveNothing
<1>1. CASE UNCHANGED <<check, checking, overtaken>>
  BY <1>1 DEF TokensGone, OvertakenSaveNothing
<1>2. ASSUME NEW q \in Requests, LeaseLapses(q)
      PROVE  TokensGone' /\ OvertakenSaveNothing
  <2>1. /\ \A p \in Requests : check'[p].holder = check[p].holder
        /\ UNCHANGED <<checking, overtaken>>
    BY <1>2 DEF LeaseLapses, Inductive, Typed, Check
  <2> QED
    BY <2>1 DEF TokensGone, OvertakenSaveNothing
<1>3. \A q \in Requests : Reaped[q].holder = IF q \in GivenUp THEN NoWorker ELSE check[q].holder
  BY DEF Reaped, Inductive, Typed, Check
<1>4. ASSUME NEW w \in Workers, ClaimNothing(w)
      PROVE  TokensGone' /\ OvertakenSaveNothing
  BY <1>3, <1>4, ClaimsOvertake DEF ClaimNothing, GivenUp
<1>5. ASSUME NEW w \in Workers, ClaimSchedules(w)
      PROVE  TokensGone' /\ OvertakenSaveNothing
  <2>1. PICK q \in Claimable :
          /\ check' = [Reaped EXCEPT ![q] =
                 [@ EXCEPT !.state = "running", !.attempt = Attempt(check[q]),
                           !.holder = w, !.lease = "live"]]
          /\ checking' = [checking EXCEPT ![w] = q]
          /\ overtaken' = Overtaken(GivenUp \cup {q})
    BY <1>5 DEF ClaimSchedules
  <2>2. q \in Requests /\ GivenUp \in SUBSET Requests
    BY ClaimedRow DEF GivenUp
  <2>3. Reaped \in [Requests -> Check]
    BY ReapedRows
  <2>4. /\ check'[q].holder = w
        /\ \A p \in Requests : p # q => check'[p] = Reaped[p]
    BY <2>1, <2>2, <2>3 DEF Check
  <2>5. \A p \in Requests : \/ p \notin GivenUp \cup {q} /\ check'[p].holder = check[p].holder
                            \/ check'[p].holder \in {NoWorker, w}
    BY <1>3, <2>4
  <2>6. \A v \in Workers : v # w => checking'[v] = checking[v]
    BY <2>1 DEF Inductive, Typed
  <2>7. checking[w] = NoRequest /\ GivenUp \cup {q} \in SUBSET Requests
    BY <1>5, <2>2 DEF ClaimSchedules
  <2> QED
    BY <2>1, <2>5, <2>6, <2>7, ClaimsOvertake
<1>6. ASSUME NEW w \in Workers, NEW outcome \in Ended, FinishSchedules(w, outcome)
      PROVE  TokensGone' /\ OvertakenSaveNothing
  <2> DEFINE q == checking[w]
  <2>1. q \in Requests /\ check[q] \in Check
    BY <1>6 DEF FinishSchedules, Inductive, Typed
  <2>2. /\ overtaken' = overtaken \ {w}
        /\ \A v \in Workers : v # w => checking'[v] = checking[v]
    BY <1>6 DEF FinishSchedules, Inductive, Typed
  <2>3. \A p \in Requests : check'[p].holder \in {check[p].holder, NoWorker}
    <3>1. CASE Saves(w, q)
      <4>1. check' = [check EXCEPT ![q] = Saved(check[q], outcome)]
        BY <1>6, <3>1 DEF FinishSchedules
      <4>2. Saved(check[q], outcome).holder = NoWorker
        BY <2>1 DEF Saved, Check
      <4> QED
        BY <4>1, <4>2 DEF Inductive, Typed
    <3>2. CASE ~Saves(w, q)
      BY <1>6, <3>2 DEF FinishSchedules
    <3> QED
      BY <3>1, <3>2
  <2>4. TokensGone'
    BY <2>2, <2>3, NoWorkerAssumption DEF TokensGone
  <2>5. w \in overtaken => ~Saves(w, q)
    BY DEF TokensGone, Saves, Holds
  <2>6. w \in overtaken => UNCHANGED <<check, plan, due>>
    BY <1>6, <2>5 DEF FinishSchedules
  <2>7. OvertakenSaveNothing
    BY <2>2, <2>6 DEF TokensGone, OvertakenSaveNothing
  <2> QED
    BY <2>4, <2>7
<1>7. ASSUME NEW w \in Workers, WorkerStops(w)
      PROVE  TokensGone' /\ OvertakenSaveNothing
  BY <1>7 DEF WorkerStops, TokensGone, OvertakenSaveNothing, Inductive, Typed
<1>8. CASE UNCHANGED checksVars
  BY <1>1, <1>8 DEF checksVars
<1>9. CASE \E q \in Requests : GraphFinishes(q) \/ Expires(q) \/ Cancels(q) \/ BecomesDue(q)
  BY <1>1, <1>9 DEF GraphFinishes, Expires, Cancels, BecomesDue
<1> QED
  BY <1>2, <1>4, <1>5, <1>6, <1>7, <1>8, <1>9 DEF ChecksNext, Claims, Finishes

LEMMA InitTokens == ChecksInit => TokensGone
BY DEF ChecksInit, TokensGone

LEMMA AlwaysInductive == ChecksSpec => [](Inductive /\ TokensGone)
BY InitInductive, NextKeeps, InitTokens, TokensStay, PTL DEF ChecksSpec

(***************************************************************************)
(* A check shown as done has a good report behind it, and a failed refresh *)
(* is only reported beside a report, for any number of failed, abandoned   *)
(* and repeated checks (FinishSchedules, readSchedules).                   *)
(***************************************************************************)
THEOREM DoneHasReport == ChecksSpec => []ShownIsSaved
<1>1. Inductive => ShownIsSaved
  BY DEF Inductive, RowsAreSaved, RowIsSaved, ShownIsSaved, Shown
<1> QED
  BY <1>1, AlwaysInductive, PTL

(***************************************************************************)
(* With re-checks on, every check that has ended, by itself or given up by *)
(* a later claim, has its next one planned (ClaimSchedules).               *)
(***************************************************************************)
THEOREM EndedIsPlanned == ChecksSpec => []NothingForgotten
<1>1. Inductive => NothingForgotten
  BY DEF Inductive
<1> QED
  BY <1>1, AlwaysInductive, PTL

(***************************************************************************)
(* A saved report only makes way for a good one, also when checks fail or  *)
(* are given up, and a process whose check was claimed by another, or      *)
(* given up, since it began saves nothing: no older outcome takes the      *)
(* place of a newer one (FinishSchedules).                                 *)
(***************************************************************************)
THEOREM ReportsAreKept == ChecksSpec => ReportKept
<1>1. Inductive /\ TokensGone /\ [ChecksNext]_checksVars =>
          [/\ \A q \in Requests :
                 check[q].result # "none" => check'[q].result \in {check[q].result, "done"}
           /\ \A w \in overtaken :
                 checking'[w] # checking[w] => UNCHANGED <<check, plan, due>>]_checksVars
  BY NextKeeps, TokensStay DEF RowIsKept, OvertakenSaveNothing
<1> QED
  BY <1>1, AlwaysInductive, PTL DEF ChecksSpec, ReportKept

------------------------------------------------------------------------------
(***************************************************************************)
(* What narrowing relies on: the places it keeps are of the timetable it   *)
(* started from, and so far none of a journey has been dropped.            *)
(***************************************************************************)
Windows ==
    /\ timetable \in Timetables
    /\ leg \in Legs
    /\ left \in [Legs -> SUBSET Nat]
    /\ NarrowingIsSafe

LEMMA PlacesAreNumbers ==
    ASSUME NEW t \in Timetables, NEW k \in Legs
    PROVE  DOMAIN t[k] \subseteq Nat
BY TimetablesAssumption

(* The two times of a departure are numbers. *)
LEMMA TimesAreNumbers ==
    ASSUME NEW t \in Timetables, NEW k \in Legs, NEW i \in DOMAIN t[k]
    PROVE  t[k][i].dep \in Int /\ t[k][i].arr \in Int
<1>1. t[k] \in Seq([dep : Int, arr : Int])
  BY TimetablesAssumption
<1>2. i \in 1..Len(t[k])
  BY <1>1
<1>3. t[k][i] \in [dep : Int, arr : Int]
  BY <1>1, <1>2, ElementOfSeq
<1> QED
  BY <1>3

(* A departure that a journey takes lies in the window the next one opens. *)
LEMMA ConnectionInWindow ==
    ASSUME timetable \in Timetables, left \in [Legs -> SUBSET Nat],
           NEW p \in Compatible, NEW k \in Legs, k + 1 \in Legs,
           p[k] \in left[k], p[k + 1] \in left[k + 1]
    PROVE  p[k] \in FilterByArrival(k)
<1> DEFINE d == timetable[k][p[k]].arr
           e == timetable[k + 1][p[k + 1]].dep
           r == ConnectionRequirement(k)
<1>0. k \in Nat /\ k + 1 \in Legs \ {1} /\ (k + 1) - 1 = k /\ k # Len(Main)
  BY LimitsAssumption DEF Legs
<1>1. p[k] \in DOMAIN timetable[k] /\ p[k + 1] \in DOMAIN timetable[k + 1]
  BY DEF Compatible
<1>2. d \in Int /\ e \in Int
  BY <1>1, TimesAreNumbers
<1>3. r \in Nat /\ MaxConnection \in Nat
  BY <1>0, DurationsAssumption, LimitsAssumption
<1>4. e - d >= r /\ e - d <= MaxConnection
  BY <1>0 DEF Compatible, Journey, At
<1> HIDE DEF d, e, r
<1>5. d >= e - MaxConnection /\ d <= e - r
  BY <1>2, <1>3, <1>4
<1> QED
  BY <1>5 DEF FilterByArrival, d, e, r

(* The first departure of a journey lies in the window of the request. *)
LEMMA StartInWindow ==
    ASSUME timetable \in Timetables, NEW p \in Compatible, p[1] \in left[1]
    PROVE  p[1] \in FilterByDeparture(From + LegZeroOffset, End + LegZeroOffset)
<1>1. 1 \in Legs
  BY LimitsAssumption DEF Legs
<1>2. p[1] \in DOMAIN timetable[1]
  BY <1>1 DEF Compatible
<1>3. timetable[1][p[1]].dep \in Int /\ LegZeroOffset \in Nat /\ From \in Int /\ End \in Int
  BY <1>1, <1>2, TimesAreNumbers, DurationsAssumption, LimitsAssumption
<1>4. /\ From <= timetable[1][p[1]].dep - LegZeroOffset
      /\ timetable[1][p[1]].dep - LegZeroOffset < End
  BY DEF Compatible, Journey, StartOf, At
<1>5. /\ From + LegZeroOffset <= timetable[1][p[1]].dep
      /\ timetable[1][p[1]].dep < End + LegZeroOffset
  BY <1>3, <1>4
<1> QED
  BY <1>5 DEF FilterByDeparture

(* The journeys of a timetable do not depend on the walk. *)
LEMMA JourneysStay ==
    ASSUME UNCHANGED timetable
    PROVE  Compatible' = Compatible
BY DEF Compatible, Journey, StartOf, At

LEMMA WindowsInit == Init => Windows
<1> SUFFICES ASSUME Init PROVE Windows
  OBVIOUS
<1>1. timetable \in Timetables /\ leg \in Legs
  BY LimitsAssumption DEF Init, Legs
<1>2. left \in [Legs -> SUBSET Nat]
  BY <1>1, PlacesAreNumbers DEF Init
<1>3. NarrowingIsSafe
  BY DEF Init, NarrowingIsSafe, Compatible
<1> QED
  BY <1>1, <1>2, <1>3 DEF Windows

LEMMA WindowsStep == Windows /\ [Next]_vars => Windows'
<1> SUFFICES ASSUME Windows, [Next]_vars PROVE Windows'
  OBVIOUS
<1> USE DEF Windows
<1>1. CASE NarrowLeg
  <2>1. leg - 1 \in Legs /\ (leg - 1) + 1 = leg /\ leg' \in Legs
    BY <1>1, LimitsAssumption DEF NarrowLeg, Legs
  <2>2. timetable' = timetable /\ left' = [left EXCEPT ![leg - 1] = FilterByArrival(leg - 1)]
    BY <1>1 DEF NarrowLeg
  <2>3. left' \in [Legs -> SUBSET Nat]
    BY <2>1, <2>2 DEF FilterByArrival
  <2>4. ASSUME NEW p \in Compatible, NEW k \in Legs PROVE p[k] \in left'[k]
    <3>1. \A j \in Legs : p[j] \in left[j]
      BY <2>4 DEF NarrowingIsSafe
    <3>2. CASE k = leg - 1
      <4>1. p[leg - 1] \in FilterByArrival(leg - 1)
        BY <2>1, <3>1, ConnectionInWindow
      <4> QED
        BY <2>1, <2>2, <3>2, <4>1
    <3>3. CASE k # leg - 1
      BY <2>1, <2>2, <3>1, <3>3
    <3> QED
      BY <3>2, <3>3
  <2> QED
    BY <2>1, <2>2, <2>3, <2>4, JourneysStay DEF NarrowingIsSafe
<1>2. CASE NarrowStart
  <2>1. 1 \in Legs
    BY LimitsAssumption DEF Legs
  <2>2. /\ timetable' = timetable /\ leg' = leg
        /\ left' = [left EXCEPT ![1] =
               FilterByDeparture(From + LegZeroOffset, End + LegZeroOffset)]
    BY <1>2 DEF NarrowStart
  <2>3. left' \in [Legs -> SUBSET Nat]
    BY <2>1, <2>2 DEF FilterByDeparture
  <2>4. ASSUME NEW p \in Compatible, NEW k \in Legs PROVE p[k] \in left'[k]
    <3>1. \A j \in Legs : p[j] \in left[j]
      BY <2>4 DEF NarrowingIsSafe
    <3>2. p[1] \in FilterByDeparture(From + LegZeroOffset, End + LegZeroOffset)
      BY <2>1, <3>1, StartInWindow
    <3> QED
      BY <2>1, <2>2, <3>1, <3>2
  <2> QED
    BY <2>2, <2>3, <2>4, JourneysStay DEF NarrowingIsSafe
<1>3. CASE UNCHANGED <<timetable, leg, left>>
  BY <1>3, JourneysStay DEF NarrowingIsSafe
<1>4. CASE Walk
  BY <1>3, <1>4 DEF Walk
<1>5. CASE Report
  BY <1>3, <1>5 DEF Report
<1>6. CASE Expire
  BY <1>3, <1>6 DEF Expire
<1>7. CASE UNCHANGED vars
  BY <1>3, <1>7 DEF vars
<1> QED
  BY <1>1, <1>2, <1>4, <1>5, <1>6, <1>7 DEF Next, Search

(***************************************************************************)
(* narrowWindows never drops a departure of a journey that can be made, so *)
(* the windowed matcher has all of them to walk (match.go:166-176).        *)
(***************************************************************************)
THEOREM WindowsAreSafe == Spec => []NarrowingIsSafe
<1>1. Windows => NarrowingIsSafe
  BY DEF Windows
<1> QED
  BY <1>1, WindowsInit, WindowsStep, PTL DEF Spec
\* A set of numbers has a smallest one.
LEMMA Smallest ==
    ASSUME NEW S \in SUBSET Nat, S # {}
    PROVE  \E m \in S : \A j \in S : m <= j
<1>1. IsWellFoundedOn(OpToRel(<, Nat), Nat)
  BY NatLessThanWellFounded
<1>2. PICK m \in S : \A j \in S : <<j, m>> \notin OpToRel(<, Nat)
  BY <1>1, WFMin
<1>3. ASSUME NEW j \in S PROVE m <= j
  <2>1. <<j, m>> \in Nat \X Nat /\ <<j, m>>[1] = j /\ <<j, m>>[2] = m
    OBVIOUS
  <2>2. ~(j < m)
    BY <1>2, <2>1 DEF OpToRel
  <2> QED  BY <2>2
<1> QED  BY <1>3

(***************************************************************************)
(* The order in which the walk meets journeys: by the place on the first   *)
(* leg on which they differ. A path is a beginning of a journey.           *)
(***************************************************************************)
N == Len(Main)

Places == [Legs -> Nat]

Paths == {s \in Seq(Nat) : Len(s) <= N}

Agrees(p, s) == \A i \in 1..Len(s) : p[i] = s[i]

\* p comes before every journey that begins with s.
Under(p, s) == \E k \in 1..Len(s) : (\A i \in 1..(k - 1) : p[i] = s[i]) /\ p[k] < s[k]

Less(p, q) == \E k \in Legs : (\A i \in 1..(k - 1) : p[i] = q[i]) /\ p[k] < q[k]

LEMMA LegsAre == N \in Nat /\ N >= 1 /\ Legs = 1..N
BY LimitsAssumption DEF N, Legs

LEMMA PathIs ==
    ASSUME NEW s \in Paths
    PROVE  /\ Len(s) \in 0..N /\ DOMAIN s = 1..Len(s)
           /\ \A i \in 1..Len(s) : i \in Legs /\ s[i] \in Nat
BY LegsAre DEF Paths

LEMMA Longer ==
    ASSUME NEW s \in Paths, Len(s) < N, NEW c \in Nat
    PROVE  /\ Append(s, c) \in Paths /\ Len(Append(s, c)) = Len(s) + 1
           /\ \A i \in 1..Len(s) : Append(s, c)[i] = s[i]
           /\ Append(s, c)[Len(s) + 1] = c
<1>1. s \in Seq(Nat)
  BY DEF Paths
<1>2. /\ Append(s, c) \in Seq(Nat) /\ Len(Append(s, c)) = Len(s) + 1
      /\ \A i \in 1..Len(s) : Append(s, c)[i] = s[i]
      /\ Append(s, c)[Len(s) + 1] = c
  BY <1>1, AppendProperties
<1>3. Len(s) + 1 <= N
  BY LegsAre, PathIs
<1> QED  BY <1>2, <1>3 DEF Paths

LEMMA Shorter ==
    ASSUME NEW s \in Paths, s # <<>>
    PROVE  /\ Front(s) \in Paths /\ Len(Front(s)) = Len(s) - 1 /\ Len(Front(s)) < N
           /\ Last(s) \in Nat /\ s = Append(Front(s), Last(s))
           /\ \A i \in 1..(Len(s) - 1) : Front(s)[i] = s[i]
<1>1. s \in Seq(Nat) /\ Len(s) \in Nat \ {0} /\ Len(s) <= N
  BY EmptySeq DEF Paths
<1>2. \A i \in 1..(Len(s) - 1) : s[i] \in Nat
  BY <1>1, ElementOfSeq
<1>3. /\ Front(s) \in Seq(Nat)
      /\ Len(Front(s)) = IF 1 <= Len(s) - 1 THEN (Len(s) - 1) - 1 + 1 ELSE 0
      /\ \A i \in 1..((Len(s) - 1) - 1 + 1) : Front(s)[i] = s[1 + i - 1]
  BY <1>1, <1>2, SubSeqProperties DEF Front
<1>4. Len(Front(s)) = Len(s) - 1 /\ \A i \in 1..(Len(s) - 1) : Front(s)[i] = s[i]
  <2>1. Len(Front(s)) = Len(s) - 1
    <3> DEFINE l == Len(s)
    <3>1. l \in Nat /\ l >= 1
      BY <1>1
    <3>2. Len(Front(s)) = IF 1 <= l - 1 THEN (l - 1) - 1 + 1 ELSE 0
      BY <1>3
    <3> HIDE DEF l
    <3>3. (IF 1 <= l - 1 THEN (l - 1) - 1 + 1 ELSE 0) = l - 1
      BY <3>1
    <3> QED  BY <3>2, <3>3 DEF l
  <2>2. ASSUME NEW i \in 1..(Len(s) - 1) PROVE Front(s)[i] = s[i]
    <3>1. i \in 1..((Len(s) - 1) - 1 + 1) /\ 1 + i - 1 = i
      BY <1>1
    <3> QED  BY <1>3, <3>1
  <2> QED  BY <2>1, <2>2
<1>5. Last(s) \in Nat
  BY <1>1, ElementOfSeq DEF Last
<1>6. /\ Append(Front(s), Last(s)) \in Seq(Nat) /\ Len(Append(Front(s), Last(s))) = Len(s)
      /\ \A i \in 1..(Len(s) - 1) : Append(Front(s), Last(s))[i] = Front(s)[i]
      /\ Append(Front(s), Last(s))[Len(s)] = Last(s)
  BY <1>1, <1>3, <1>4, <1>5, AppendProperties
<1>7. \A i \in 1..Len(s) : Append(Front(s), Last(s))[i] = s[i]
  BY <1>1, <1>4, <1>6 DEF Last
<1>8. Append(Front(s), Last(s)) = s
  BY <1>1, <1>6, <1>7, SeqEqual
<1> QED  BY <1>1, <1>3, <1>4, <1>5, <1>8, LegsAre DEF Paths

\* What comes before a longer path.
LEMMA UnderLonger ==
    ASSUME NEW s \in Paths, Len(s) < N, NEW c \in Nat, NEW p \in Places
    PROVE  /\ Under(p, Append(s, c)) <=> Under(p, s) \/ (Agrees(p, s) /\ p[Len(s) + 1] < c)
           /\ Agrees(p, Append(s, c)) <=> Agrees(p, s) /\ p[Len(s) + 1] = c
<1> DEFINE t == Append(s, c)
           n == Len(s)
<1>1. /\ Len(t) = n + 1 /\ n \in Nat /\ t[n + 1] = c
      /\ \A i \in 1..n : t[i] = s[i]
  BY Longer, PathIs
<1> HIDE DEF t, n
<1>2. ASSUME Under(p, t) PROVE Under(p, s) \/ (Agrees(p, s) /\ p[n + 1] < c)
  <2>1. PICK k \in 1..(n + 1) : (\A i \in 1..(k - 1) : p[i] = t[i]) /\ p[k] < t[k]
    BY <1>1, <1>2 DEF Under
  <2>2. CASE k = n + 1
    BY <1>1, <2>1, <2>2 DEF Agrees, n
  <2>3. CASE k \in 1..n
    <3>1. \A i \in 1..(k - 1) : i \in 1..n
      BY <1>1, <2>3
    <3> QED  BY <1>1, <2>1, <2>3, <3>1 DEF Under, n
  <2> QED  BY <1>1, <2>1, <2>2, <2>3
<1>3. ASSUME Under(p, s) PROVE Under(p, t)
  <2>1. PICK k \in 1..n : (\A i \in 1..(k - 1) : p[i] = s[i]) /\ p[k] < s[k]
    BY <1>3 DEF Under, n
  <2>2. \A i \in 1..(k - 1) : i \in 1..n
    BY <1>1, <2>1
  <2>3. k \in 1..(n + 1)
    BY <1>1, <2>1
  <2> QED  BY <1>1, <2>1, <2>2, <2>3 DEF Under
<1>4. ASSUME Agrees(p, s), p[n + 1] < c PROVE Under(p, t)
  <2>1. n + 1 \in 1..(n + 1) /\ (n + 1) - 1 = n
    BY <1>1
  <2> QED  BY <1>1, <1>4, <2>1 DEF Under, Agrees, n
<1>5. Agrees(p, t) <=> Agrees(p, s) /\ p[n + 1] = c
  <2>1. 1..(n + 1) = 1..n \cup {n + 1}
    BY <1>1
  <2> QED  BY <1>1, <2>1 DEF Agrees, n
<1> QED  BY <1>2, <1>3, <1>4, <1>5 DEF n, t

\* What comes before the place after that of a path.
LEMMA UnderNext ==
    ASSUME NEW s \in Paths, s # <<>>, NEW p \in Places
    PROVE  Under(p, Append(Front(s), Last(s) + 1)) <=> Under(p, s) \/ Agrees(p, s)
<1> DEFINE f == Front(s)
           c == Last(s)
<1>1. f \in Paths /\ Len(f) < N /\ c \in Nat /\ s = Append(f, c)
  BY Shorter
<1> HIDE DEF f, c
<1>2. Len(f) + 1 \in Legs
  BY <1>1, LegsAre, PathIs
<1>3. p[Len(f) + 1] \in Nat
  BY <1>2 DEF Places
<1>4. p[Len(f) + 1] < c + 1 <=> p[Len(f) + 1] < c \/ p[Len(f) + 1] = c
  BY <1>1, <1>3
<1>5. /\ Under(p, s) <=> Under(p, f) \/ (Agrees(p, f) /\ p[Len(f) + 1] < c)
      /\ Agrees(p, s) <=> Agrees(p, f) /\ p[Len(f) + 1] = c
  BY <1>1, UnderLonger
<1>6. c + 1 \in Nat
  BY <1>1
<1>7. Under(p, Append(f, c + 1)) <=> Under(p, f) \/ (Agrees(p, f) /\ p[Len(f) + 1] < c + 1)
  BY <1>1, <1>6, UnderLonger
<1> QED  BY <1>4, <1>5, <1>7 DEF f, c

\* A journey before a path comes before all that are not.
LEMMA BeforePath ==
    ASSUME NEW s \in Paths, NEW p \in Places, NEW q \in Places, Under(p, s), ~Under(q, s)
    PROVE  Less(p, q)
<1>1. PICK k \in 1..Len(s) : (\A i \in 1..(k - 1) : p[i] = s[i]) /\ p[k] < s[k]
  BY DEF Under
<1>2. k \in Legs /\ k \in Nat /\ k >= 1 /\ k <= N /\ s[k] \in Nat /\ p[k] \in Nat /\ q[k] \in Nat
  BY <1>1, PathIs, LegsAre DEF Places
<1>3. \A i \in 1..(k - 1) : i \in 1..Len(s) /\ i \in Legs /\ s[i] \in Nat /\ p[i] \in Nat /\ q[i] \in Nat
  BY <1>1, <1>2, PathIs DEF Places
<1> DEFINE D == {i \in 1..k : q[i] # s[i]}
<1>4. CASE D = {}
  <2>1. \A i \in 1..k : q[i] = s[i]
    BY <1>4
  <2>2. k \in 1..k /\ \A i \in 1..(k - 1) : i \in 1..k
    BY <1>2
  <2> QED  BY <1>1, <1>2, <2>1, <2>2 DEF Less
<1>5. CASE D # {}
  <2>0. D \in SUBSET Nat
    BY <1>2
  <2>1. PICK m \in D : \A j \in D : m <= j
    BY <2>0, <1>5, Smallest
  <2>2. m \in 1..k /\ m \in Nat /\ m <= k /\ m \in 1..Len(s) /\ m \in Legs /\ q[m] # s[m]
    BY <1>1, <1>2, <1>3, <2>1
  <2>3. \A i \in 1..(m - 1) : i \in 1..(k - 1) /\ i \in 1..k /\ i < m /\ i \in Nat
    BY <1>2, <2>2
  <2>4. \A i \in 1..(m - 1) : q[i] = s[i]
    <3> SUFFICES ASSUME NEW i \in 1..(m - 1), q[i] # s[i] PROVE FALSE
      OBVIOUS
    <3>1. i \in D /\ i < m /\ i \in Nat
      BY <2>3
    <3> QED  BY <2>1, <2>2, <3>1
  <2>5. ~(q[m] < s[m])
    BY <2>2, <2>4 DEF Under
  <2>6. q[m] \in Nat /\ s[m] \in Nat /\ p[m] \in Nat
    BY <2>2, PathIs DEF Places
  <2>7. p[m] <= s[m]
    <3>1. CASE m = k
      BY <1>1, <1>2, <2>6, <3>1
    <3>2. CASE m \in 1..(k - 1)
      BY <1>1, <2>6, <3>2
    <3> QED  BY <1>2, <2>2, <3>1, <3>2
  <2>8. p[m] < q[m]
    BY <2>2, <2>5, <2>6, <2>7
  <2>9. \A i \in 1..(m - 1) : p[i] = q[i]
    BY <1>1, <2>3, <2>4
  <2> QED  BY <2>2, <2>8, <2>9 DEF Less
<1> QED  BY <1>4, <1>5

LEMMA LessNotSame == \A p \in Places : ~Less(p, p)
BY DEF Less, Places

LEMMA LessThanAll ==
    ASSUME NEW p \in Places, NEW q \in Places, NEW r \in Places, Less(p, q), Less(q, r)
    PROVE  Less(p, r)
<1>1. PICK k \in Legs : (\A i \in 1..(k - 1) : p[i] = q[i]) /\ p[k] < q[k]
  BY DEF Less
<1>2. PICK l \in Legs : (\A i \in 1..(l - 1) : q[i] = r[i]) /\ q[l] < r[l]
  BY DEF Less
<1>3. k \in Nat /\ l \in Nat /\ k >= 1 /\ l >= 1
  BY LegsAre
<1>4. \A i \in Legs : p[i] \in Nat /\ q[i] \in Nat /\ r[i] \in Nat
  BY DEF Places
<1>5. CASE k < l
  <2>1. k \in 1..(l - 1) /\ \A i \in 1..(k - 1) : i \in 1..(l - 1)
    BY <1>3, <1>5
  <2> QED  BY <1>1, <1>2, <2>1 DEF Less
<1>6. CASE l < k
  <2>1. l \in 1..(k - 1) /\ \A i \in 1..(l - 1) : i \in 1..(k - 1)
    BY <1>3, <1>6
  <2> QED  BY <1>1, <1>2, <2>1 DEF Less
<1>7. CASE k = l
  BY <1>1, <1>2, <1>4, <1>7 DEF Less
<1> QED  BY <1>3, <1>5, <1>6, <1>7

LEMMA OneIsLess ==
    ASSUME NEW p \in Places, NEW q \in Places, p # q
    PROVE  Less(p, q) \/ Less(q, p)
<1> DEFINE D == {i \in Legs : p[i] # q[i]}
<1>1. D # {}
  BY DEF Places
<1>2. D \in SUBSET Nat
  BY LegsAre
<1>3. PICK m \in D : \A j \in D : m <= j
  BY <1>1, <1>2, Smallest
<1>4. m \in Legs /\ m \in Nat /\ m >= 1 /\ m <= N /\ p[m] \in Nat /\ q[m] \in Nat /\ p[m] # q[m]
  BY <1>3, LegsAre DEF Places
<1>5. ASSUME NEW i \in 1..(m - 1) PROVE p[i] = q[i]
  <2>1. i \in Legs /\ i \in Nat /\ i < m
    BY <1>4, LegsAre
  <2> QED  BY <1>3, <1>4, <2>1
<1> QED  BY <1>4, <1>5 DEF Less

\* Only journeys before another have an earlier first departure.
LEMMA EarlierFirst ==
    ASSUME NEW p \in Places, NEW q \in Places
    PROVE  /\ p[1] < q[1] => Less(p, q)
           /\ Less(p, q) => p[1] <= q[1]
<1>1. 1 \in Legs /\ p[1] \in Nat /\ q[1] \in Nat
  BY LegsAre DEF Places
<1>2. ASSUME p[1] < q[1] PROVE Less(p, q)
  BY <1>1, <1>2 DEF Less
<1>3. ASSUME Less(p, q) PROVE p[1] <= q[1]
  <2>1. PICK k \in Legs : (\A i \in 1..(k - 1) : p[i] = q[i]) /\ p[k] < q[k]
    BY <1>3 DEF Less
  <2>2. k \in Nat /\ k >= 1
    BY LegsAre
  <2>3. CASE k = 1
    BY <1>1, <2>1, <2>3
  <2>4. CASE k > 1
    <3>1. 1 \in 1..(k - 1)
      BY <2>2, <2>4
    <3> QED  BY <1>1, <2>1, <3>1
  <2> QED  BY <2>2, <2>3, <2>4
<1> QED  BY <1>2, <1>3

(***************************************************************************)
(* What a search takes under its limits: a journey is taken unless the     *)
(* journeys before it, or those of its day with an earlier first           *)
(* departure, are as many as the limits allow.                             *)
(***************************************************************************)
StartIn(t, p) == t[1][p[1]].dep - LegZeroOffset

DayIn(t, p) == StartIn(t, p) \div DayLength

Fits(t, p) ==
    /\ From <= StartIn(t, p) /\ StartIn(t, p) < End
    /\ t[N][p[N]].arr + Leaving - StartIn(t, p) <= MaxJourney
    /\ \A k \in Legs \ {1} :
          /\ t[k][p[k]].dep - t[k - 1][p[k - 1]].arr >= ConnectionRequirement(k - 1)
          /\ t[k][p[k]].dep - t[k - 1][p[k - 1]].arr <= MaxConnection

JourneysOf(t) == {p \in Places : (\A k \in Legs : p[k] \in DOMAIN t[k]) /\ Fits(t, p)}

Earlier(js, p) == {i \in DOMAIN js : Less(js[i], p)}

EarlierThatDay(t, js, p) == {i \in DOMAIN js : js[i][1] < p[1] /\ DayIn(t, js[i]) = DayIn(t, p)}

DayHasRoom(t, js, p) ==
    MaxJourneysPerDay > 0 => Cardinality(EarlierThatDay(t, js, p)) < MaxJourneysPerDay

Taken(t, js, p) == Cardinality(Earlier(js, p)) < MaxJourneys /\ DayHasRoom(t, js, p)

InOrder(js) == \A i, j \in DOMAIN js : i < j => Less(js[i], js[j])

\* js is a list of journeys, in the order of the walk.
Met(t, js) == js \in Seq(Places) /\ InOrder(js) /\ \A i \in DOMAIN js : js[i] \in JourneysOf(t)

TakenOnly(t, js) == \A p \in JourneysOf(t) : p \in ToSet(js) <=> Taken(t, js, p)

LEMMA CompatibleAre ==
    ASSUME timetable \in Timetables
    PROVE  Compatible = JourneysOf(timetable)
<1>1. ASSUME NEW p PROVE Fits(timetable, p) <=> Journey(p)
  BY DEF Fits, StartIn, Journey, StartOf, At, N
<1>2. ASSUME NEW p \in Compatible PROVE p \in Places
  <2>1. \A k \in Legs : p[k] \in DOMAIN timetable[k] /\ DOMAIN timetable[k] \subseteq Nat
    BY PlacesAreNumbers DEF Compatible
  <2>2. p = [k \in Legs |-> p[k]]
    BY DEF Compatible
  <2> QED  BY <2>1, <2>2 DEF Places
<1>3. ASSUME NEW p \in JourneysOf(timetable) PROVE p \in [Legs -> UNION {DOMAIN timetable[k] : k \in Legs}]
  <2>1. \A k \in Legs : p[k] \in DOMAIN timetable[k]
    BY DEF JourneysOf
  <2>2. p = [k \in Legs |-> p[k]]
    BY DEF JourneysOf, Places
  <2> QED  BY <2>1, <2>2
<1>4. ASSUME NEW p \in Compatible PROVE p \in JourneysOf(timetable)
  BY <1>1, <1>2 DEF Compatible, JourneysOf
<1>5. ASSUME NEW p \in JourneysOf(timetable) PROVE p \in Compatible
  BY <1>1, <1>3 DEF Compatible, JourneysOf
<1> QED  BY <1>4, <1>5

\* Two lists that take the same journeys do not part.
LEMMA NoParting ==
    ASSUME NEW t, NEW a, NEW b, Met(t, a), Met(t, b), TakenOnly(t, a), TakenOnly(t, b),
           NEW i \in DOMAIN a, \A j \in 1..(i - 1) : j \in DOMAIN b /\ a[j] = b[j],
           i \notin DOMAIN b \/ Less(a[i], b[i])
    PROVE  FALSE
<1> DEFINE p == a[i]
<1>0. /\ DOMAIN a = 1..Len(a) /\ DOMAIN b = 1..Len(b) /\ Len(a) \in Nat /\ Len(b) \in Nat
      /\ \A j \in DOMAIN a : a[j] \in Places
      /\ \A j \in DOMAIN b : b[j] \in Places
  BY LenProperties, ElementOfSeq DEF Met
<1>1. p \in JourneysOf(t) /\ p \in Places /\ i \in Nat /\ i >= 1
  BY <1>0 DEF Met
<1>2. ASSUME NEW j \in DOMAIN b, j >= i PROVE Less(p, b[j])
  <2>1. j \in Nat /\ i \in DOMAIN b
    BY <1>0, <1>1, <1>2
  <2>2. Less(p, b[i])
    BY <2>1
  <2>3. CASE j = i
    BY <2>2, <2>3
  <2>4. CASE i < j
    <3>1. Less(b[i], b[j])
      BY <2>1, <2>4 DEF Met, InOrder
    <3> QED  BY <1>0, <1>1, <2>1, <2>2, <3>1, LessThanAll
  <2> QED  BY <1>1, <1>2, <2>1, <2>3, <2>4
<1>3. ASSUME NEW j \in DOMAIN b, j >= i PROVE ~Less(b[j], p)
  BY <1>0, <1>1, <1>2, <1>3, LessThanAll, LessNotSame
<1>4. ASSUME NEW j \in DOMAIN a, j >= i PROVE ~Less(a[j], p)
  <2>1. j \in Nat
    BY <1>0
  <2>2. CASE j = i
    BY <1>1, <2>2, LessNotSame
  <2>3. CASE i < j
    <3>1. Less(p, a[j])
      BY <2>3 DEF Met, InOrder
    <3> QED  BY <1>0, <1>1, <3>1, LessThanAll, LessNotSame
  <2> QED  BY <1>1, <1>4, <2>1, <2>2, <2>3
<1>5. ASSUME NEW j \in 1..(i - 1)
      PROVE  j \in DOMAIN a /\ j \in DOMAIN b /\ a[j] = b[j] /\ Less(a[j], p)
  <2>1. j \in DOMAIN a /\ j < i
    BY <1>0, <1>1
  <2> QED  BY <2>1 DEF Met, InOrder
<1>6. \A j \in DOMAIN a \cup DOMAIN b : j >= i \/ j \in 1..(i - 1)
  BY <1>0, <1>1
<1>7. Earlier(a, p) = 1..(i - 1) /\ Earlier(b, p) = 1..(i - 1)
  BY <1>3, <1>4, <1>5, <1>6 DEF Earlier
<1>8. EarlierThatDay(t, a, p) = EarlierThatDay(t, b, p)
  <2>1. \A j \in DOMAIN a : a[j][1] < p[1] => j \in 1..(i - 1)
    BY <1>0, <1>1, <1>4, <1>6, EarlierFirst
  <2>2. \A j \in DOMAIN b : b[j][1] < p[1] => j \in 1..(i - 1)
    BY <1>0, <1>1, <1>3, <1>6, EarlierFirst
  <2> QED  BY <1>5, <2>1, <2>2 DEF EarlierThatDay
<1>9. Taken(t, a, p) <=> Taken(t, b, p)
  BY <1>7, <1>8 DEF Taken, DayHasRoom
<1>10. p \in ToSet(a)
  BY DEF ToSet
<1>11. PICK j \in DOMAIN b : b[j] = p
  BY <1>1, <1>9, <1>10 DEF TakenOnly, ToSet
<1>12. CASE j >= i
  BY <1>1, <1>2, <1>11, <1>12, LessNotSame
<1>13. CASE j \in 1..(i - 1)
  BY <1>1, <1>5, <1>11, <1>13, LessNotSame
<1> QED  BY <1>6, <1>11, <1>12, <1>13

LEMMA SameLists ==
    ASSUME NEW t, NEW a, NEW b, Met(t, a), Met(t, b), TakenOnly(t, a), TakenOnly(t, b)
    PROVE  a = b
<1>0. /\ DOMAIN a = 1..Len(a) /\ DOMAIN b = 1..Len(b) /\ Len(a) \in Nat /\ Len(b) \in Nat
      /\ a \in Seq(Places) /\ b \in Seq(Places)
      /\ \A j \in DOMAIN a : a[j] \in Places
      /\ \A j \in DOMAIN b : b[j] \in Places
  BY LenProperties, ElementOfSeq DEF Met
<1> DEFINE Parts == {i \in DOMAIN a \cup DOMAIN b : ~(i \in DOMAIN a /\ i \in DOMAIN b /\ a[i] = b[i])}
<1>1. Parts \in SUBSET Nat
  BY <1>0
<1>2. Parts = {}
  <2> SUFFICES ASSUME Parts # {} PROVE FALSE
    OBVIOUS
  <2>1. PICK i \in Parts : \A j \in Parts : i <= j
    BY <1>1, Smallest
  <2>2. i \in Nat /\ i >= 1 /\ (i \in DOMAIN a \/ i \in DOMAIN b)
    BY <1>0, <2>1
  <2>3. ASSUME NEW j \in 1..(i - 1) PROVE j \in DOMAIN a /\ j \in DOMAIN b /\ a[j] = b[j]
    <3>1. j \in DOMAIN a \cup DOMAIN b /\ j < i /\ j \in Nat
      BY <1>0, <2>2
    <3>2. j \notin Parts
      BY <2>1, <2>2, <3>1
    <3> QED  BY <3>1, <3>2
  <2>4. CASE i \in DOMAIN a /\ (i \notin DOMAIN b \/ Less(a[i], b[i]))
    BY <2>3, <2>4, NoParting
  <2>5. CASE i \in DOMAIN b /\ (i \notin DOMAIN a \/ Less(b[i], a[i]))
    <3>1. \A j \in 1..(i - 1) : j \in DOMAIN a /\ b[j] = a[j]
      BY <2>3
    <3> QED  BY <2>5, <3>1, NoParting
  <2>6. CASE i \in DOMAIN a /\ i \in DOMAIN b /\ ~Less(a[i], b[i]) /\ ~Less(b[i], a[i])
    <3>1. a[i] # b[i]
      BY <2>1, <2>6
    <3> QED  BY <1>0, <2>6, <3>1, OneIsLess
  <2> QED  BY <2>2, <2>4, <2>5, <2>6
<1>3. DOMAIN a = DOMAIN b /\ \A i \in DOMAIN a : a[i] = b[i]
  BY <1>2
<1>4. Len(a) = Len(b)
  <2>1. \A i \in 1..Len(a) : i \in 1..Len(b)
    BY <1>0, <1>3
  <2>2. \A i \in 1..Len(b) : i \in 1..Len(a)
    BY <1>0, <1>3
  <2>3. Len(a) = 0 \/ Len(a) \in 1..Len(a)
    BY <1>0
  <2>4. Len(b) = 0 \/ Len(b) \in 1..Len(b)
    BY <1>0
  <2>5. Len(a) <= Len(b)
    BY <1>0, <2>1, <2>3
  <2>6. Len(b) <= Len(a)
    BY <1>0, <2>2, <2>4
  <2>7. Len(a) \in Nat /\ Len(b) \in Nat
    BY <1>0
  <2> QED  BY <2>5, <2>6, <2>7
<1> QED  BY <1>0, <1>3, <1>4, SeqEqual

------------------------------------------------------------------------------
(***************************************************************************)
(* A list grows by a journey that comes after all in it.                   *)
(***************************************************************************)
LEMMA ListGrows ==
    ASSUME NEW t, NEW js, Met(t, js), NEW s \in JourneysOf(t),
           \A i \in DOMAIN js : Less(js[i], s)
    PROVE  /\ Met(t, Append(js, s))
           /\ ToSet(Append(js, s)) = ToSet(js) \cup {s}
           /\ \A p \in Places : Less(p, s) \/ p = s =>
                 /\ Earlier(Append(js, s), p) = Earlier(js, p)
                 /\ EarlierThatDay(t, Append(js, s), p) = EarlierThatDay(t, js, p)
<1> DEFINE l == Append(js, s)
           n == Len(js)
<1>1. /\ js \in Seq(Places) /\ DOMAIN js = 1..n /\ n \in Nat /\ s \in Places
      /\ \A i \in DOMAIN js : js[i] \in Places
  BY LenProperties, ElementOfSeq DEF Met, JourneysOf
<1>2. /\ l \in Seq(Places) /\ Len(l) = n + 1 /\ l[n + 1] = s
      /\ \A i \in 1..n : l[i] = js[i]
  BY <1>1, AppendProperties
<1>3. DOMAIN l = 1..(n + 1)
  BY <1>2, LenProperties
<1> HIDE DEF l, n
<1>4. DOMAIN l = DOMAIN js \cup {n + 1}
  BY <1>1, <1>3
<1>5. \A i \in DOMAIN js : i < n + 1 /\ i # n + 1 /\ l[i] = js[i]
  BY <1>1, <1>2
<1>6. InOrder(l)
  <2> SUFFICES ASSUME NEW i \in DOMAIN l, NEW j \in DOMAIN l, i < j PROVE Less(l[i], l[j])
    BY DEF InOrder
  <2>1. i \in DOMAIN js
    BY <1>1, <1>3
  <2>2. CASE j \in DOMAIN js
    BY <1>5, <2>1, <2>2 DEF Met, InOrder
  <2>3. CASE j = n + 1
    BY <1>2, <1>5, <2>1, <2>3
  <2> QED  BY <1>4, <2>2, <2>3
<1>7. Met(t, l)
  BY <1>2, <1>4, <1>5, <1>6 DEF Met
<1>8. ToSet(l) = ToSet(js) \cup {s}
  BY <1>2, <1>4, <1>5 DEF ToSet
<1>9. ASSUME NEW p \in Places, Less(p, s) \/ p = s
      PROVE  /\ Earlier(l, p) = Earlier(js, p)
             /\ EarlierThatDay(t, l, p) = EarlierThatDay(t, js, p)
  <2>1. ~Less(s, p)
    BY <1>1, <1>9, LessThanAll, LessNotSame
  <2>2. ~(s[1] < p[1])
    BY <1>1, <2>1, EarlierFirst
  <2> QED  BY <1>2, <1>4, <1>5, <2>1, <2>2 DEF Earlier, EarlierThatDay
<1> QED  BY <1>7, <1>8, <1>9 DEF l

\* A day of the list js of timetable t is at its limit.
LimitIn(t, js) ==
    \E i \in DOMAIN js :
        /\ MaxJourneysPerDay > 0
        /\ Cardinality({j \in DOMAIN js : DayIn(t, js[j]) = DayIn(t, js[i])}) >= MaxJourneysPerDay

\* The search has decided about p: all that it leaves out it tells, and
\* while it counts it leaves out only what the limits say.
Settled(t, js, cut, over, steps, p) ==
    /\ p \in ToSet(js) \/ cut \/ LimitIn(t, js) \/ over
    /\ ~over /\ steps <= MaxCombinations => (p \in ToSet(js) <=> Taken(t, js, p))

LEMMA LimitStays ==
    ASSUME NEW t, NEW js, Met(t, js), NEW s \in JourneysOf(t), \A i \in DOMAIN js : Less(js[i], s),
           LimitIn(t, js)
    PROVE  LimitIn(t, Append(js, s))
<1> DEFINE l == Append(js, s)
           n == Len(js)
<1>1. /\ js \in Seq(Places) /\ DOMAIN js = 1..n /\ n \in Nat /\ s \in Places
  BY LenProperties DEF Met, JourneysOf
<1>2. /\ l \in Seq(Places) /\ Len(l) = n + 1 /\ DOMAIN l = 1..(n + 1)
      /\ \A i \in 1..n : l[i] = js[i]
  BY <1>1, AppendProperties, LenProperties
<1>3. MaxJourneysPerDay \in Nat
  BY LimitsAssumption
<1> HIDE DEF l, n
<1>4. PICK i \in DOMAIN js :
        /\ MaxJourneysPerDay > 0
        /\ Cardinality({j \in DOMAIN js : DayIn(t, js[j]) = DayIn(t, js[i])}) >= MaxJourneysPerDay
  BY DEF LimitIn
<1> DEFINE A == {j \in DOMAIN js : DayIn(t, js[j]) = DayIn(t, js[i])}
           B == {j \in DOMAIN l : DayIn(t, l[j]) = DayIn(t, l[i])}
<1>5. A \subseteq B /\ i \in DOMAIN l
  BY <1>1, <1>2
<1>6. B \subseteq 1..(n + 1)
  BY <1>2
<1>7. IsFiniteSet(1..(n + 1))
  BY <1>1, FS_Interval
<1>8. IsFiniteSet(B)
  BY <1>6, <1>7, FS_Subset
<1>9. IsFiniteSet(A) /\ Cardinality(A) <= Cardinality(B)
  BY <1>5, <1>8, FS_Subset
<1>10. Cardinality(A) \in Nat /\ Cardinality(B) \in Nat
  BY <1>8, <1>9, FS_CardinalityType
<1>11. Cardinality(A) >= MaxJourneysPerDay
  BY <1>4
<1> HIDE DEF A, B
<1>12. Cardinality(B) >= MaxJourneysPerDay
  BY <1>3, <1>9, <1>10, <1>11
<1> QED  BY <1>4, <1>5, <1>12 DEF LimitIn, B, l

\* What is decided stays so when the list grows by a later journey.
LEMMA SettledStays ==
    ASSUME NEW t, NEW js, Met(t, js), NEW s \in JourneysOf(t), \A i \in DOMAIN js : Less(js[i], s),
           NEW cut, NEW over, NEW steps, NEW p \in Places, Less(p, s),
           Settled(t, js, cut, over, steps, p)
    PROVE  Settled(t, Append(js, s), cut, over, steps, p)
<1>1. s \in Places /\ p # s
  BY LessNotSame DEF JourneysOf
<1>2. ToSet(Append(js, s)) = ToSet(js) \cup {s}
  BY ListGrows
<1>3. /\ Earlier(Append(js, s), p) = Earlier(js, p)
      /\ EarlierThatDay(t, Append(js, s), p) = EarlierThatDay(t, js, p)
  BY ListGrows
<1>4. Taken(t, Append(js, s), p) <=> Taken(t, js, p)
  BY <1>3 DEF Taken, DayHasRoom
<1>5. LimitIn(t, js) => LimitIn(t, Append(js, s))
  BY LimitStays
<1> QED  BY <1>1, <1>2, <1>4, <1>5 DEF Settled

LEMMA SettledLater ==
    ASSUME NEW t, NEW js, NEW cut, NEW over, NEW steps \in Nat, NEW p,
           Settled(t, js, cut, over, steps, p),
           NEW cut1, NEW over1, NEW steps1 \in Nat, cut => cut1, over => over1, steps <= steps1
    PROVE  Settled(t, js, cut1, over1, steps1, p)
<1>1. steps1 <= MaxCombinations => steps <= MaxCombinations
  BY LimitsAssumption
<1> QED  BY <1>1 DEF Settled

(***************************************************************************)
(* A journey that the walk adds is taken.                                  *)
(***************************************************************************)
LEMMA AddedIsSettled ==
    ASSUME NEW t, NEW js, Met(t, js), NEW s \in JourneysOf(t), \A i \in DOMAIN js : Less(js[i], s),
           Len(js) < MaxJourneys, DayHasRoom(t, js, s), NEW cut, NEW over, NEW steps
    PROVE  Settled(t, Append(js, s), cut, over, steps, s)
<1>0. s \in Places
  BY DEF JourneysOf
<1>1. ToSet(Append(js, s)) = ToSet(js) \cup {s}
  BY ListGrows
<1>2. /\ Earlier(Append(js, s), s) = Earlier(js, s)
      /\ EarlierThatDay(t, Append(js, s), s) = EarlierThatDay(t, js, s)
  BY <1>0, ListGrows
<1>3. Earlier(js, s) = 1..Len(js) /\ Len(js) \in Nat
  BY LenProperties DEF Met, Earlier
<1>4. Cardinality(1..Len(js)) = Len(js)
  <2>1. Cardinality(1..Len(js)) = IF 1 > Len(js) THEN 0 ELSE Len(js) - 1 + 1
    BY <1>3, FS_Interval
  <2> QED  BY <1>3, <2>1
<1>5. Taken(t, Append(js, s), s)
  BY <1>2, <1>3, <1>4 DEF Taken, DayHasRoom
<1> QED  BY <1>1, <1>5 DEF Settled

------------------------------------------------------------------------------
(* No departure of a journey arrives after its last one. *)
LEMMA ArrivesBefore ==
    ASSUME NEW t \in Timetables, NEW p \in JourneysOf(t), NEW n \in Legs
    PROVE  t[n][p[n]].arr <= t[N][p[N]].arr
<1> DEFINE arr(k) == t[k][p[k]].arr
           dep(k) == t[k][p[k]].dep
           Late == {d \in 0..(N - 1) : ~(arr(N - d) <= arr(N))}
<1>1. \A k \in Legs : dep(k) \in Int /\ arr(k) \in Int /\ dep(k) < arr(k)
  <2> SUFFICES ASSUME NEW k \in Legs PROVE dep(k) \in Int /\ arr(k) \in Int /\ dep(k) < arr(k)
    OBVIOUS
  <2>1. p[k] \in DOMAIN t[k]
    BY DEF JourneysOf
  <2> QED  BY <2>1, TimesAreNumbers, TimetablesAssumption
<1>2. \A k \in Legs \ {1} : ConnectionRequirement(k - 1) \in Nat /\ dep(k) - arr(k - 1) >= ConnectionRequirement(k - 1)
  <2> SUFFICES ASSUME NEW k \in Legs \ {1} PROVE ConnectionRequirement(k - 1) \in Nat /\ dep(k) - arr(k - 1) >= ConnectionRequirement(k - 1)
    OBVIOUS
  <2>1. k - 1 \in Legs \ {Len(Main)}
    BY LegsAre DEF N
  <2> QED  BY <2>1, DurationsAssumption DEF JourneysOf, Fits
<1>3. N \in Legs /\ N \in Nat /\ Legs = 1..N
  BY LegsAre
<1> HIDE DEF arr, dep
<1>4. \A k \in Legs \ {1} : k - 1 \in Legs /\ arr(k - 1) <= arr(k)
  <2> SUFFICES ASSUME NEW k \in Legs \ {1} PROVE k - 1 \in Legs /\ arr(k - 1) <= arr(k)
    OBVIOUS
  <2>1. k - 1 \in Legs
    BY <1>3
  <2>2. /\ arr(k - 1) \in Int /\ arr(k) \in Int /\ dep(k) \in Int /\ dep(k) < arr(k)
        /\ ConnectionRequirement(k - 1) \in Nat /\ dep(k) - arr(k - 1) >= ConnectionRequirement(k - 1)
    BY <1>1, <1>2, <2>1
  <2> QED  BY <2>1, <2>2
<1>5. Late = {}
  <2> SUFFICES ASSUME Late # {} PROVE FALSE
    OBVIOUS
  <2>0. Late \in SUBSET Nat
    BY <1>3
  <2>1. PICK d \in Late : \A j \in Late : d <= j
    BY <2>0, Smallest
  <2>2. d \in 0..(N - 1) /\ ~(arr(N - d) <= arr(N))
    BY <2>1
  <2>3. CASE d = 0
    <3>1. N - d = N
      BY <1>3, <2>3
    <3> QED  BY <1>1, <1>3, <2>2, <3>1
  <2>4. CASE d # 0
    <3>1. d - 1 \in 0..(N - 1) /\ ~(d <= d - 1) /\ N - d \in Legs /\ N - (d - 1) \in Legs \ {1}
          /\ (N - (d - 1)) - 1 = N - d
      BY <1>3, <2>2, <2>4
    <3>2. d - 1 \notin Late
      BY <2>1, <3>1
    <3>3. arr(N - (d - 1)) <= arr(N)
      BY <3>1, <3>2
    <3>4. arr(N - d) <= arr(N - (d - 1))
      BY <1>4, <3>1
    <3>5. arr(N - d) \in Int /\ arr(N - (d - 1)) \in Int /\ arr(N) \in Int
      BY <1>1, <1>3, <3>1
    <3>6. arr(N - d) <= arr(N)
      BY <3>3, <3>4, <3>5
    <3> QED  BY <2>2, <3>6
  <2> QED  BY <2>3, <2>4
<1>6. N - n \in 0..(N - 1) /\ N - (N - n) = n
  BY <1>3
<1>7. arr(n) <= arr(N)
  BY <1>5, <1>6
<1> QED  BY <1>7 DEF arr

(***************************************************************************)
(* The walk: where it stands, what it has passed, and what it has listed.  *)
(***************************************************************************)
Phases == {"narrow", "enter", "loop", "report", "done"}

Standing ==
    /\ Windows
    /\ matcher \in Matchers /\ phase \in Phases /\ (phase = "done" => matcher = "windowed")
    /\ \A k \in Legs : left[k] \subseteq DOMAIN timetable[k]
    /\ path \in Paths /\ (phase = "loop" => Len(path) < N)
    /\ tried \in Nat /\ attempts \in Nat /\ truncated \in BOOLEAN /\ expired \in BOOLEAN
    /\ journeys \in Seq(Places)
    /\ DOMAIN results = Matchers

\* A beginning of a journey, as far as its departures say.
Begins(t, js, s) ==
    /\ \A k \in 1..Len(s) : s[k] \in DOMAIN t[k]
    /\ s # <<>> => /\ From <= StartIn(t, s) /\ StartIn(t, s) < End
                   /\ DayHasRoom(t, js, s)
    /\ \A k \in 2..Len(s) :
          /\ t[k][s[k]].dep - t[k - 1][s[k - 1]].arr >= ConnectionRequirement(k - 1)
          /\ t[k][s[k]].dep - t[k - 1][s[k - 1]].arr <= MaxConnection

Frontier == IF phase = "loop" THEN Append(path, tried + 1) ELSE path

Passed(p) == phase = "report" \/ Under(p, Frontier)

Walking ==
    /\ Begins(timetable, journeys, path)
    /\ Met(timetable, journeys)
    /\ \A i \in DOMAIN journeys : Passed(journeys[i])
    /\ \A p \in JourneysOf(timetable) :
          Passed(p) => Settled(timetable, journeys, truncated, expired, attempts, p)

\* What a result must say of the journeys of t.
Answer(t, r) ==
    /\ Met(t, r.journeys)
    /\ ~r.truncated /\ ~r.expired => \A p \in JourneysOf(t) : p \in ToSet(r.journeys)
    /\ ~r.expired /\ r.attempts <= MaxCombinations => TakenOnly(t, r.journeys)

Answers == \A m \in Matchers : Returned(m) => Answer(timetable, results[m])

MatchInv == Standing /\ Walking /\ Answers

LEMMA EmptyPath ==
    /\ <<>> \in Paths /\ Len(<<>>) = 0
    /\ \A p : Agrees(p, <<>>) /\ ~Under(p, <<>>)
    /\ \A t, js : Begins(t, js, <<>>)
    /\ \A t : Met(t, <<>>)
<1>1. <<>> \in Seq(Nat) /\ Len(<<>>) = 0 /\ <<>> \in Seq(Places) /\ DOMAIN <<>> = {}
  BY EmptySeq, LenProperties
<1>2. <<>> \in Paths
  BY <1>1, LegsAre DEF Paths
<1>3. \A p : Agrees(p, <<>>) /\ ~Under(p, <<>>)
  BY <1>1 DEF Agrees, Under
<1>4. \A t, js : Begins(t, js, <<>>)
  BY <1>1 DEF Begins
<1>5. \A t : Met(t, <<>>)
  BY <1>1 DEF Met, InOrder
<1> QED  BY <1>1, <1>2, <1>3, <1>4, <1>5

LEMMA MatchInit == Init => MatchInv
<1> SUFFICES ASSUME Init PROVE MatchInv
  OBVIOUS
<1>1. Windows /\ timetable \in Timetables
  BY WindowsInit DEF Windows
<1>2. path = <<>> /\ journeys = <<>> /\ phase = "enter" /\ matcher = "brute"
  BY DEF Init
<1>3. Standing
  <2>1. \A k \in Legs : left[k] \subseteq DOMAIN timetable[k]
    BY DEF Init
  <2>2. DOMAIN results = Matchers
    BY DEF Init
  <2>3. journeys \in Seq(Places)
    BY <1>2, EmptyPath DEF Met
  <2> QED  BY <1>1, <1>2, <2>1, <2>2, <2>3, EmptyPath DEF Init, Standing, Matchers, Phases
<1>4. Walking
  <2>1. \A p : ~Passed(p)
    BY <1>2, EmptyPath DEF Passed, Frontier
  <2>2. \A i \in DOMAIN journeys : FALSE
    BY <1>2
  <2> QED  BY <1>2, <2>1, <2>2, EmptyPath DEF Walking
<1>5. Answers
  BY <1>2 DEF Answers, Returned, Matchers
<1> QED  BY <1>3, <1>4, <1>5 DEF MatchInv

------------------------------------------------------------------------------
(***************************************************************************)
(* The places of the walk.                                                 *)
(***************************************************************************)
\* Going back to the caller passes the journeys that begin with the path.
LEMMA ReturnPasses ==
    ASSUME Standing, Return, NEW p \in Places
    PROVE  /\ Passed(p)' <=> (path = <<>> \/ Under(p, path) \/ Agrees(p, path))
           /\ path' \in Paths /\ tried' \in Nat
           /\ phase' \in {"loop", "report"} /\ (phase' = "loop" => Len(path') < N)
<1>0. path \in Paths /\ tried \in Nat
  BY DEF Standing
<1>1. CASE path = <<>>
  <2>1. phase' = "report" /\ path' = path /\ tried' = tried
    BY <1>1 DEF Return
  <2> QED  BY <1>0, <1>1, <2>1, EmptyPath DEF Passed, Frontier
<1>2. CASE path # <<>>
  <2>1. phase' = "loop" /\ path' = Front(path) /\ tried' = Last(path)
    BY <1>2 DEF Return
  <2>2. Passed(p)' <=> Under(p, Append(Front(path), Last(path) + 1))
    BY <2>1 DEF Passed, Frontier
  <2> QED  BY <1>0, <1>2, <2>1, <2>2, UnderNext, Shorter
<1> QED  BY <1>1, <1>2

\* A path is one to begin with when its last place is taken back.
LEMMA ReturnBegins ==
    ASSUME Standing, Return, NEW js, Begins(timetable, js, path)
    PROVE  Begins(timetable, js, path')
<1>0. path \in Paths
  BY DEF Standing
<1>1. CASE path = <<>>
  BY <1>1 DEF Return
<1>2. CASE path # <<>>
  <2> DEFINE f == Front(path)
  <2>1. path' = f
    BY <1>2 DEF Return
  <2>2. /\ Len(f) = Len(path) - 1 /\ Len(path) \in Nat /\ f \in Paths
        /\ \A i \in 1..(Len(path) - 1) : f[i] = path[i]
    BY <1>0, <1>2, Shorter, PathIs
  <2> HIDE DEF f
  <2>3. \A k \in 1..Len(f) : k \in 1..Len(path) /\ f[k] = path[k]
    BY <2>2
  <2>4. \A k \in 2..Len(f) : k \in 2..Len(path) /\ k \in 1..Len(f) /\ k - 1 \in 1..Len(f)
    BY <2>2
  <2>5. f # <<>> => 1 \in 1..Len(f)
    BY <2>2, EmptySeq DEF Paths
  <2>6. f # <<>> => StartIn(timetable, f) = StartIn(timetable, path)
                    /\ (DayHasRoom(timetable, js, path) => DayHasRoom(timetable, js, f))
    BY <2>3, <2>5 DEF StartIn, DayHasRoom, EarlierThatDay, DayIn
  <2> QED  BY <1>2, <2>1, <2>3, <2>4, <2>6 DEF Begins
<1> QED  BY <1>1, <1>2

\* A journey that agrees with a full path is that path.
LEMMA FullPath ==
    ASSUME NEW s \in Paths, Len(s) = N
    PROVE  /\ s \in Places
           /\ \A p \in Places : Agrees(p, s) => p = s
<1>1. DOMAIN s = Legs /\ \A i \in Legs : s[i] \in Nat
  BY PathIs, LegsAre
<1>2. s = [i \in Legs |-> s[i]]
  BY <1>1, PathIs, LenProperties DEF Paths
<1>3. s \in Places
  BY <1>1, <1>2 DEF Places
<1>4. ASSUME NEW p \in Places, Agrees(p, s) PROVE p = s
  BY <1>3, <1>4, LegsAre DEF Agrees, Places
<1> QED  BY <1>3, <1>4

\* The first of the candidates.
LEMMA FirstCandidate ==
    ASSUME Standing, Trying
    PROVE  /\ LegInHand \in Legs /\ LegInHand = Len(path) + 1 /\ Len(path) < N
           /\ Min(Candidates) \in Nat /\ tried + 1 <= Min(Candidates)
           /\ Min(Candidates) \in left[LegInHand] /\ Min(Candidates) \in DOMAIN timetable[LegInHand]
           /\ \A c \in left[LegInHand] : c <= tried \/ Min(Candidates) <= c
<1>1. Len(path) < N /\ path \in Paths /\ tried \in Nat
  BY DEF Standing, Trying
<1>2. Len(path) \in Nat /\ LegInHand \in Legs /\ LegInHand = Len(path) + 1
  BY <1>1, PathIs, LegsAre DEF LegInHand
<1>3. left[LegInHand] \in SUBSET Nat /\ left[LegInHand] \subseteq DOMAIN timetable[LegInHand]
  BY <1>2 DEF Standing, Windows
<1>4. Candidates \in SUBSET Nat /\ Candidates # {}
  BY <1>3 DEF Candidates, Trying
<1>5. \E m \in Candidates : \A j \in Candidates : m <= j
  BY <1>4, Smallest
<1>6. Min(Candidates) \in Candidates /\ \A j \in Candidates : Min(Candidates) <= j
  BY <1>5 DEF Min
<1>7. Min(Candidates) \in left[LegInHand] /\ Min(Candidates) > tried /\ Min(Candidates) \in Nat
  BY <1>4, <1>6 DEF Candidates
<1>8. \A c \in left[LegInHand] : c <= tried \/ c \in Candidates
  BY <1>1, <1>3 DEF Candidates
<1> QED  BY <1>1, <1>2, <1>3, <1>6, <1>7, <1>8

\* In the loop: what has been passed, and the place of a journey that has not.
LEMMA LoopPassed ==
    ASSUME Standing, phase = "loop", NEW p \in Places
    PROVE  /\ Passed(p) <=> Under(p, path) \/ (Agrees(p, path) /\ p[Len(path) + 1] <= tried)
           /\ p[Len(path) + 1] \in Nat
           /\ p \in JourneysOf(timetable) => p[Len(path) + 1] \in left[LegInHand]
<1>1. path \in Paths /\ Len(path) < N /\ tried \in Nat /\ tried + 1 \in Nat
  BY DEF Standing
<1>2. Len(path) + 1 \in Legs
  BY <1>1, PathIs, LegsAre
<1>3. p[Len(path) + 1] \in Nat
  BY <1>2 DEF Places
<1>4. Passed(p) <=> Under(p, path) \/ (Agrees(p, path) /\ p[Len(path) + 1] < tried + 1)
  BY <1>1, UnderLonger DEF Passed, Frontier
<1>5. p \in JourneysOf(timetable) => p[Len(path) + 1] \in left[LegInHand]
  BY <1>2, CompatibleAre DEF LegInHand, Standing, Windows, NarrowingIsSafe
<1> QED  BY <1>1, <1>3, <1>4, <1>5

LEMMA JourneyIs ==
    ASSUME NEW t, NEW p \in JourneysOf(t)
    PROVE  p \in Places /\ Fits(t, p) /\ \A k \in Legs : p[k] \in DOMAIN t[k]
BY DEF JourneysOf

LEMMA ListIs ==
    ASSUME NEW t, NEW js, Met(t, js)
    PROVE  /\ DOMAIN js = 1..Len(js) /\ Len(js) \in Nat
           /\ \A i \in DOMAIN js : js[i] \in Places /\ js[i] \in JourneysOf(t)
BY LenProperties, JourneyIs DEF Met

\* After a step that lists no journey: it is enough that what was passed
\* stays so, and that what is newly passed is decided.
LEMMA WalkedOn ==
    ASSUME MatchInv, timetable' = timetable, journeys' = journeys,
           truncated => truncated', expired' = expired, attempts' \in Nat, attempts <= attempts',
           \A p \in Places : Passed(p) => Passed(p)',
           Begins(timetable, journeys, path'),
           \A p \in JourneysOf(timetable) : Passed(p)' /\ ~Passed(p) =>
               Settled(timetable, journeys, truncated', expired, attempts', p)
    PROVE  Walking'
<1>1. Begins(timetable, journeys, path)' /\ Met(timetable, journeys)'
  BY DEF MatchInv, Walking
<1>2. \A i \in DOMAIN journeys : Passed(journeys[i])'
  BY ListIs DEF MatchInv, Walking
<1>3. ASSUME NEW p \in JourneysOf(timetable), Passed(p)'
      PROVE  Settled(timetable, journeys, truncated', expired', attempts', p)
  <2>1. attempts \in Nat
    BY DEF MatchInv, Standing
  <2>2. CASE Passed(p)
    <3>1. Settled(timetable, journeys, truncated, expired, attempts, p)
      BY <2>2 DEF MatchInv, Walking
    <3> QED  BY <2>1, <3>1, SettledLater
  <2> QED  BY <1>3, <2>2
<1> QED  BY <1>1, <1>2, <1>3 DEF Walking

LEMMA EnterExpiredStep ==
    ASSUME MatchInv, EnterExpired, UNCHANGED <<timetable, matcher, leg, left, expired, results>>
    PROVE  Walking'
<1>1. Standing /\ Return /\ phase = "enter" /\ expired /\ UNCHANGED <<attempts, journeys, truncated>>
  BY DEF MatchInv, EnterExpired
<1>2. \A p \in Places : Passed(p) => Passed(p)'
  BY <1>1, ReturnPasses DEF Passed, Frontier
<1>3. Begins(timetable, journeys, path')
  BY <1>1, ReturnBegins DEF MatchInv, Walking
<1>4. \A p : Settled(timetable, journeys, truncated', expired, attempts', p)
  BY <1>1 DEF Settled
<1>5. attempts \in Nat /\ attempts <= attempts
  BY <1>1 DEF Standing
<1> QED  BY <1>1, <1>2, <1>3, <1>4, <1>5, WalkedOn

LEMMA EnterFullStep ==
    ASSUME MatchInv, EnterFull, UNCHANGED <<timetable, matcher, leg, left, expired, results>>
    PROVE  Walking'
<1>1. Standing /\ phase = "enter" /\ truncated' /\ phase' = "report" /\ UNCHANGED <<path, attempts, journeys>>
  BY DEF MatchInv, EnterFull
<1>2. Met(timetable, journeys) /\ path \in Paths /\ attempts \in Nat /\ attempts <= attempts
  BY <1>1 DEF MatchInv, Walking, Standing
<1>3. \A p \in Places : Passed(p)' /\ (Passed(p) <=> Under(p, path))
  BY <1>1 DEF Passed, Frontier
<1>4. ASSUME NEW p \in JourneysOf(timetable), ~Passed(p)
      PROVE  Settled(timetable, journeys, truncated', expired, attempts', p)
  <2>1. p \in Places
    BY JourneyIs
  <2>2. \A i \in DOMAIN journeys : journeys[i] \in Places /\ Under(journeys[i], path)
    BY <1>2, <1>3, ListIs DEF MatchInv, Walking
  <2>3. \A i \in DOMAIN journeys : Less(journeys[i], p) /\ journeys[i] # p
    BY <1>2, <1>3, <1>4, <2>1, <2>2, BeforePath
  <2>4. p \notin ToSet(journeys)
    BY <2>3 DEF ToSet
  <2>5. Earlier(journeys, p) = 1..Len(journeys) /\ Len(journeys) \in Nat
    BY <1>2, <2>3, ListIs DEF Earlier
  <2>6. Cardinality(1..Len(journeys)) = Len(journeys)
    <3>1. Cardinality(1..Len(journeys)) = IF 1 > Len(journeys) THEN 0 ELSE Len(journeys) - 1 + 1
      BY <2>5, FS_Interval
    <3> QED  BY <2>5, <3>1
  <2>7. Len(journeys) >= MaxJourneys /\ MaxJourneys \in Nat
    BY LimitsAssumption DEF EnterFull, Full
  <2>8. ~Taken(timetable, journeys, p)
    BY <2>5, <2>6, <2>7 DEF Taken
  <2> QED  BY <1>1, <2>4, <2>8 DEF Settled
<1>5. Begins(timetable, journeys, path')
  BY <1>1 DEF MatchInv, Walking
<1> QED  BY <1>1, <1>2, <1>3, <1>4, <1>5, WalkedOn

LEMMA LimitReachedStep ==
    ASSUME MatchInv, LimitReached, UNCHANGED <<timetable, matcher, leg, left, expired, results>>
    PROVE  Walking'
<1>1. /\ Standing /\ truncated' /\ phase' = "report" /\ attempts' = attempts + 1
      /\ UNCHANGED <<path, journeys>> /\ ~(attempts < MaxCombinations)
  BY DEF MatchInv, LimitReached, Counting
<1>2. attempts \in Nat /\ MaxCombinations \in Nat
  BY <1>1, LimitsAssumption DEF Standing
<1>3. attempts' \in Nat /\ attempts <= attempts' /\ ~(attempts' <= MaxCombinations)
  BY <1>1, <1>2
<1>4. \A p : Settled(timetable, journeys, truncated', expired, attempts', p)
  BY <1>1, <1>3 DEF Settled
<1> QED  BY <1>1, <1>3, <1>4, WalkedOn DEF MatchInv, Walking, Passed

LEMMA LegDoneStep ==
    ASSUME MatchInv, LegDone, UNCHANGED <<timetable, matcher, leg, left, expired, results>>
    PROVE  Walking'
<1>1. Standing /\ Return /\ phase = "loop" /\ Candidates = {} /\ UNCHANGED <<attempts, journeys, truncated>>
  BY DEF MatchInv, LegDone
<1>2. \A p \in Places : Passed(p) => Passed(p)'
  BY <1>1, ReturnPasses, LoopPassed
<1>3. Begins(timetable, journeys, path')
  BY <1>1, ReturnBegins DEF MatchInv, Walking
<1>4. ASSUME NEW p \in JourneysOf(timetable), Passed(p)', ~Passed(p) PROVE FALSE
  <2>1. p \in Places /\ tried \in Nat /\ p[Len(path) + 1] \in Nat
    BY <1>1, JourneyIs, LoopPassed DEF Standing
  <2>2. Under(p, path) \/ Agrees(p, path)
    BY <1>1, <1>4, <2>1, ReturnPasses, EmptyPath
  <2>3. p[Len(path) + 1] > tried /\ p[Len(path) + 1] \in left[LegInHand]
    BY <1>1, <1>4, <2>1, <2>2, LoopPassed
  <2> QED  BY <1>1, <2>3 DEF Candidates
<1>5. attempts \in Nat /\ attempts <= attempts
  BY <1>1 DEF Standing
<1> QED  BY <1>1, <1>2, <1>3, <1>4, <1>5, WalkedOn

LEMMA EnterLegStep ==
    ASSUME MatchInv, EnterLeg, UNCHANGED <<timetable, matcher, leg, left, expired, results>>
    PROVE  Walking'
<1>1. /\ Standing /\ phase = "enter" /\ Len(path) < Len(Main) /\ tried' = 0 /\ phase' = "loop"
      /\ UNCHANGED <<path, attempts, journeys, truncated>>
  BY DEF MatchInv, EnterLeg, Entered
<1>2. path \in Paths /\ Len(path) < N /\ attempts \in Nat
  BY <1>1 DEF Standing, N
<1>3. \A p \in Places : Passed(p)' <=> Under(p, path) \/ (Agrees(p, path) /\ p[Len(path) + 1] < 1)
  BY <1>1, <1>2, UnderLonger DEF Passed, Frontier
<1>4. \A p \in Places : Passed(p) <=> Under(p, path)
  BY <1>1 DEF Passed, Frontier
<1>5. ASSUME NEW p \in JourneysOf(timetable) PROVE ~(p[Len(path) + 1] < 1)
  <2>1. Len(path) + 1 \in Legs
    BY <1>2, PathIs, LegsAre
  <2>2. p[Len(path) + 1] \in DOMAIN timetable[Len(path) + 1]
    BY <2>1, JourneyIs
  <2>3. timetable[Len(path) + 1] \in Seq([dep : Int, arr : Int])
    BY <1>1, <2>1, TimetablesAssumption DEF Standing, Windows
  <2> QED  BY <2>2, <2>3
<1>6. \A p \in JourneysOf(timetable) : Passed(p)' => Passed(p)
  BY <1>3, <1>4, <1>5, JourneyIs
<1> QED  BY <1>1, <1>2, <1>3, <1>4, <1>6, WalkedOn DEF MatchInv, Walking

\* The departures of a path are those of a journey that agrees with it.
LEMMA SameDepartures ==
    ASSUME NEW s \in Paths, s # <<>>, NEW p, Agrees(p, s), NEW t, NEW js
    PROVE  /\ StartIn(t, s) = StartIn(t, p)
           /\ DayIn(t, s) = DayIn(t, p)
           /\ DayHasRoom(t, js, s) <=> DayHasRoom(t, js, p)
<1>1. 1 \in 1..Len(s)
  BY EmptySeq, PathIs DEF Paths
<1>2. p[1] = s[1]
  BY <1>1 DEF Agrees
<1> QED  BY <1>2 DEF StartIn, DayIn, DayHasRoom, EarlierThatDay

\* The day of a path has room unless the code finds it full.
LEMMA RoomOnDay ==
    ASSUME Standing, Met(timetable, journeys), NEW s
    PROVE  /\ ~DayFull(DayOf(s)) => DayHasRoom(timetable, journeys, s)
           /\ DayFull(DayOf(s)) /\ (\A i \in DOMAIN journeys : journeys[i][1] < s[1])
                => /\ ~DayHasRoom(timetable, journeys, s)
                   /\ LimitIn(timetable, journeys)
<1> DEFINE A == {i \in DOMAIN journeys : DayIn(timetable, journeys[i]) = DayIn(timetable, s)}
           B == EarlierThatDay(timetable, journeys, s)
<1>1. \A p : DayOf(p) = DayIn(timetable, p)
  BY DEF DayOf, StartOf, At, DayIn, StartIn
<1>2. DayFull(DayOf(s)) <=> MaxJourneysPerDay > 0 /\ Cardinality(A) >= MaxJourneysPerDay
  BY <1>1 DEF DayFull, OnDay
<1>3. B \subseteq A
  BY DEF EarlierThatDay
<1>4. A \subseteq 1..Len(journeys)
  BY ListIs
<1>5. IsFiniteSet(A)
  BY <1>4, FS_Interval, FS_Subset, ListIs
<1>6. IsFiniteSet(B) /\ Cardinality(B) <= Cardinality(A)
  BY <1>3, <1>5, FS_Subset
<1>7. Cardinality(A) \in Nat /\ Cardinality(B) \in Nat /\ MaxJourneysPerDay \in Nat
  BY <1>5, <1>6, FS_CardinalityType, LimitsAssumption
<1>8. ASSUME ~DayFull(DayOf(s)) PROVE DayHasRoom(timetable, journeys, s)
  <2> HIDE DEF A, B
  <2>1. MaxJourneysPerDay > 0 => Cardinality(B) < MaxJourneysPerDay
    BY <1>2, <1>6, <1>7, <1>8
  <2> QED  BY <2>1 DEF DayHasRoom, B
<1>9. ASSUME DayFull(DayOf(s)), \A i \in DOMAIN journeys : journeys[i][1] < s[1]
      PROVE  ~DayHasRoom(timetable, journeys, s) /\ LimitIn(timetable, journeys)
  <2>1. A = B
    BY <1>9 DEF EarlierThatDay
  <2>2. MaxJourneysPerDay > 0 /\ Cardinality(A) >= MaxJourneysPerDay
    BY <1>2, <1>9
  <2>3. ~(Cardinality(A) < MaxJourneysPerDay) /\ Cardinality(A) # 0
    <3> HIDE DEF A
    <3> QED  BY <1>7, <2>2
  <2>4. ~DayHasRoom(timetable, journeys, s)
    BY <2>1, <2>2, <2>3 DEF DayHasRoom
  <2>5. A # {}
    BY <1>5, <2>3, FS_EmptySet
  <2>6. PICK i \in A : TRUE
    BY <2>5
  <2>7. i \in DOMAIN journeys /\ A = {j \in DOMAIN journeys : DayIn(timetable, journeys[j]) = DayIn(timetable, journeys[i])}
    BY <2>6
  <2>8. LimitIn(timetable, journeys)
    <3> HIDE DEF A
    <3> QED  BY <2>2, <2>7 DEF LimitIn
  <2> QED  BY <2>4, <2>8
<1> QED  BY <1>8, <1>9

\* A path with the next departure: what the code looks at.
LEMMA NextIs ==
    ASSUME Standing, NEW c \in Nat, Len(path) < N, NEW longer, longer = Append(path, c)
    PROVE  Acceptable(longer) <=>
              /\ path = <<>> => /\ From <= StartIn(timetable, longer) /\ StartIn(timetable, longer) < End
                                /\ ~DayFull(DayOf(longer))
              /\ path # <<>> =>
                    LET k == Len(path) + 1
                        gap == timetable[k][c].dep - timetable[k - 1][path[k - 1]].arr
                    IN gap >= ConnectionRequirement(k - 1) /\ gap <= MaxConnection
              /\ timetable[Len(path) + 1][c].arr - StartIn(timetable, longer) <= MaxJourney
<1>1. path \in Paths /\ Len(path) \in Nat
  BY PathIs DEF Standing
<1>2. /\ Len(longer) = Len(path) + 1 /\ longer[Len(path) + 1] = c
      /\ \A i \in 1..Len(path) : longer[i] = path[i]
  BY <1>1, Longer
<1>3. path = <<>> <=> Len(longer) = 1
  BY <1>1, <1>2, EmptySeq DEF Paths
<1>4. StartOf(longer) = StartIn(timetable, longer)
  BY DEF StartOf, At, StartIn
<1>5. At(longer, Len(longer)) = timetable[Len(path) + 1][c]
  BY <1>2 DEF At
<1>6. Starts(longer) <=> /\ From <= StartIn(timetable, longer) /\ StartIn(timetable, longer) < End
                         /\ ~DayFull(DayOf(longer))
  BY <1>4 DEF Starts
<1>7. ASSUME path # <<>>
      PROVE  Gap(longer, Len(longer)) =
                timetable[Len(path) + 1][c].dep - timetable[(Len(path) + 1) - 1][path[(Len(path) + 1) - 1]].arr
  <2>1. (Len(path) + 1) - 1 \in 1..Len(path)
    BY <1>1, <1>7, EmptySeq DEF Paths
  <2>2. longer[(Len(path) + 1) - 1] = path[(Len(path) + 1) - 1]
    BY <1>2, <2>1
  <2> QED  BY <1>2, <2>2 DEF Gap, At
<1> QED  BY <1>2, <1>3, <1>4, <1>5, <1>6, <1>7 DEF Acceptable, Connects

\* A departure that is accepted continues the path.
LEMMA AcceptedBegins ==
    ASSUME MatchInv, Trying, Acceptable(Append(path, Min(Candidates)))
    PROVE  Begins(timetable, journeys, Append(path, Min(Candidates)))
<1> DEFINE c == Min(Candidates)
           longer == Append(path, c)
           n == Len(path) + 1
<1>1. /\ Standing /\ Met(timetable, journeys) /\ Begins(timetable, journeys, path)
      /\ path \in Paths /\ Len(path) \in Nat
  BY PathIs DEF MatchInv, Walking, Standing
<1>2. c \in Nat /\ Len(path) < N /\ c \in DOMAIN timetable[n]
  BY <1>1, FirstCandidate
<1>3. /\ longer \in Paths /\ Len(longer) = n /\ longer[n] = c
      /\ \A i \in 1..Len(path) : longer[i] = path[i]
  BY <1>1, <1>2, Longer
<1>4. /\ path = <<>> => /\ From <= StartIn(timetable, longer) /\ StartIn(timetable, longer) < End
                        /\ ~DayFull(DayOf(longer))
      /\ path # <<>> =>
            /\ timetable[n][c].dep - timetable[n - 1][path[n - 1]].arr >= ConnectionRequirement(n - 1)
            /\ timetable[n][c].dep - timetable[n - 1][path[n - 1]].arr <= MaxConnection
  BY <1>1, <1>2, NextIs
<1> HIDE DEF c, longer
<1>5. \A k \in 1..n : k = n \/ k \in 1..Len(path)
  BY <1>1
<1>6. \A k \in 1..n : longer[k] \in DOMAIN timetable[k]
  BY <1>1, <1>2, <1>3, <1>5 DEF Begins
<1>7. /\ From <= StartIn(timetable, longer) /\ StartIn(timetable, longer) < End
      /\ DayHasRoom(timetable, journeys, longer)
  <2>1. CASE path = <<>>
    BY <1>1, <1>4, <2>1, RoomOnDay
  <2>2. CASE path # <<>>
    <3>1. Agrees(longer, path)
      BY <1>3 DEF Agrees
    <3> QED  BY <1>1, <2>2, <3>1, SameDepartures DEF Begins
  <2> QED  BY <2>1, <2>2
<1>8. ASSUME NEW k \in 2..n
      PROVE  /\ timetable[k][longer[k]].dep - timetable[k - 1][longer[k - 1]].arr >= ConnectionRequirement(k - 1)
             /\ timetable[k][longer[k]].dep - timetable[k - 1][longer[k - 1]].arr <= MaxConnection
  <2>1. k - 1 \in 1..Len(path)
    BY <1>1
  <2>2. longer[k - 1] = path[k - 1]
    BY <1>3, <2>1
  <2>3. CASE k = n
    <3>1. path # <<>>
      BY <1>1, <2>1, EmptySeq
    <3> QED  BY <1>3, <1>4, <2>2, <2>3, <3>1
  <2>4. CASE k \in 2..Len(path)
    <3>1. longer[k] = path[k]
      BY <1>1, <1>3, <2>4
    <3> QED  BY <1>1, <2>2, <2>4, <3>1 DEF Begins
  <2> QED  BY <1>1, <2>3, <2>4
<1> QED  BY <1>3, <1>6, <1>7, <1>8 DEF Begins, c, longer

\* A departure of a journey is refused only on a day that is full.
LEMMA RefusedIsFull ==
    ASSUME MatchInv, Trying, ~Acceptable(Append(path, Min(Candidates))),
           NEW p \in JourneysOf(timetable), Agrees(p, Append(path, Min(Candidates)))
    PROVE  path = <<>> /\ DayFull(DayOf(p))
<1> DEFINE c == Min(Candidates)
           longer == Append(path, c)
           n == Len(path) + 1
<1>1. Standing /\ path \in Paths /\ Len(path) \in Nat /\ timetable \in Timetables
  BY PathIs DEF MatchInv, Walking, Standing, Windows
<1>2. c \in Nat /\ Len(path) < N /\ n \in Legs
  BY <1>1, FirstCandidate
<1>3. longer \in Paths /\ Len(longer) = n /\ longer[n] = c /\ longer # <<>>
  BY <1>1, <1>2, Longer, EmptyPath
<1>4. p \in Places /\ Fits(timetable, p)
  BY JourneyIs
<1>5. \A i \in 1..n : p[i] = longer[i]
  BY <1>3 DEF Agrees
<1>6. p[n] = c
  BY <1>1, <1>3, <1>5
<1>7. StartIn(timetable, longer) = StartIn(timetable, p) /\ DayOf(longer) = DayOf(p)
  BY <1>3, SameDepartures DEF DayOf, StartOf, At, DayIn, StartIn
<1>8. timetable[n][c].arr - StartIn(timetable, longer) <= MaxJourney
  <2> DEFINE a == timetable[n][c].arr
             z == timetable[N][p[N]].arr
             b == StartIn(timetable, p)
  <2>1. a <= z
    BY <1>1, <1>2, <1>6, ArrivesBefore
  <2>2. z + Leaving - b <= MaxJourney
    BY <1>4 DEF Fits
  <2>3. 1 \in Legs /\ N \in Legs
    BY LegsAre
  <2>4. a \in Int /\ z \in Int
    BY <1>1, <1>2, <1>6, <2>3, JourneyIs, TimesAreNumbers
  <2>5. timetable[1][p[1]].dep \in Int
    BY <1>1, <2>3, JourneyIs, TimesAreNumbers
  <2>6. b \in Int /\ Leaving \in Nat /\ MaxJourney \in Nat
    BY <2>5, DurationsAssumption, LimitsAssumption DEF StartIn
  <2> HIDE DEF a, z, b
  <2>7. a - b <= MaxJourney
    BY <2>1, <2>2, <2>4, <2>6
  <2> QED  BY <1>7, <2>7 DEF a, b
<1>9. ASSUME path # <<>>
      PROVE  /\ timetable[n][c].dep - timetable[n - 1][path[n - 1]].arr >= ConnectionRequirement(n - 1)
             /\ timetable[n][c].dep - timetable[n - 1][path[n - 1]].arr <= MaxConnection
  <2>1. n - 1 \in 1..Len(path) /\ n - 1 \in 1..n /\ n \in Legs \ {1}
    BY <1>1, <1>2, <1>9, EmptySeq DEF Paths
  <2>2. p[n - 1] = path[n - 1]
    BY <1>1, <1>2, <1>5, <2>1, Longer
  <2> QED  BY <1>4, <1>6, <2>1, <2>2 DEF Fits
<1>10. From <= StartIn(timetable, longer) /\ StartIn(timetable, longer) < End
  BY <1>4, <1>7 DEF Fits
<1>11. ~Acceptable(longer)
  OBVIOUS
<1>12. path = <<>> /\ DayFull(DayOf(longer))
  <2> HIDE DEF c, longer
  <2> QED  BY <1>1, <1>2, <1>8, <1>9, <1>10, <1>11, NextIs DEF longer
<1> QED  BY <1>7, <1>12

LEMMA TryNextStep ==
    ASSUME MatchInv, TryNext, UNCHANGED <<timetable, matcher, leg, left, expired, results>>
    PROVE  Walking'
<1> DEFINE c == Min(Candidates)
           longer == Append(path, c)
           n == Len(path) + 1
<1>1. /\ Standing /\ Trying /\ phase = "loop" /\ attempts' = attempts + 1 /\ tried' = c
      /\ UNCHANGED <<journeys, truncated>>
  BY DEF MatchInv, TryNext, Trying
<1>2. /\ path \in Paths /\ attempts \in Nat /\ tried \in Nat
      /\ Met(timetable, journeys) /\ Begins(timetable, journeys, path)
  BY <1>1 DEF MatchInv, Walking, Standing
<1>3. /\ c \in Nat /\ Len(path) < N /\ tried + 1 <= c
      /\ \A d \in left[LegInHand] : d <= tried \/ c <= d
  BY <1>1, FirstCandidate
<1>4. IF Acceptable(longer) THEN path' = longer /\ phase' = "enter" ELSE UNCHANGED <<path, phase>>
  BY DEF TryNext
<1>5. /\ longer \in Paths /\ Len(longer) = n /\ longer[n] = c /\ Len(path) \in Nat
      /\ \A i \in 1..Len(path) : longer[i] = path[i]
  BY <1>2, <1>3, Longer, PathIs
<1>6. \A p \in Places : p[n] \in Nat /\ (Passed(p) <=> Under(p, path) \/ (Agrees(p, path) /\ p[n] <= tried))
  BY <1>1, LoopPassed
<1> HIDE DEF c, longer
<1>7. \A p \in Places :
         /\ Under(p, longer) <=> Under(p, path) \/ (Agrees(p, path) /\ p[n] < c)
         /\ Agrees(p, longer) <=> Agrees(p, path) /\ p[n] = c
  BY <1>2, <1>3, UnderLonger DEF longer
<1>8. \A p \in Places :
         Passed(p)' <=> IF Acceptable(longer) THEN Under(p, longer) ELSE Under(p, longer) \/ Agrees(p, longer)
  <2>1. CASE Acceptable(longer)
    BY <1>4, <2>1 DEF Passed, Frontier
  <2>2. CASE ~Acceptable(longer)
    <3>1. phase' = "loop" /\ path' = path
      BY <1>1, <1>4, <2>2
    <3>2. c + 1 \in Nat
      BY <1>3
    <3>3. \A p \in Places : Passed(p)' <=> Under(p, path) \/ (Agrees(p, path) /\ p[n] < c + 1)
      BY <1>1, <1>2, <1>3, <3>1, <3>2, UnderLonger DEF Passed, Frontier
    <3>4. \A p \in Places : p[n] < c + 1 <=> p[n] < c \/ p[n] = c
      BY <1>3, <1>6
    <3> QED  BY <1>7, <2>2, <3>3, <3>4
  <2> QED  BY <2>1, <2>2
<1>9. \A p \in Places : Passed(p) => Passed(p)'
  BY <1>2, <1>3, <1>6, <1>7, <1>8
<1>10. Begins(timetable, journeys, path')
  <2>1. CASE Acceptable(longer)
    BY <1>1, <1>4, <2>1, AcceptedBegins DEF longer, c
  <2>2. CASE ~Acceptable(longer)
    BY <1>2, <1>4, <2>2
  <2> QED  BY <2>1, <2>2
<1>11. ASSUME NEW p \in JourneysOf(timetable), Passed(p)', ~Passed(p)
       PROVE  ~Acceptable(longer) /\ Agrees(p, longer)
  <2>1. p \in Places /\ p[n] \in Nat /\ p[n] \in left[LegInHand]
    BY <1>1, JourneyIs, LoopPassed
  <2>2. p[n] <= tried \/ c <= p[n]
    BY <1>3, <2>1
  <2>3. ~Under(p, path) /\ ~(Agrees(p, path) /\ p[n] <= tried)
    BY <1>6, <1>11, <2>1
  <2>4. ~Under(p, longer)
    BY <1>3, <1>7, <2>1, <2>2, <2>3
  <2> QED  BY <1>8, <1>11, <2>1, <2>4
<1>12. ASSUME NEW p \in JourneysOf(timetable), Passed(p)', ~Passed(p)
       PROVE  Settled(timetable, journeys, truncated', expired, attempts', p)
  <2>1. p \in Places /\ ~Acceptable(longer) /\ Agrees(p, longer)
    BY <1>11, <1>12, JourneyIs
  <2>2. path = <<>> /\ DayFull(DayOf(p))
    BY <1>1, <2>1, RefusedIsFull DEF longer, c
  <2>3. n = 1 /\ p[1] = c
    BY <1>7, <2>1, <2>2, EmptyPath
  <2>4. \A i \in DOMAIN journeys : journeys[i] \in Places /\ journeys[i][1] < p[1]
    <3> SUFFICES ASSUME NEW i \in DOMAIN journeys PROVE journeys[i] \in Places /\ journeys[i][1] < p[1]
      OBVIOUS
    <3>1. journeys[i] \in Places /\ Passed(journeys[i])
      BY <1>2, ListIs DEF MatchInv, Walking
    <3>2. journeys[i][1] \in Nat /\ journeys[i][1] <= tried
      BY <1>6, <2>2, <2>3, <3>1, EmptyPath
    <3> QED  BY <1>2, <1>3, <2>3, <3>1, <3>2
  <2>5. ~DayHasRoom(timetable, journeys, p) /\ LimitIn(timetable, journeys)
    BY <1>1, <1>2, <2>2, <2>4, RoomOnDay
  <2>6. p \notin ToSet(journeys)
    <3>1. p[1] \in Nat
      BY <1>3, <2>3
    <3>2. ~(p[1] < p[1])
      BY <3>1
    <3> QED  BY <2>4, <3>2 DEF ToSet
  <2> QED  BY <2>5, <2>6 DEF Settled, Taken
<1>13. attempts' \in Nat /\ attempts <= attempts'
  BY <1>1, <1>2
<1>14. timetable' = timetable /\ expired' = expired /\ journeys' = journeys /\ truncated' = truncated
  BY <1>1
<1> QED  BY <1>9, <1>10, <1>12, <1>13, <1>14, WalkedOn

LEMMA EnterCompleteStep ==
    ASSUME MatchInv, EnterComplete, UNCHANGED <<timetable, matcher, leg, left, expired, results>>
    PROVE  Walking'
<1>1. /\ Standing /\ Return /\ phase = "enter" /\ ~expired /\ Len(path) = N
      /\ UNCHANGED <<attempts, truncated>> /\ ~(Len(journeys) >= MaxJourneys)
      /\ journeys' = IF ArrivalOf(path) - StartOf(path) > MaxJourney THEN journeys ELSE Append(journeys, path)
  BY DEF MatchInv, EnterComplete, Entered, Full, N
<1>2. /\ path \in Paths /\ attempts \in Nat /\ attempts <= attempts /\ timetable \in Timetables
      /\ Met(timetable, journeys) /\ Begins(timetable, journeys, path)
  BY <1>1 DEF MatchInv, Walking, Standing, Windows
<1>3. path \in Places /\ Len(path) \in Nat /\ path # <<>> /\ \A p \in Places : Agrees(p, path) => p = path
  BY <1>1, <1>2, FullPath, EmptyPath, LegsAre
<1>4. \A p \in Places : Passed(p) <=> Under(p, path)
  BY <1>1 DEF Passed, Frontier
<1>5. \A p \in Places : Passed(p)' <=> Under(p, path) \/ Agrees(p, path)
  BY <1>1, <1>3, ReturnPasses
<1>6. Begins(timetable, journeys, path')
  BY <1>1, <1>2, ReturnBegins
<1> DEFINE z == timetable[N][path[N]].arr
           b == StartIn(timetable, path)
<1>7. z \in Int /\ b \in Int /\ Leaving \in Nat /\ MaxJourney \in Nat /\ z + Leaving - b \in Int
  <2>1. 1 \in Legs /\ N \in Legs /\ 1 \in 1..Len(path) /\ N \in 1..Len(path)
    BY <1>1, LegsAre
  <2>2. path[1] \in DOMAIN timetable[1] /\ path[N] \in DOMAIN timetable[N]
    BY <1>2, <2>1 DEF Begins
  <2>3. z \in Int /\ timetable[1][path[1]].dep \in Int
    BY <1>2, <2>1, <2>2, TimesAreNumbers
  <2>4. b \in Int
    BY <2>3, DurationsAssumption DEF StartIn
  <2> HIDE DEF z, b
  <2> QED  BY <2>3, <2>4, DurationsAssumption, LimitsAssumption
<1>8. ArrivalOf(path) - StartOf(path) = z + Leaving - b
  <2>1. ArrivalOf(path) = z + Leaving
    BY DEF ArrivalOf, At, N
  <2>2. StartOf(path) = b
    BY DEF StartOf, At, StartIn
  <2> HIDE DEF z, b
  <2> QED  BY <1>7, <2>1, <2>2
<1>9. CASE z + Leaving - b > MaxJourney
  <2>1. journeys' = journeys
    BY <1>1, <1>8, <1>9
  <2>2. path \notin JourneysOf(timetable)
    BY <1>7, <1>9 DEF JourneysOf, Fits
  <2>3. \A p \in JourneysOf(timetable) : Passed(p)' => Passed(p)
    BY <1>3, <1>4, <1>5, <2>2, JourneyIs
  <2>4. \A p \in Places : Passed(p) => Passed(p)'
    BY <1>4, <1>5
  <2> QED  BY <1>1, <1>2, <1>6, <2>1, <2>3, <2>4, WalkedOn
<1>10. CASE ~(z + Leaving - b > MaxJourney)
  <2>1. journeys' = Append(journeys, path)
    BY <1>1, <1>8, <1>10
  <2>2. path \in JourneysOf(timetable)
    <3>1. \A k \in Legs : path[k] \in DOMAIN timetable[k]
      BY <1>1, <1>2, LegsAre DEF Begins
    <3>2. \A k \in Legs \ {1} : k \in 2..Len(path)
      BY <1>1, LegsAre
    <3>3. z + Leaving - b <= MaxJourney
      <4> HIDE DEF z, b
      <4> QED  BY <1>7, <1>10
    <3> QED  BY <1>2, <1>3, <3>1, <3>2, <3>3 DEF JourneysOf, Fits, Begins
  <2>3. Agrees(path, path)
    BY DEF Agrees
  <2>4. ~Under(path, path)
    <3>1. \A k \in 1..Len(path) : path[k] \in Nat
      BY <1>2, PathIs
    <3> QED  BY <3>1 DEF Under
  <2>5. \A i \in DOMAIN journeys : journeys[i] \in Places /\ Under(journeys[i], path) /\ Less(journeys[i], path)
    BY <1>2, <1>3, <1>4, <2>4, ListIs, BeforePath DEF MatchInv, Walking
  <2>6. Met(timetable, journeys')
    BY <1>2, <2>1, <2>2, <2>5, ListGrows
  <2>7. DayHasRoom(timetable, journeys, path)
    BY <1>2, <1>3 DEF Begins
  <2>8. Begins(timetable, journeys', path)
    <3>1. EarlierThatDay(timetable, journeys', path) = EarlierThatDay(timetable, journeys, path)
      BY <1>2, <1>3, <2>1, <2>2, <2>5, ListGrows
    <3> QED  BY <1>2, <3>1 DEF Begins, DayHasRoom
  <2>9. Begins(timetable, journeys', path')
    BY <1>1, <2>8, ReturnBegins
  <2>10. \A i \in DOMAIN journeys' : Passed(journeys[i])'
    <3> SUFFICES ASSUME NEW i \in DOMAIN journeys' PROVE Passed(journeys[i])'
      OBVIOUS
    <3>1. journeys'[i] \in ToSet(journeys')
      BY DEF ToSet
    <3>2. journeys'[i] \in ToSet(journeys) \cup {path}
      BY <1>2, <2>1, <2>2, <2>5, <3>1, ListGrows
    <3>3. journeys'[i] = path \/ (journeys'[i] \in Places /\ Under(journeys'[i], path))
      BY <2>5, <3>2 DEF ToSet
    <3> QED  BY <1>3, <1>5, <2>3, <3>3 DEF Passed
  <2>11. ASSUME NEW p \in JourneysOf(timetable), Passed(p)'
         PROVE  Settled(timetable, journeys', truncated, expired, attempts, p)
    <3>1. p \in Places
      BY JourneyIs
    <3>2. CASE Under(p, path)
      <4>1. Less(p, path)
        BY <1>2, <1>3, <2>4, <3>1, <3>2, BeforePath
      <4>2. Settled(timetable, journeys, truncated, expired, attempts, p)
        BY <1>4, <3>1, <3>2 DEF MatchInv, Walking
      <4> QED  BY <1>2, <2>1, <2>2, <2>5, <3>1, <4>1, <4>2, SettledStays
    <3>3. CASE p = path
      <4>1. Len(journeys) < MaxJourneys
        BY <1>1, <1>2, ListIs, LimitsAssumption
      <4> QED  BY <1>2, <2>1, <2>2, <2>5, <2>7, <3>3, <4>1, AddedIsSettled
    <3> QED  BY <1>3, <1>5, <2>11, <3>1, <3>2, <3>3
  <2>12. timetable' = timetable /\ truncated' = truncated /\ expired' = expired /\ attempts' = attempts
    BY <1>1
  <2> QED  BY <2>6, <2>9, <2>10, <2>11, <2>12 DEF Walking
<1> QED  BY <1>9, <1>10

LEMMA StandingStep == MatchInv /\ [Next]_vars => Standing'
<1> SUFFICES ASSUME MatchInv, [Next]_vars PROVE Standing'
  OBVIOUS
<1>0. /\ Standing /\ Windows /\ Met(timetable, journeys)
      /\ timetable \in Timetables /\ path \in Paths /\ tried \in Nat /\ attempts \in Nat
  BY DEF MatchInv, Standing, Walking, Windows
<1>1. Windows'
  BY <1>0, WindowsStep
<1>2. timetable' = timetable
  BY DEF Next, Search, NarrowLeg, NarrowStart, Walk, Report, Expire, vars
<1>3. CASE NarrowLeg
  <2>1. leg - 1 \in Legs /\ \A k \in Legs : k = leg - 1 => left'[k] \subseteq left[k]
    <3>1. leg - 1 \in Legs /\ left \in [Legs -> SUBSET Nat]
      BY <1>0, <1>3, LegsAre DEF NarrowLeg, Windows
    <3>2. left' = [left EXCEPT ![leg - 1] = FilterByArrival(leg - 1)]
      BY <1>3 DEF NarrowLeg
    <3>3. FilterByArrival(leg - 1) \subseteq left[leg - 1]
      BY DEF FilterByArrival
    <3> QED  BY <3>1, <3>2, <3>3
  <2>2. \A k \in Legs : k # leg - 1 => left'[k] = left[k]
    BY <1>0, <1>3 DEF NarrowLeg, Windows
  <2>3. \A k \in Legs : left'[k] \subseteq DOMAIN timetable[k]
    BY <1>0, <2>1, <2>2 DEF Standing
  <2> QED  BY <1>0, <1>1, <1>2, <1>3, <2>3 DEF Standing, NarrowLeg, walk
<1>4. CASE NarrowStart
  <2>1. \A k \in Legs : left'[k] \subseteq left[k]
    BY <1>0, <1>4 DEF NarrowStart, Windows, FilterByDeparture
  <2>2. \A k \in Legs : left'[k] \subseteq DOMAIN timetable[k]
    BY <1>0, <2>1 DEF Standing
  <2> QED  BY <1>0, <1>1, <1>2, <1>4, <2>2 DEF Standing, NarrowStart, walk, Phases
<1>5. ASSUME UNCHANGED <<timetable, matcher, left, expired, results>>,
             phase' \in Phases \ {"done"}, path' \in Paths, phase' = "loop" => Len(path') < N,
             tried' \in Nat, attempts' \in Nat, truncated' \in BOOLEAN, journeys' \in Seq(Places)
      PROVE  Standing'
  BY <1>0, <1>1, <1>5 DEF Standing
<1>6. CASE Walk
  <2>0. /\ UNCHANGED <<timetable, matcher, left, expired, results>>
        /\ truncated \in BOOLEAN /\ journeys \in Seq(Places) /\ phase \in Phases
    BY <1>0, <1>6 DEF Walk, Standing
  <2>1. ASSUME Return
        PROVE  /\ phase' \in Phases \ {"done"} /\ path' \in Paths /\ (phase' = "loop" => Len(path') < N)
               /\ tried' \in Nat
    <3>1. [i \in Legs |-> 0] \in Places
      BY DEF Places
    <3> QED  BY <1>0, <2>1, <3>1, ReturnPasses DEF Phases
  <2>2. CASE EnterExpired
    BY <1>0, <1>5, <2>0, <2>1, <2>2 DEF EnterExpired
  <2>3. CASE EnterFull
    BY <1>0, <1>5, <2>0, <2>3 DEF EnterFull, Phases
  <2>4. CASE EnterComplete
    <3>1. path \in Places
      BY <1>0, <2>4, FullPath DEF EnterComplete, N
    <3>2. journeys' \in Seq(Places)
      BY <2>0, <2>4, <3>1, AppendProperties DEF EnterComplete
    <3> QED  BY <1>0, <1>5, <2>0, <2>1, <2>4, <3>2 DEF EnterComplete
  <2>5. CASE EnterLeg
    BY <1>0, <1>5, <2>0, <2>5 DEF EnterLeg, Phases, N
  <2>6. CASE TryNext
    <3>1. Min(Candidates) \in Nat /\ Len(path) < N /\ Append(path, Min(Candidates)) \in Paths
      BY <1>0, <2>6, FirstCandidate, Longer DEF TryNext
    <3>2. /\ UNCHANGED <<journeys, truncated>> /\ attempts' = attempts + 1 /\ tried' = Min(Candidates)
          /\ \/ path' = Append(path, Min(Candidates)) /\ phase' = "enter"
             \/ path' = path /\ phase' = "loop"
      BY <2>6 DEF TryNext, Trying
    <3>3. attempts' \in Nat
      BY <1>0, <3>2
    <3> QED  BY <1>0, <1>5, <2>0, <3>1, <3>2, <3>3 DEF Phases
  <2>7. CASE LimitReached
    <3>1. attempts' \in Nat
      BY <1>0, <2>7 DEF LimitReached
    <3> QED  BY <1>0, <1>5, <2>0, <2>7, <3>1 DEF LimitReached, Phases
  <2>8. CASE LegDone
    BY <1>0, <1>5, <2>0, <2>1, <2>8 DEF LegDone
  <2> QED  BY <1>6, <2>2, <2>3, <2>4, <2>5, <2>6, <2>7, <2>8 DEF Walk
<1>7. CASE Report
  <2>1. /\ matcher' = "windowed" /\ matcher' \in Matchers /\ phase' \in Phases /\ phase' # "loop"
        /\ left' = left /\ path' = <<>> /\ journeys' = <<>>
        /\ tried' = 0 /\ attempts' = 0 /\ truncated' = FALSE /\ expired' = FALSE
    BY <1>7 DEF Report, Matchers, Phases
  <2>2. DOMAIN results' = Matchers
    BY <1>0, <1>7 DEF Report, Standing
  <2>3. journeys' \in Seq(Places) /\ path' \in Paths
    BY <2>1, EmptyPath DEF Met
  <2> QED  BY <1>0, <1>1, <1>2, <2>1, <2>2, <2>3 DEF Standing
<1>8. CASE Expire
  BY <1>0, <1>1, <1>8 DEF Standing, Expire, walk
<1>9. CASE UNCHANGED vars
  BY <1>0, <1>1, <1>9 DEF Standing, vars, walk
<1> QED  BY <1>3, <1>4, <1>6, <1>7, <1>8, <1>9 DEF Next, Search

LEMMA WalkingStep == MatchInv /\ [Next]_vars => Walking'
<1> SUFFICES ASSUME MatchInv, [Next]_vars PROVE Walking'
  OBVIOUS
<1>0. Standing /\ Walking /\ attempts \in Nat /\ attempts <= attempts
  BY DEF MatchInv, Standing
<1>1. ASSUME UNCHANGED <<timetable, walk, expired>>,
             phase' = phase \/ (phase = "narrow" /\ phase' = "enter")
      PROVE  Walking'
  <2>1. UNCHANGED <<timetable, path, tried, attempts, journeys, truncated, expired>>
    BY <1>1 DEF walk
  <2>2. \A p : Passed(p)' <=> Passed(p)
    BY <1>1, <2>1 DEF Passed, Frontier
  <2>3. Begins(timetable, journeys, path')
    BY <1>0, <2>1 DEF Walking
  <2> QED  BY <1>0, <2>1, <2>2, <2>3, WalkedOn
<1>2. CASE NarrowLeg
  BY <1>1, <1>2 DEF NarrowLeg
<1>3. CASE NarrowStart
  BY <1>1, <1>3 DEF NarrowStart
<1>4. CASE Walk
  BY <1>4, EnterExpiredStep, EnterFullStep, EnterCompleteStep, EnterLegStep, TryNextStep,
     LimitReachedStep, LegDoneStep DEF Walk
<1>5. CASE Report
  <2>1. timetable' = timetable /\ path' = <<>> /\ journeys' = <<>> /\ phase' \in {"narrow", "done"}
    BY <1>5 DEF Report
  <2>2. \A p : ~Passed(p)'
    BY <2>1, EmptyPath DEF Passed, Frontier
  <2>3. Begins(timetable, journeys, path)' /\ Met(timetable, journeys)'
    BY <2>1, EmptyPath
  <2>4. \A i \in DOMAIN journeys' : FALSE
    BY <2>1
  <2> QED  BY <2>2, <2>3, <2>4 DEF Walking
<1>6. CASE Expire
  <2>1. /\ timetable' = timetable /\ expired' = TRUE
        /\ UNCHANGED <<path, tried, attempts, journeys, truncated, phase>>
    BY <1>6 DEF Expire, walk
  <2>2. \A p : Passed(p)' <=> Passed(p)
    BY <2>1 DEF Passed, Frontier
  <2>3. \A p : Settled(timetable, journeys, truncated, expired', attempts, p)
    BY <2>1 DEF Settled
  <2>4. \A i \in DOMAIN journeys : Passed(journeys[i])'
    BY <1>0, <2>1 DEF Walking, Passed, Frontier
  <2> QED  BY <1>0, <2>1, <2>2, <2>3, <2>4 DEF Walking
<1>7. CASE UNCHANGED vars
  BY <1>1, <1>7 DEF vars
<1> QED  BY <1>2, <1>3, <1>4, <1>5, <1>6, <1>7 DEF Next, Search

LEMMA AnswersStep == MatchInv /\ [Next]_vars => Answers'
<1> SUFFICES ASSUME MatchInv, [Next]_vars PROVE Answers'
  OBVIOUS
<1>0. Standing /\ Walking /\ Answers
  BY DEF MatchInv
<1>1. CASE Report
  <2> DEFINE r == [journeys |-> journeys, truncated |-> truncated \/ LimitSeen,
                   attempts |-> attempts, expired |-> expired]
  <2>1. /\ results' = [results EXCEPT ![matcher] = r] /\ phase = "report" /\ timetable' = timetable
        /\ matcher' = "windowed" /\ phase' = IF matcher = "brute" THEN "narrow" ELSE "done"
    BY <1>1 DEF Report
  <2>2. matcher \in Matchers /\ DOMAIN results = Matchers
    BY <1>0 DEF Standing
  <2>3. LimitSeen <=> LimitIn(timetable, journeys)
    BY DEF LimitSeen, LimitIn, DayFull, OnDay, DayOf, StartOf, At, DayIn, StartIn
  <2>4. \A p \in JourneysOf(timetable) : Settled(timetable, journeys, truncated, expired, attempts, p)
    BY <1>0, <2>1 DEF Walking, Passed
  <2>5. Answer(timetable, r)
    BY <1>0, <2>3, <2>4 DEF Answer, Settled, Walking, TakenOnly
  <2>6. ASSUME NEW m \in Matchers, Returned(m)' PROVE Answer(timetable, results'[m])
    <3>1. CASE m = matcher
      <4>1. results'[m] = r
        BY <2>1, <2>2, <3>1
      <4> QED  BY <2>5, <4>1
    <3>2. CASE m # matcher
      <4>1. results'[m] = results[m]
        BY <2>1, <2>2, <3>2, <2>6
      <4>2. m = "brute" /\ matcher = "windowed"
        BY <2>1, <2>2, <2>6, <3>2 DEF Returned, Matchers
      <4> QED  BY <1>0, <4>1, <4>2 DEF Answers, Returned
    <3> QED  BY <3>1, <3>2
  <2> QED  BY <2>1, <2>6 DEF Answers
<1>2. ASSUME UNCHANGED <<timetable, matcher, results>>, phase' = "done" => phase = "done"
      PROVE  Answers'
  BY <1>0, <1>2 DEF Answers, Returned
<1>3. CASE Walk
  <2>1. phase' = "done" => phase = "done"
    BY <1>3 DEF Walk, EnterExpired, EnterFull, EnterComplete, EnterLeg, TryNext, LimitReached, LegDone, Return
  <2> QED  BY <1>2, <1>3, <2>1 DEF Walk
<1>4. CASE NarrowLeg \/ NarrowStart \/ Expire \/ UNCHANGED vars
  BY <1>2, <1>4 DEF NarrowLeg, NarrowStart, Expire, vars
<1> QED  BY <1>1, <1>3, <1>4 DEF Next, Search

LEMMA MatchStep == MatchInv /\ [Next]_vars => MatchInv'
BY StandingStep, WalkingStep, AnswersStep DEF MatchInv

LEMMA MatchGives == MatchInv => FoundIsThose /\ MatchersAgree
<1> SUFFICES ASSUME MatchInv PROVE FoundIsThose /\ MatchersAgree
  OBVIOUS
<1>1. timetable \in Timetables /\ Compatible = JourneysOf(timetable) /\ Met(timetable, journeys)
  BY CompatibleAre DEF MatchInv, Standing, Windows, Walking
<1>2. IsInjective(journeys)
  <2> SUFFICES ASSUME NEW i \in DOMAIN journeys, NEW j \in DOMAIN journeys, journeys[i] = journeys[j]
               PROVE  i = j
    BY DEF IsInjective
  <2>1. i \in Nat /\ j \in Nat /\ journeys[i] \in Places
    BY <1>1, ListIs
  <2>2. ~(i < j) /\ ~(j < i)
    BY <1>1, <2>1, LessNotSame DEF Met, InOrder
  <2> QED  BY <2>1, <2>2
<1>3. ToSet(journeys) \subseteq Compatible
  BY <1>1, ListIs DEF ToSet
<1>4. ASSUME NEW m \in Matchers, Returned(m), ~results[m].truncated, ~results[m].expired
      PROVE  ToSet(results[m].journeys) = Compatible
  <2>1. Answer(timetable, results[m])
    BY <1>4 DEF MatchInv, Answers
  <2>2. Compatible \subseteq ToSet(results[m].journeys)
    BY <1>1, <1>4, <2>1 DEF Answer
  <2>3. ToSet(results[m].journeys) \subseteq Compatible
    BY <1>1, <2>1, ListIs DEF Answer, ToSet
  <2> QED  BY <2>2, <2>3
<1>5. FoundIsThose
  BY <1>2, <1>3, <1>4 DEF FoundIsThose
<1>6. ASSUME phase = "done", Counted PROVE results["brute"].journeys = results["windowed"].journeys
  <2>1. \A m \in Matchers : results[m].attempts <= MaxCombinations /\ ~results[m].expired
    BY <1>6 DEF Counted
  <2>2. Returned("windowed") /\ "brute" \in Matchers /\ "windowed" \in Matchers
    BY <1>6 DEF Returned, Matchers
  <2>3. Returned("brute")
    BY <1>6 DEF Returned, MatchInv, Standing
  <2> QED  BY <2>1, <2>2, <2>3, SameLists DEF MatchInv, Answers, Answer
<1> QED  BY <1>5, <1>6 DEF MatchersAgree

(***************************************************************************)
(* A search finds each journey that can be made once, and nothing else; it *)
(* leaves one out only when it says so or its deadline passed (match.go,   *)
(* walk), whatever the timetables and the limits.                          *)
(***************************************************************************)
THEOREM SearchFindsThose == Spec => []FoundIsThose
<1>1. MatchInv => FoundIsThose
  BY MatchGives
<1> QED
  BY <1>1, MatchInit, MatchStep, PTL DEF Spec

(***************************************************************************)
(* The windows of the windowed matcher change nothing of what is reported: *)
(* with time and combinations to spare, both matchers return one list      *)
(* (match.go:27-30).                                                       *)
(***************************************************************************)
THEOREM MatchersReturnTheSame == Spec => []MatchersAgree
<1>1. MatchInv => MatchersAgree
  BY MatchGives
<1> QED
  BY <1>1, MatchInit, MatchStep, PTL DEF Spec

------------------------------------------------------------------------------
(***************************************************************************)
(* The report                                                              *)
(***************************************************************************)
Fields == {"scheme", "access", "legs", "available", "whole", "journeys", "state"}

\* A list of anything.
IsList(s) == \E S : s \in Seq(S)

LEMMA ListFacts ==
    ASSUME NEW s, IsList(s)
    PROVE  Len(s) \in Nat /\ DOMAIN s = 1..Len(s)
<1>1. PICK S : s \in Seq(S)
  BY DEF IsList
<1> QED  BY <1>1, LenProperties

LEMMA ListAppend ==
    ASSUME NEW s, IsList(s), NEW e
    PROVE  /\ IsList(Append(s, e)) /\ Len(Append(s, e)) = Len(s) + 1
           /\ DOMAIN Append(s, e) = DOMAIN s \cup {Len(s) + 1}
           /\ \A i \in 1..Len(s) : Append(s, e)[i] = s[i]
           /\ Append(s, e)[Len(s) + 1] = e
<1>1. PICK S : s \in Seq(S)
  BY DEF IsList
<1>2. s \in Seq(S \cup {e})
  BY <1>1, SeqMonotonic
<1>3. /\ Append(s, e) \in Seq(S \cup {e}) /\ Len(Append(s, e)) = Len(s) + 1
      /\ \A i \in 1..Len(s) : Append(s, e)[i] = s[i]
      /\ Append(s, e)[Len(s) + 1] = e
  BY <1>2, AppendProperties
<1>4. Len(s) \in Nat /\ DOMAIN s = 1..Len(s) /\ DOMAIN Append(s, e) = 1..(Len(s) + 1)
  BY <1>2, <1>3, LenProperties
<1>5. 1..(Len(s) + 1) = 1..Len(s) \cup {Len(s) + 1}
  BY <1>4
<1> QED  BY <1>3, <1>4, <1>5 DEF IsList

LEMMA ListCut ==
    ASSUME NEW s, IsList(s), NEW n \in 0..Len(s)
    PROVE  /\ IsList(SubSeq(s, 1, n)) /\ DOMAIN SubSeq(s, 1, n) \subseteq DOMAIN s
           /\ \A i \in DOMAIN SubSeq(s, 1, n) : SubSeq(s, 1, n)[i] = s[i]
           /\ n = Len(s) => SubSeq(s, 1, n) = s
<1>1. PICK S : s \in Seq(S)
  BY DEF IsList
<1>2. Len(s) \in Nat /\ DOMAIN s = 1..Len(s) /\ n \in Nat
  BY <1>1, LenProperties
<1>3. \A i \in 1..n : s[i] \in S
  BY <1>1, <1>2, ElementOfSeq
<1>4. /\ SubSeq(s, 1, n) \in Seq(S)
      /\ Len(SubSeq(s, 1, n)) = IF 1 <= n THEN n - 1 + 1 ELSE 0
      /\ \A i \in 1..(n - 1 + 1) : SubSeq(s, 1, n)[i] = s[1 + i - 1]
  BY <1>2, <1>3, SubSeqProperties
<1>5. (IF 1 <= n THEN n - 1 + 1 ELSE 0) = n /\ n - 1 + 1 = n
  BY <1>2
<1>6. DOMAIN SubSeq(s, 1, n) = 1..n
  BY <1>4, <1>5, LenProperties
<1>7. \A i \in 1..n : SubSeq(s, 1, n)[i] = s[i]
  <2> SUFFICES ASSUME NEW i \in 1..n PROVE SubSeq(s, 1, n)[i] = s[i]
    OBVIOUS
  <2>1. 1 + i - 1 = i
    BY <1>2
  <2> QED  BY <1>4, <1>5, <2>1
<1>8. n = Len(s) => SubSeq(s, 1, n) = s
  BY <1>1, SubSeqFull
<1>9. 1..n \subseteq 1..Len(s)
  BY <1>2
<1>10. IsList(SubSeq(s, 1, n))
  BY <1>4 DEF IsList
<1> QED  BY <1>2, <1>6, <1>7, <1>8, <1>9, <1>10

LEMMA SmallerOfTwo ==
    ASSUME NEW a \in Int, NEW b \in Int
    PROVE  /\ Reporting!Min({a, b}) \in {a, b} /\ Reporting!Min({a, b}) <= a /\ Reporting!Min({a, b}) <= b
           /\ Reporting!Max({a, b}) \in {a, b} /\ Reporting!Max({a, b}) >= a /\ Reporting!Max({a, b}) >= b
<1>1. \E x \in {a, b} : \A y \in {a, b} : x <= y
  OBVIOUS
<1>2. \E x \in {a, b} : \A y \in {a, b} : x >= y
  OBVIOUS
<1>3. Reporting!Min({a, b}) \in {a, b} /\ \A y \in {a, b} : Reporting!Min({a, b}) <= y
  BY <1>1 DEF Reporting!Min
<1>4. Reporting!Max({a, b}) \in {a, b} /\ \A y \in {a, b} : Reporting!Max({a, b}) >= y
  BY <1>2 DEF Reporting!Max
<1> QED  BY <1>3, <1>4

LEMMA SameCount == \A S : Reporting!Cardinality(S) = Cardinality(S)
  BY DEF Reporting!Cardinality, Cardinality

\* The fields of a row.
LEMMA RowFields ==
    ASSUME NEW r, DOMAIN r = Fields, NEW j, NEW st, NEW a, NEW w
    PROVE  /\ LET s == [r EXCEPT !.journeys = j, !.state = st]
              IN /\ DOMAIN s = Fields /\ s.journeys = j /\ s.state = st
                 /\ s.legs = r.legs /\ s.scheme = r.scheme /\ s.whole = r.whole /\ s.available = r.available
           /\ LET s == [r EXCEPT !.available = a]
              IN /\ DOMAIN s = Fields /\ s.legs = r.legs /\ s.journeys = r.journeys /\ s.state = r.state
           /\ LET s == [r EXCEPT !.available = a, !.whole = w]
              IN /\ DOMAIN s = Fields /\ s.legs = r.legs /\ s.journeys = r.journeys /\ s.state = r.state
                 /\ s.available = a /\ s.whole = w /\ s.scheme = r.scheme
           /\ LET s == [r EXCEPT !.state = st]
              IN /\ DOMAIN s = Fields /\ s.legs = r.legs /\ s.journeys = r.journeys /\ s.state = st
                 /\ s.scheme = r.scheme
  BY DEF Fields

(***************************************************************************)
(* What the report rests on, said of the world, the graph and the period   *)
(* it is given.                                                            *)
(***************************************************************************)
RealIn(w, legs, p) == Reporting!Journeys([k \in DOMAIN legs |-> w.departures[legs[k]]], p)

\* v holds of the section only what the timetables hold; when it is whole,
\* all that a journey of the period may need.
KnownOf(w, p, s, v) ==
    /\ s \in Supported => v.found \subseteq w.departures[s]
    /\ s \notin Supported => v.found = {} /\ ~v.whole
    /\ v.whole => \A d \in w.departures[s] :
                     p.from - 1 <= d + w.shift[s] /\ d + w.shift[s] <= p.end + JourneyDays => d \in v.found

VariantsOf(g, c) == Reporting!Variants(g.candidates[c])

PlacesOf(g) == UNION {{c} \X DOMAIN VariantsOf(g, c) : c \in DOMAIN g.candidates}

BeforeIn(g, q) == {r \in PlacesOf(g) : r[1] < q[1] \/ (r[1] = q[1] /\ r[2] < q[2])}

\* The rows are those of the variants before a place, in their order.
RowsUpTo(g, rs, q) ==
    /\ Len(rs) = Cardinality(BeforeIn(g, q))
    /\ \A r \in BeforeIn(g, q) : rs[Cardinality(BeforeIn(g, r)) + 1].legs = VariantsOf(g, r[1])[r[2]]

RowTrue(w, p, r, l) ==
    /\ r.state = "no_match" /\ ~l => RealIn(w, r.legs, p) = {}
    /\ r.journeys \subseteq RealIn(w, r.legs, p)

RowWhole(w, p, r, l) ==
    /\ Len(r.legs) \in 1..MaxLegs
    /\ l \/ r.journeys = RealIn(w, r.legs, p)

(***************************************************************************)
(* Sections looked up give the journeys of a row.                          *)
(***************************************************************************)
\* Of a journey, all days lie between its first and its last.
LEMMA DaysBetween ==
    ASSUME NEW n \in Nat, NEW j, \A k \in 1..n : j[k] \in Int,
           \A k \in (1..n) \ {1} : j[k - 1] < j[k]
    PROVE  \A k \in 1..n : j[1] <= j[k] /\ j[k] <= j[n]
<1> DEFINE Low == {k \in 1..n : ~(j[1] <= j[k])}
           High == {d \in 0..(n - 1) : ~(j[n - d] <= j[n])}
<1>1. Low = {}
  <2> SUFFICES ASSUME Low # {} PROVE FALSE
    OBVIOUS
  <2>1. Low \in SUBSET Nat
    OBVIOUS
  <2>2. PICK m \in Low : \A i \in Low : m <= i
    BY <2>1, Smallest
  <2>3. m \in 1..n /\ m \in Nat /\ ~(j[1] <= j[m]) /\ 1 \in 1..n
    BY <2>2
  <2>4. m # 1
    BY <2>3
  <2>5. m - 1 \in 1..n /\ ~(m <= m - 1) /\ m \in (1..n) \ {1}
    BY <2>3, <2>4
  <2>6. j[1] <= j[m - 1]
    BY <2>2, <2>5
  <2>7. j[m - 1] < j[m] /\ j[1] \in Int /\ j[m - 1] \in Int /\ j[m] \in Int
    BY <2>3, <2>5
  <2> QED  BY <2>3, <2>6, <2>7
<1>2. High = {}
  <2> SUFFICES ASSUME High # {} PROVE FALSE
    OBVIOUS
  <2>1. High \in SUBSET Nat
    OBVIOUS
  <2>2. PICK d \in High : \A i \in High : d <= i
    BY <2>1, Smallest
  <2>3. d \in 0..(n - 1) /\ d \in Nat /\ ~(j[n - d] <= j[n]) /\ n \in 1..n
    BY <2>2
  <2>4. d # 0
    BY <2>3
  <2>5. /\ d - 1 \in 0..(n - 1) /\ ~(d <= d - 1) /\ n - d \in 1..n /\ n - (d - 1) \in (1..n) \ {1}
        /\ (n - (d - 1)) - 1 = n - d
    BY <2>3, <2>4
  <2>6. j[n - (d - 1)] <= j[n]
    BY <2>2, <2>5
  <2>7. j[n - d] < j[n - (d - 1)]
    BY <2>5
  <2>8. j[n - d] \in Int /\ j[n - (d - 1)] \in Int /\ j[n] \in Int
    BY <2>3, <2>5
  <2> QED  BY <2>3, <2>6, <2>7, <2>8
<1>3. ASSUME NEW k \in 1..n PROVE j[1] <= j[k] /\ j[k] <= j[n]
  <2>1. j[1] <= j[k]
    BY <1>1
  <2>2. n - k \in 0..(n - 1) /\ n - (n - k) = k
    OBVIOUS
  <2>3. j[k] <= j[n]
    BY <1>2, <2>2
  <2> QED  BY <2>1, <2>3
<1> QED  BY <1>3

\* A list given by its elements.
LEMMA ListGiven ==
    ASSUME NEW n \in Nat, NEW f, DOMAIN f = 1..n, f = [i \in 1..n |-> f[i]]
    PROVE  Len(f) = n
<1>1. f \in [1..n -> {f[i] : i \in 1..n}]
  OBVIOUS
<1>2. f \in Seq({f[i] : i \in 1..n})
  BY <1>1, SeqDef
<1>3. Len(f) \in Nat /\ 1..Len(f) = 1..n
  BY <1>2, LenProperties
<1>4. Len(f) = n
  <2> DEFINE l == Len(f)
  <2>1. l \in Nat /\ 1..l = 1..n
    BY <1>3
  <2> HIDE DEF l
  <2>2. l >= 1 => l \in 1..n
    BY <2>1
  <2>3. n >= 1 => n \in 1..l
    BY <2>1
  <2>4. l = n
    BY <2>1, <2>2, <2>3
  <2> QED  BY <2>4 DEF l
<1> QED  BY <1>4

\* What is found of the legs of a row gives journeys that can be made, and
\* all of them when it is whole.
LEMMA FoundJourneys ==
    ASSUME NEW w \in Worlds, NEW legs, IsList(legs), Len(legs) >= 1,
           NEW p, p.from \in Int, p.end \in Int,
           NEW known, NEW av, IsList(av), Len(av) = Len(legs),
           \A k \in 1..Len(legs) : KnownOf(w, p, legs[k], known[k]) /\ av[k] = known[k].found
    PROVE  /\ Reporting!Journeys(av, p) \subseteq RealIn(w, legs, p)
           /\ (\A k \in 1..Len(legs) : known[k].whole) => Reporting!Journeys(av, p) = RealIn(w, legs, p)
<1> DEFINE n == Len(legs)
           all == [k \in DOMAIN legs |-> w.departures[legs[k]]]
<1>1. n \in Nat /\ n >= 1 /\ DOMAIN legs = 1..n /\ DOMAIN av = 1..n /\ Len(av) = n /\ JourneyDays \in Nat
  BY ListFacts, ReportLimitsAssumption
<1>2. DOMAIN all = 1..n /\ Len(all) = n
  <2>1. DOMAIN all = 1..n /\ all = [k \in 1..n |-> all[k]]
    BY <1>1
  <2> HIDE DEF all
  <2> QED  BY <1>1, <2>1, ListGiven
<1>3. \A k \in 1..n : all[k] = w.departures[legs[k]]
  BY <1>1
<1> HIDE DEF all, n
<1>4. \A k \in 1..n : av[k] \subseteq all[k]
  BY <1>3 DEF n, KnownOf
<1>5. \A f : DOMAIN f = 1..n => \A j :
         j \in [DOMAIN f -> UNION Reporting!Range(f)] /\ (\A k \in DOMAIN f : j[k] \in f[k])
            <=> j = [k \in 1..n |-> j[k]] /\ \A k \in 1..n : j[k] \in f[k]
  <2> SUFFICES ASSUME NEW f, DOMAIN f = 1..n, NEW j
               PROVE  j \in [DOMAIN f -> UNION Reporting!Range(f)] /\ (\A k \in DOMAIN f : j[k] \in f[k])
                        <=> j = [k \in 1..n |-> j[k]] /\ \A k \in 1..n : j[k] \in f[k]
    OBVIOUS
  <2>1. \A k \in 1..n : f[k] \in Reporting!Range(f)
    BY DEF Reporting!Range
  <2>2. \A k \in 1..n : j[k] \in f[k] => j[k] \in UNION Reporting!Range(f)
    BY <2>1
  <2> QED  BY <2>2
<1> DEFINE Rest(j) ==
         /\ \A k \in (1..n) \ {1} : j[k - 1] < j[k]
         /\ j[1] \in p.from..(p.end - 1)
         /\ j[n] - j[1] <= JourneyDays
           Made(f) == {j \in [DOMAIN f -> UNION Reporting!Range(f)] :
                        /\ \A k \in DOMAIN f : j[k] \in f[k]
                        /\ \A k \in DOMAIN f \ {1} : j[k - 1] < j[k]
                        /\ j[1] \in p.from..(p.end - 1)
                        /\ j[Len(f)] - j[1] <= JourneyDays}
<1>6. Reporting!Journeys(av, p) = Made(av) /\ RealIn(w, legs, p) = Made(all)
  BY DEF Reporting!Journeys, RealIn, all
<1>7. \A j : j \in Made(av) <=> j = [k \in 1..n |-> j[k]] /\ (\A k \in 1..n : j[k] \in av[k]) /\ Rest(j)
  <2> TAKE j
  <2>1. j \in [DOMAIN av -> UNION Reporting!Range(av)] /\ (\A k \in DOMAIN av : j[k] \in av[k])
            <=> j = [k \in 1..n |-> j[k]] /\ \A k \in 1..n : j[k] \in av[k]
    BY <1>1, <1>5
  <2> QED  BY <1>1, <2>1
<1>8. \A j : j \in Made(all) <=> j = [k \in 1..n |-> j[k]] /\ (\A k \in 1..n : j[k] \in all[k]) /\ Rest(j)
  <2> TAKE j
  <2>1. j \in [DOMAIN all -> UNION Reporting!Range(all)] /\ (\A k \in DOMAIN all : j[k] \in all[k])
            <=> j = [k \in 1..n |-> j[k]] /\ \A k \in 1..n : j[k] \in all[k]
    BY <1>2, <1>5
  <2> QED  BY <1>2, <2>1
<1> HIDE DEF Made
<1>9. Made(av) \subseteq Made(all)
  BY <1>4, <1>7, <1>8
<1>10. ASSUME \A k \in 1..n : known[k].whole, NEW j \in Made(all) PROVE j \in Made(av)
  <2>1. \A k \in 1..n : legs[k] \in Supported /\ known[k].found = av[k]
    BY <1>10 DEF KnownOf, n
  <2>2. \A k \in 1..n : j[k] \in w.departures[legs[k]] /\ j[k] \in Int /\ w.shift[legs[k]] \in -1..1
    BY <1>3, <1>8, <1>10, <2>1, WorldsAssumption
  <2>3. \A k \in 1..n : j[1] <= j[k] /\ j[k] <= j[n]
    BY <1>1, <1>8, <1>10, <2>2, DaysBetween
  <2>4. j[1] \in p.from..(p.end - 1) /\ j[n] - j[1] <= JourneyDays /\ 1 \in 1..n /\ n \in 1..n
    BY <1>1, <1>8, <1>10
  <2>5. ASSUME NEW k \in 1..n PROVE j[k] \in av[k]
    <3> DEFINE d == j[k]
               h == w.shift[legs[k]]
    <3>1. d \in Int /\ h \in -1..1 /\ j[1] \in Int /\ j[n] \in Int /\ j[1] <= d /\ d <= j[n]
      BY <2>2, <2>3, <2>4
    <3>2. p.from <= j[1] /\ j[1] <= p.end - 1 /\ j[n] - j[1] <= JourneyDays /\ p.from \in Int /\ p.end \in Int
      BY <2>4
    <3>3. d \in w.departures[legs[k]]
      BY <2>2
    <3>4. known[k].whole /\ KnownOf(w, p, legs[k], known[k])
      BY <1>10 DEF n
    <3> HIDE DEF d, h
    <3>5. p.from - 1 <= d + h /\ d + h <= p.end + JourneyDays
      BY <1>1, <3>1, <3>2
    <3>6. d \in known[k].found
      BY <3>3, <3>4, <3>5 DEF KnownOf, h
    <3> QED  BY <2>1, <3>6 DEF d
  <2> QED  BY <1>7, <1>8, <1>10, <2>5
<1>11. (\A k \in 1..n : known[k].whole) => Made(av) = Made(all)
  BY <1>9, <1>10
<1> QED  BY <1>6, <1>9, <1>11 DEF n

LEMMA CandidateIs ==
    ASSUME NEW g \in Inputs
    PROVE  /\ Len(g.candidates) \in Nat /\ DOMAIN g.candidates = 1..Len(g.candidates)
           /\ \A c \in DOMAIN g.candidates :
                 LET k == g.candidates[c]
                 IN k.legs \in Seq(STRING) /\ k.access \in Seq(STRING) /\ (k.access # <<>> => k.legs # <<>>)
<1> DEFINE C == [legs : Seq(STRING), access : Seq(STRING), group : STRING, meets : STRING]
<1>1. g.candidates \in Seq(C) /\ \A i \in DOMAIN g.candidates : g.candidates[i].access # <<>> => g.candidates[i].legs # <<>>
  BY InputsAssumption
<1>2. Len(g.candidates) \in Nat /\ DOMAIN g.candidates = 1..Len(g.candidates)
  BY <1>1, LenProperties
<1>3. \A c \in DOMAIN g.candidates : g.candidates[c] \in C
  BY <1>1, <1>2, ElementOfSeq
<1> QED  BY <1>1, <1>2, <1>3

\* The variants of a candidate and their legs are lists.
LEMMA VariantsAre ==
    ASSUME NEW g \in Inputs, NEW c \in DOMAIN g.candidates
    PROVE  /\ Len(VariantsOf(g, c)) \in Nat /\ DOMAIN VariantsOf(g, c) = 1..Len(VariantsOf(g, c))
           /\ \A v \in DOMAIN VariantsOf(g, c) : IsList(VariantsOf(g, c)[v])
<1> DEFINE k == g.candidates[c]
<1>1. k.legs \in Seq(STRING) /\ k.access \in Seq(STRING) /\ (k.access # <<>> => k.legs # <<>>)
  BY CandidateIs
<1>2. VariantsOf(g, c) = IF k.access = <<>> THEN <<k.legs>> ELSE [i \in DOMAIN k.access |-> <<k.access[i]>> \o Tail(k.legs)]
  BY DEF VariantsOf, Reporting!Variants
<1> HIDE DEF k
<1>3. VariantsOf(g, c) \in Seq(Seq(STRING))
  <2>1. CASE k.access = <<>>
    BY <1>1, <1>2, <2>1
  <2>2. CASE k.access # <<>>
    <3>1. Tail(k.legs) \in Seq(STRING)
      BY <1>1, <2>2, HeadTailProperties
    <3>2. DOMAIN k.access = 1..Len(k.access) /\ Len(k.access) \in Nat
      BY <1>1, LenProperties
    <3>3. \A i \in 1..Len(k.access) : <<k.access[i]>> \o Tail(k.legs) \in Seq(STRING)
      <4> SUFFICES ASSUME NEW i \in 1..Len(k.access) PROVE <<k.access[i]>> \o Tail(k.legs) \in Seq(STRING)
        OBVIOUS
      <4>1. k.access[i] \in STRING
        BY <1>1, ElementOfSeq
      <4>2. <<k.access[i]>> \in Seq(STRING)
        BY <4>1
      <4> QED  BY <3>1, <4>2, ConcatProperties
    <3>4. VariantsOf(g, c) \in [1..Len(k.access) -> Seq(STRING)]
      BY <1>2, <2>2, <3>2, <3>3
    <3>5. \A S : [1..Len(k.access) -> S] \subseteq Seq(S)
      BY <3>2, SeqDef
    <3> QED  BY <3>4, <3>5
  <2> QED  BY <2>1, <2>2
<1>4. Len(VariantsOf(g, c)) \in Nat /\ DOMAIN VariantsOf(g, c) = 1..Len(VariantsOf(g, c))
  BY <1>3, LenProperties
<1>5. \A v \in DOMAIN VariantsOf(g, c) : VariantsOf(g, c)[v] \in Seq(STRING)
  BY <1>3, <1>4, ElementOfSeq
<1> QED  BY <1>4, <1>5 DEF IsList

(***************************************************************************)
(* The order of the variants.                                              *)
(***************************************************************************)
LEMMA PlaceIs ==
    ASSUME NEW g \in Inputs
    PROVE  /\ \A c, v : <<c, v>> \in PlacesOf(g) <=> c \in DOMAIN g.candidates /\ v \in DOMAIN VariantsOf(g, c)
           /\ \A q \in PlacesOf(g) : q = <<q[1], q[2]>> /\ q[1] \in Nat /\ q[2] \in Nat /\ q[1] >= 1 /\ q[2] >= 1
           /\ \A q \in PlacesOf(g) : q[1] <= Len(g.candidates) /\ q[2] <= Len(VariantsOf(g, q[1]))
<1>1. \A c, v : <<c, v>> \in PlacesOf(g) <=> c \in DOMAIN g.candidates /\ v \in DOMAIN VariantsOf(g, c)
  <2> TAKE c, v
  <2>1. ASSUME <<c, v>> \in PlacesOf(g) PROVE c \in DOMAIN g.candidates /\ v \in DOMAIN VariantsOf(g, c)
    <3>1. PICK d \in DOMAIN g.candidates : <<c, v>> \in {d} \X DOMAIN VariantsOf(g, d)
      BY <2>1 DEF PlacesOf
    <3> QED  BY <3>1
  <2>2. ASSUME c \in DOMAIN g.candidates, v \in DOMAIN VariantsOf(g, c) PROVE <<c, v>> \in PlacesOf(g)
    <3>1. <<c, v>> \in {c} \X DOMAIN VariantsOf(g, c)
      BY <2>2
    <3> QED  BY <2>2, <3>1 DEF PlacesOf
  <2> QED  BY <2>1, <2>2
<1>2. ASSUME NEW q \in PlacesOf(g)
      PROVE  q = <<q[1], q[2]>> /\ q[1] \in DOMAIN g.candidates /\ q[2] \in DOMAIN VariantsOf(g, q[1])
  <2>1. PICK d \in DOMAIN g.candidates : q \in {d} \X DOMAIN VariantsOf(g, d)
    BY DEF PlacesOf
  <2> QED  BY <2>1
<1>3. ASSUME NEW q \in PlacesOf(g)
      PROVE  /\ q[1] \in Nat /\ q[2] \in Nat /\ q[1] >= 1 /\ q[2] >= 1
             /\ q[1] <= Len(g.candidates) /\ q[2] <= Len(VariantsOf(g, q[1]))
  <2>1. q[1] \in 1..Len(g.candidates) /\ Len(g.candidates) \in Nat
    BY <1>2, CandidateIs
  <2>2. q[2] \in 1..Len(VariantsOf(g, q[1])) /\ Len(VariantsOf(g, q[1])) \in Nat
    BY <1>2, VariantsAre
  <2> QED  BY <2>1, <2>2
<1> QED  BY <1>1, <1>2, <1>3

LEMMA NextPlace ==
    ASSUME NEW g \in Inputs, NEW q \in PlacesOf(g)
    PROVE  /\ BeforeIn(g, <<q[1], q[2] + 1>>) = BeforeIn(g, q) \cup {q} /\ q \notin BeforeIn(g, q)
           /\ \A r \in BeforeIn(g, q) : BeforeIn(g, r) \cup {r} \subseteq BeforeIn(g, q)
<1>1. q[1] \in Nat /\ q[2] \in Nat /\ q = <<q[1], q[2]>>
  BY PlaceIs
<1>2. ASSUME NEW r \in PlacesOf(g)
      PROVE  r \in BeforeIn(g, <<q[1], q[2] + 1>>) <=> r \in BeforeIn(g, q) \cup {q}
  <2>1. r[1] \in Nat /\ r[2] \in Nat /\ r = <<r[1], r[2]>>
    BY PlaceIs
  <2>2. r[2] < q[2] + 1 <=> r[2] < q[2] \/ r[2] = q[2]
    BY <1>1, <2>1
  <2>3. r = q <=> r[1] = q[1] /\ r[2] = q[2]
    BY <1>1, <2>1
  <2> QED  BY <2>2, <2>3 DEF BeforeIn
<1>3. BeforeIn(g, <<q[1], q[2] + 1>>) = BeforeIn(g, q) \cup {q}
  BY <1>2 DEF BeforeIn
<1>4. q \notin BeforeIn(g, q)
  BY <1>1 DEF BeforeIn
<1>5. ASSUME NEW r \in BeforeIn(g, q), NEW s \in BeforeIn(g, r) PROVE s \in BeforeIn(g, q)
  <2>1. r \in PlacesOf(g) /\ s \in PlacesOf(g)
    BY DEF BeforeIn
  <2>2. r[1] \in Nat /\ r[2] \in Nat /\ s[1] \in Nat /\ s[2] \in Nat
    BY <2>1, PlaceIs
  <2>3. r[1] < q[1] \/ (r[1] = q[1] /\ r[2] < q[2])
    BY DEF BeforeIn
  <2>4. s[1] < r[1] \/ (s[1] = r[1] /\ s[2] < r[2])
    BY DEF BeforeIn
  <2>5. s[1] < q[1] \/ (s[1] = q[1] /\ s[2] < q[2])
    BY <1>1, <2>2, <2>3, <2>4
  <2> QED  BY <2>1, <2>5 DEF BeforeIn
<1> QED  BY <1>3, <1>4, <1>5

LEMMA NextCandidate ==
    ASSUME NEW g \in Inputs, NEW c \in DOMAIN g.candidates
    PROVE  BeforeIn(g, <<c + 1, 1>>) = BeforeIn(g, <<c, Len(VariantsOf(g, c)) + 1>>)
<1>1. c \in Nat /\ Len(VariantsOf(g, c)) \in Nat
  BY CandidateIs, VariantsAre
<1>2. ASSUME NEW r \in PlacesOf(g)
      PROVE  (r[1] < c + 1 \/ (r[1] = c + 1 /\ r[2] < 1))
                <=> (r[1] < c \/ (r[1] = c /\ r[2] < Len(VariantsOf(g, c)) + 1))
  <2> DEFINE l == Len(VariantsOf(g, c))
  <2>1. r[1] \in Nat /\ r[2] \in Nat /\ r[2] >= 1 /\ (r[1] = c => r[2] <= l) /\ l \in Nat
    BY <1>1, PlaceIs
  <2> HIDE DEF l
  <2>2. (r[1] < c + 1 \/ (r[1] = c + 1 /\ r[2] < 1)) <=> (r[1] < c \/ (r[1] = c /\ r[2] < l + 1))
    BY <1>1, <2>1
  <2> QED  BY <2>2 DEF l
<1>3. BeforeIn(g, <<c + 1, 1>>) = {r \in PlacesOf(g) : r[1] < c + 1 \/ (r[1] = c + 1 /\ r[2] < 1)}
  BY DEF BeforeIn
<1>4. BeforeIn(g, <<c, Len(VariantsOf(g, c)) + 1>>) = {r \in PlacesOf(g) : r[1] < c \/ (r[1] = c /\ r[2] < Len(VariantsOf(g, c)) + 1)}
  BY DEF BeforeIn
<1> QED  BY <1>2, <1>3, <1>4

LEMMA FirstAndLastPlace ==
    ASSUME NEW g \in Inputs
    PROVE  BeforeIn(g, <<1, 1>>) = {} /\ BeforeIn(g, <<Len(g.candidates) + 1, 1>>) = PlacesOf(g)
<1>1. Len(g.candidates) \in Nat
  BY CandidateIs
<1>2. BeforeIn(g, <<1, 1>>) = {}
  <2>1. \A r \in PlacesOf(g) : ~(r[1] < 1) /\ ~(r[2] < 1)
    BY PlaceIs
  <2> QED  BY <2>1 DEF BeforeIn
<1>3. \A r \in PlacesOf(g) : r[1] < Len(g.candidates) + 1
  BY <1>1, PlaceIs
<1> QED  BY <1>2, <1>3 DEF BeforeIn

\* A row is added for the variant in hand.
LEMMA RowAdded ==
    ASSUME NEW g \in Inputs, NEW q \in PlacesOf(g), NEW rs, IsList(rs), RowsUpTo(g, rs, q),
           IsFiniteSet(BeforeIn(g, q)), NEW e, e.legs = VariantsOf(g, q[1])[q[2]]
    PROVE  RowsUpTo(g, Append(rs, e), <<q[1], q[2] + 1>>)
<1> DEFINE B == BeforeIn(g, q)
           place1 == <<q[1], q[2] + 1>>
<1>1. BeforeIn(g, place1) = B \cup {q} /\ q \notin B
  BY NextPlace
<1>2. Cardinality(BeforeIn(g, place1)) = Cardinality(B) + 1 /\ Cardinality(B) \in Nat
  BY <1>1, FS_AddElement, FS_CardinalityType
<1>3. /\ Len(Append(rs, e)) = Len(rs) + 1 /\ Len(rs) = Cardinality(B)
      /\ \A i \in 1..Len(rs) : Append(rs, e)[i] = rs[i]
      /\ Append(rs, e)[Len(rs) + 1] = e
  BY ListAppend DEF RowsUpTo
<1>4. ASSUME NEW r \in B
      PROVE  Append(rs, e)[Cardinality(BeforeIn(g, r)) + 1].legs = VariantsOf(g, r[1])[r[2]]
  <2>1. BeforeIn(g, r) \cup {r} \subseteq B /\ r \in PlacesOf(g)
    BY NextPlace DEF BeforeIn
  <2>2. r \notin BeforeIn(g, r)
    BY <2>1, NextPlace
  <2>3. IsFiniteSet(BeforeIn(g, r) \cup {r}) /\ Cardinality(BeforeIn(g, r) \cup {r}) <= Cardinality(B)
    BY <2>1, FS_Subset
  <2>4. IsFiniteSet(BeforeIn(g, r))
    BY <2>3, FS_Subset
  <2>5. Cardinality(BeforeIn(g, r)) \in Nat /\ Cardinality(BeforeIn(g, r) \cup {r}) = Cardinality(BeforeIn(g, r)) + 1
    BY <2>2, <2>4, FS_AddElement, FS_CardinalityType
  <2>6. Cardinality(BeforeIn(g, r)) + 1 \in 1..Len(rs)
    BY <1>2, <1>3, <2>3, <2>5
  <2>7. rs[Cardinality(BeforeIn(g, r)) + 1].legs = VariantsOf(g, r[1])[r[2]]
    BY DEF RowsUpTo
  <2> QED  BY <1>3, <2>6, <2>7
<1>5. Append(rs, e)[Cardinality(B) + 1].legs = VariantsOf(g, q[1])[q[2]]
  BY <1>3
<1>6. \A r \in BeforeIn(g, place1) : Append(rs, e)[Cardinality(BeforeIn(g, r)) + 1].legs = VariantsOf(g, r[1])[r[2]]
  BY <1>1, <1>4, <1>5
<1>7. Len(Append(rs, e)) = Cardinality(BeforeIn(g, place1))
  BY <1>2, <1>3
<1> QED  BY <1>6, <1>7 DEF RowsUpTo

Stages == {"start", "candidate", "variant", "leg", "call", "done", "failed"}

Working == {"candidate", "variant", "leg", "call"}

\* What is given, and what is asked for.
Given ==
    /\ input \in Inputs /\ world \in Worlds /\ limits \in Settings
    /\ stage \in Stages /\ late \in BOOLEAN /\ incomplete \in BOOLEAN
    /\ DOMAIN period = {"from", "end"} /\ period.from \in Int /\ period.end \in Int
    /\ stage = "start" => rows = <<>> /\ DOMAIN memo = {} /\ place = Reporting!Nowhere
    /\ stage \in Working => input.to >= input.today
    /\ stage \in Working \cup {"done"} /\ input.to >= input.today /\ ~incomplete =>
          period.from = Reporting!FirstDay /\ period.end = input.to + 1

PlaceFields == {"candidate", "variant", "leg", "day"}

\* Where the check is in the graph.
InHand ==
    /\ DOMAIN place = PlaceFields /\ DOMAIN row = Fields
    /\ stage = "candidate" => place.candidate \in 1..(Len(input.candidates) + 1)
    /\ stage \in {"variant", "leg", "call"} =>
          /\ place.candidate \in DOMAIN input.candidates
          /\ place.variant \in 1..(Len(VariantsOf(input, place.candidate)) + 1)
    /\ stage \in {"leg", "call"} =>
          /\ place.variant \in DOMAIN VariantsOf(input, place.candidate)
          /\ row.legs = VariantsOf(input, place.candidate)[place.variant]
          /\ row.journeys = {} /\ row.state = "" /\ row.whole \in BOOLEAN

\* What the row in hand has of its legs.
LegsInHand ==
    stage \in {"leg", "call"} =>
        /\ IsList(row.available) /\ place.leg \in Nat
        /\ Len(row.available) = place.leg - 1 /\ Len(row.available) <= Len(row.legs)
        /\ \A k \in 1..Len(row.available) :
              /\ row.legs[k] \in DOMAIN memo
              /\ row.available[k] = memo[row.legs[k]].found
              /\ row.whole => memo[row.legs[k]].whole

\* What the calls under way have brought.
Calling ==
    stage = "call" =>
        LET s == row.legs[place.leg]
        IN /\ place.leg <= Len(row.legs) /\ s \in Supported /\ s \notin DOMAIN memo
           /\ place.day \in Int
           /\ DOMAIN found = {"found", "whole"} /\ found.whole \in BOOLEAN
           /\ found.found \subseteq world.departures[s]
           /\ found.whole => \A d \in world.departures[s] :
                 period.from - 1 <= d + world.shift[s] /\ d + world.shift[s] < place.day => d \in found.found

Memory ==
    \A s \in DOMAIN memo : KnownOf(world, period, s, memo[s]) /\ memo[s].whole \in BOOLEAN

Here == <<place.candidate, IF stage = "candidate" THEN 1 ELSE place.variant>>

Reported ==
    /\ IsList(rows)
    /\ \A i \in DOMAIN rows : RowTrue(world, period, rows[i], late)
    /\ stage \in Working /\ ~incomplete =>
          IsFiniteSet(BeforeIn(input, Here)) /\ RowsUpTo(input, rows, Here)
    /\ stage = "done" /\ input.to >= input.today /\ ~incomplete =>
          RowsUpTo(input, rows, <<Len(input.candidates) + 1, 1>>)
    /\ ~incomplete => \A i \in DOMAIN rows : RowWhole(world, period, rows[i], late)

ReportInv == Given /\ InHand /\ LegsInHand /\ Calling /\ Memory /\ Reported

LEMMA RepInit == Reporting!Init => ReportInv
<1> SUFFICES ASSUME Reporting!Init PROVE ReportInv
  OBVIOUS
<1>1. /\ input \in Inputs /\ world \in Worlds /\ limits \in Settings
      /\ stage = "start" /\ place = Reporting!Nowhere /\ period = [from |-> 0, end |-> 0]
      /\ memo = [s \in {} |-> Reporting!Nothing] /\ row = Reporting!NoRow /\ rows = <<>>
      /\ incomplete = ~input.complete /\ late = FALSE
  BY DEF Reporting!Init
<1>2. Given
  <2>1. incomplete \in BOOLEAN
    BY <1>1, InputsAssumption
  <2>2. DOMAIN memo = {}
    BY <1>1
  <2>3. DOMAIN period = {"from", "end"} /\ period.from \in Int /\ period.end \in Int
    BY <1>1
  <2>4. stage \in Stages /\ late \in BOOLEAN /\ stage \notin Working \cup {"done"}
    BY <1>1 DEF Stages, Working
  <2> QED  BY <1>1, <2>1, <2>2, <2>3, <2>4 DEF Given
<1>3. InHand
  BY <1>1 DEF InHand, PlaceFields, Fields, Reporting!Nowhere, Reporting!NoRow
<1>4. LegsInHand /\ Calling
  BY <1>1 DEF LegsInHand, Calling
<1>5. Memory
  BY <1>1 DEF Memory
<1>6. Reported
  <2>1. IsList(rows) /\ DOMAIN rows = {}
    BY <1>1, EmptySeq DEF IsList
  <2> QED  BY <1>1, <2>1 DEF Reported, Working
<1> QED  BY <1>2, <1>3, <1>4, <1>5, <1>6 DEF ReportInv

------------------------------------------------------------------------------
(* Steps that leave the world and the period alone and add no row. *)

LEMMA RowsStay ==
    ASSUME ReportInv, UNCHANGED <<input, world, period, rows>>, late => late', incomplete => incomplete',
           late' \in BOOLEAN, incomplete' \in BOOLEAN
    PROVE  /\ IsList(rows)'
           /\ \A i \in DOMAIN rows' : RowTrue(world, period, rows[i], late)'
           /\ ~incomplete' => \A i \in DOMAIN rows' : RowWhole(world, period, rows[i], late)'
<1>0. Reported /\ late \in BOOLEAN /\ incomplete \in BOOLEAN
  BY DEF ReportInv, Given
<1>1. IsList(rows)'
  BY <1>0 DEF Reported
<1>2. ASSUME NEW i \in DOMAIN rows PROVE RowTrue(world, period, rows[i], late')
  BY <1>0 DEF Reported, RowTrue
<1>3. ASSUME ~incomplete', NEW i \in DOMAIN rows PROVE RowWhole(world, period, rows[i], late')
  BY <1>0, <1>3 DEF Reported, RowWhole
<1> QED  BY <1>1, <1>2, <1>3

LEMMA StartStep == ReportInv /\ Reporting!Start => ReportInv'
<1> SUFFICES ASSUME ReportInv, Reporting!Start PROVE ReportInv'
  OBVIOUS
<1>0. Given /\ InHand /\ Reported
  BY DEF ReportInv
<1>1. /\ stage = "start" /\ UNCHANGED <<input, world, limits, place, memo, found, row, rows, late>>
      /\ IF input.to < input.today
         THEN stage' = "done" /\ UNCHANGED <<period, incomplete>>
         ELSE /\ stage' = "candidate"
              /\ period' = [from |-> Reporting!FirstDay, end |-> Reporting!Min({input.to + 1, Reporting!SampledEnd})]
              /\ incomplete' = (incomplete \/ input.to + 1 > Reporting!SampledEnd)
  BY DEF Reporting!Start, Reporting!given, Reporting!lookups
<1>2. input.to \in Int /\ input.today \in Int /\ input.from \in Int /\ limits.dates \in Nat
  BY <1>0, InputsAssumption, ReportLimitsAssumption DEF Given
<1>3. Reporting!FirstDay \in Int /\ Reporting!SampledEnd \in Int
  <2>1. Reporting!FirstDay \in {input.from, input.today}
    BY <1>2, SmallerOfTwo DEF Reporting!FirstDay
  <2>2. Reporting!FirstDay \in Int
    BY <1>2, <2>1
  <2> QED  BY <1>2, <2>2 DEF Reporting!SampledEnd
<1>4. /\ Reporting!Min({input.to + 1, Reporting!SampledEnd}) \in Int
      /\ ~(input.to + 1 > Reporting!SampledEnd) => Reporting!Min({input.to + 1, Reporting!SampledEnd}) = input.to + 1
  <2> DEFINE a == input.to + 1
             b == Reporting!SampledEnd
             x == Reporting!Min({a, b})
  <2>1. a \in Int /\ b \in Int
    BY <1>2, <1>3
  <2> HIDE DEF a, b
  <2>2. x \in {a, b} /\ x <= a /\ x <= b
    BY <2>1, SmallerOfTwo
  <2> HIDE DEF x
  <2>3. x \in Int /\ (~(a > b) => x = a)
    BY <2>1, <2>2
  <2> QED  BY <2>3 DEF x, a, b
<1>5. rows = <<>> /\ DOMAIN rows = {} /\ DOMAIN memo = {} /\ place = Reporting!Nowhere
  BY <1>0, <1>1 DEF Given
<1>6. incomplete \in BOOLEAN /\ incomplete' \in BOOLEAN /\ (stage' = "candidate" /\ ~incomplete' => ~(input.to + 1 > Reporting!SampledEnd))
  BY <1>0, <1>1 DEF Given
<1>7. Given'
  <2>1. CASE input.to < input.today
    BY <1>0, <1>1, <1>2, <1>6, <2>1 DEF Given, Stages, Working
  <2>2. CASE ~(input.to < input.today)
    <3>1. input.to >= input.today
      BY <1>2, <2>2
    <3>2. Reporting!FirstDay' = Reporting!FirstDay
      BY <1>1 DEF Reporting!FirstDay
    <3> QED  BY <1>0, <1>1, <1>3, <1>4, <1>6, <2>2, <3>1, <3>2 DEF Given, Stages, Working
  <2> QED  BY <2>1, <2>2
<1>8. stage' \in {"candidate", "done"} /\ (stage' = "done" => ~(input.to >= input.today))
  BY <1>1, <1>2
<1>9. InHand'
  <2>1. place.candidate = 1 /\ 1 \in 1..(Len(input.candidates) + 1)
    BY <1>0, <1>5, CandidateIs DEF Given, Reporting!Nowhere
  <2> QED  BY <1>0, <1>1, <1>8, <2>1 DEF InHand
<1>10. LegsInHand' /\ Calling'
  BY <1>8 DEF LegsInHand, Calling
<1>11. Memory'
  BY <1>1, <1>5 DEF Memory
<1>12. Reported'
  <2>1. BeforeIn(input, <<1, 1>>) = {} /\ IsFiniteSet({}) /\ Cardinality({}) = 0
    BY <1>0, FirstAndLastPlace, FS_EmptySet DEF Given
  <2>2. stage' = "candidate" => Here' = <<1, 1>>
    BY <1>1, <1>5 DEF Here, Reporting!Nowhere
  <2>3. RowsUpTo(input, rows, <<1, 1>>)
    BY <1>5, <2>1, EmptySeq DEF RowsUpTo
  <2>4. stage' \in Working => stage' = "candidate"
    BY <1>8 DEF Working
  <2> QED  BY <1>0, <1>1, <1>5, <1>8, <2>1, <2>2, <2>3, <2>4 DEF Reported
<1> QED  BY <1>7, <1>9, <1>10, <1>11, <1>12 DEF ReportInv

LEMMA RowLegs ==
    ASSUME Given, InHand, stage \in {"leg", "call"}
    PROVE  IsList(row.legs) /\ Len(row.legs) \in Nat /\ DOMAIN row.legs = 1..Len(row.legs)
<1>1. IsList(row.legs)
  BY VariantsAre DEF Given, InHand
<1> QED  BY <1>1, ListFacts

LEMMA ExpireStep == ReportInv /\ Reporting!Expire => ReportInv'
<1> SUFFICES ASSUME ReportInv, Reporting!Expire PROVE ReportInv'
  OBVIOUS
<1>1. /\ late' = TRUE
      /\ UNCHANGED <<input, world, limits, stage, place, period, memo, found, row, rows, incomplete>>
  BY DEF Reporting!Expire, Reporting!given, Reporting!lookups, Reporting!report
<1>2. Given'
  BY <1>1 DEF ReportInv, Given, Reporting!FirstDay
<1>3. InHand' /\ LegsInHand' /\ Calling' /\ Memory'
  BY <1>1 DEF ReportInv, InHand, LegsInHand, Calling, Memory
<1>4. incomplete \in BOOLEAN /\ late' \in BOOLEAN
  BY <1>1 DEF ReportInv, Given
<1>5. /\ IsList(rows)'
      /\ \A i \in DOMAIN rows' : RowTrue(world, period, rows[i], late)'
      /\ ~incomplete' => \A i \in DOMAIN rows' : RowWhole(world, period, rows[i], late)'
  BY <1>1, <1>4, RowsStay
<1>6. Here' = Here
  BY <1>1 DEF Here
<1>7. Reported'
  BY <1>1, <1>5, <1>6 DEF ReportInv, Reported
<1> QED  BY <1>2, <1>3, <1>7 DEF ReportInv

LEMMA FailStep == ReportInv /\ Reporting!Fail => ReportInv'
<1> SUFFICES ASSUME ReportInv, Reporting!Fail PROVE ReportInv'
  OBVIOUS
<1>1. /\ stage' = "failed"
      /\ UNCHANGED <<input, world, limits, place, period, memo, found, row, rows, incomplete, late>>
  BY DEF Reporting!Fail, Reporting!given, Reporting!lookups, Reporting!report
<1>2. Given'
  BY <1>1 DEF ReportInv, Given, Stages, Working
<1>3. InHand' /\ LegsInHand' /\ Calling' /\ Memory'
  BY <1>1 DEF ReportInv, InHand, LegsInHand, Calling, Memory
<1>4. incomplete \in BOOLEAN /\ late \in BOOLEAN
  BY DEF ReportInv, Given
<1>5. /\ IsList(rows)'
      /\ \A i \in DOMAIN rows' : RowTrue(world, period, rows[i], late)'
      /\ ~incomplete' => \A i \in DOMAIN rows' : RowWhole(world, period, rows[i], late)'
  BY <1>1, <1>4, RowsStay
<1>6. Reported'
  BY <1>1, <1>5 DEF Reported, Working
<1> QED  BY <1>2, <1>3, <1>6 DEF ReportInv

LEMMA FailsAre ==
    Reporting!NothingToCheck \/ Reporting!TooManyVariants \/ Reporting!DeadlineSeen => Reporting!Fail
BY DEF Reporting!NothingToCheck, Reporting!TooManyVariants, Reporting!DeadlineSeen

\* Between rows: what must hold of the candidate and variant that come next.
LEMMA BetweenRows ==
    ASSUME ReportInv, UNCHANGED <<input, world, limits, period, memo, rows, late>>,
           stage' \in {"candidate", "variant"}, stage \in Working, incomplete' \in BOOLEAN, incomplete => incomplete',
           DOMAIN place' = PlaceFields, DOMAIN row' = Fields,
           stage' = "candidate" => place'.candidate \in 1..(Len(input.candidates) + 1),
           stage' = "variant" => /\ place'.candidate \in DOMAIN input.candidates
                                 /\ place'.variant \in 1..(Len(VariantsOf(input, place'.candidate)) + 1),
           ~incomplete' => BeforeIn(input, Here') = BeforeIn(input, Here)
    PROVE  ReportInv'
<1>0. Given /\ Memory /\ Reported /\ late \in BOOLEAN /\ incomplete \in BOOLEAN
  BY DEF ReportInv, Given
<1>1. Given'
  BY <1>0 DEF Given, Stages, Working, Reporting!FirstDay
<1>2. InHand'
  BY DEF InHand
<1>3. LegsInHand' /\ Calling'
  BY DEF LegsInHand, Calling
<1>4. Memory'
  BY <1>0 DEF Memory
<1>5. /\ IsList(rows)'
      /\ \A i \in DOMAIN rows' : RowTrue(world, period, rows[i], late)'
      /\ ~incomplete' => \A i \in DOMAIN rows' : RowWhole(world, period, rows[i], late)'
  BY <1>0, RowsStay
<1>6. ~incomplete' => IsFiniteSet(BeforeIn(input, Here')) /\ RowsUpTo(input, rows, Here')
  <2>1. ASSUME ~incomplete' PROVE IsFiniteSet(BeforeIn(input, Here)) /\ RowsUpTo(input, rows, Here)
    BY <1>0, <2>1 DEF Reported
  <2>2. ASSUME ~incomplete' PROVE RowsUpTo(input, rows, Here')
    BY <2>1, <2>2 DEF RowsUpTo
  <2> QED  BY <2>1, <2>2
<1>7. Reported'
  BY <1>5, <1>6 DEF Reported
<1> QED  BY <1>1, <1>2, <1>3, <1>4, <1>7 DEF ReportInv

LEMMA EnterCandidateStep == ReportInv /\ Reporting!EnterCandidate => ReportInv'
<1> SUFFICES ASSUME ReportInv, Reporting!EnterCandidate PROVE ReportInv'
  OBVIOUS
<1>1. /\ stage = "candidate" /\ stage' = "variant" /\ place.candidate \in DOMAIN input.candidates
      /\ row' = [Reporting!NoRow EXCEPT !.scheme = Reporting!NumberOf(Reporting!Candidate)]
      /\ place' = [place EXCEPT !.variant = 1]
      /\ UNCHANGED <<input, world, limits, period, memo, found, rows, incomplete, late>>
  BY DEF Reporting!EnterCandidate, Reporting!given, Reporting!lookups
<1>2. Given /\ InHand /\ incomplete \in BOOLEAN
  BY DEF ReportInv, Given
<1>3. DOMAIN place' = PlaceFields /\ place'.candidate = place.candidate /\ place'.variant = 1
  BY <1>1, <1>2 DEF InHand, PlaceFields
<1>4. DOMAIN row' = Fields
  BY <1>1 DEF Reporting!NoRow, Fields
<1>5. 1 \in 1..(Len(VariantsOf(input, place'.candidate)) + 1)
  BY <1>1, <1>2, <1>3, VariantsAre DEF Given
<1>6. Here' = Here
  BY <1>1, <1>3 DEF Here
<1>7. incomplete' \in BOOLEAN /\ (incomplete => incomplete') /\ stage \in Working
  BY <1>1, <1>2 DEF Working
<1> QED  BY <1>1, <1>3, <1>4, <1>5, <1>6, <1>7, BetweenRows

LEMMA VariantsDoneStep == ReportInv /\ Reporting!VariantsDone => ReportInv'
<1> SUFFICES ASSUME ReportInv, Reporting!VariantsDone PROVE ReportInv'
  OBVIOUS
<1>1. /\ stage = "variant" /\ stage' = "candidate"
      /\ place.variant \notin DOMAIN VariantsOf(input, place.candidate)
      /\ place' = [place EXCEPT !.candidate = @ + 1]
      /\ UNCHANGED <<input, world, limits, period, memo, found, row, rows, incomplete, late>>
  BY DEF Reporting!VariantsDone, Reporting!LeaveCandidate, Reporting!given, Reporting!lookups, Reporting!report,
         VariantsOf, Reporting!Candidate
<1>2. Given /\ InHand /\ incomplete \in BOOLEAN
  BY DEF ReportInv, Given
<1>3. /\ DOMAIN place' = PlaceFields /\ place'.candidate = place.candidate + 1
      /\ DOMAIN row' = Fields
  BY <1>1, <1>2 DEF InHand, PlaceFields
<1>4. /\ place.candidate \in DOMAIN input.candidates /\ input \in Inputs
      /\ place.variant \in 1..(Len(VariantsOf(input, place.candidate)) + 1)
  BY <1>1, <1>2 DEF InHand, Given
<1>5. place.variant = Len(VariantsOf(input, place.candidate)) + 1
  BY <1>1, <1>4, VariantsAre
<1>6. place'.candidate \in 1..(Len(input.candidates) + 1)
  BY <1>3, <1>4, CandidateIs
<1>7. Here' = <<place.candidate + 1, 1>> /\ Here = <<place.candidate, Len(VariantsOf(input, place.candidate)) + 1>>
  BY <1>1, <1>3, <1>5 DEF Here
<1>8. BeforeIn(input, Here') = BeforeIn(input, Here)
  BY <1>4, <1>7, NextCandidate
<1>9. incomplete' \in BOOLEAN /\ (incomplete => incomplete') /\ stage \in Working
  BY <1>1, <1>2 DEF Working
<1> QED  BY <1>1, <1>3, <1>6, <1>8, <1>9, BetweenRows

LEMMA EnterVariantStep == ReportInv /\ Reporting!EnterVariant => ReportInv'
<1> SUFFICES ASSUME ReportInv, Reporting!EnterVariant PROVE ReportInv'
  OBVIOUS
<1>1. /\ stage = "variant" /\ place.variant \in DOMAIN VariantsOf(input, place.candidate)
      /\ UNCHANGED <<input, world, limits, period, memo, found, rows, late>>
      /\ IF Len(rows) >= limits.rows
         THEN stage' = "candidate" /\ place' = [place EXCEPT !.candidate = @ + 1] /\ incomplete' = TRUE /\ UNCHANGED row
         ELSE /\ row' = [Reporting!NoRow EXCEPT !.scheme = row.scheme, !.access = Reporting!RowsOf(row.scheme) + 1,
                                    !.legs = VariantsOf(input, place.candidate)[place.variant],
                                    !.whole = Reporting!Candidate.meets # "labels"]
              /\ stage' = "leg" /\ place' = [place EXCEPT !.leg = 1]
              /\ UNCHANGED incomplete
  BY DEF Reporting!EnterVariant, Reporting!LeaveCandidate, Reporting!given, Reporting!lookups, VariantsOf, Reporting!Candidate
<1>2. Given /\ InHand /\ Memory /\ Reported /\ incomplete \in BOOLEAN /\ late \in BOOLEAN /\ input \in Inputs
  BY DEF ReportInv, Given
<1>3. /\ place.candidate \in DOMAIN input.candidates
      /\ place.variant \in 1..(Len(VariantsOf(input, place.candidate)) + 1)
  BY <1>1, <1>2 DEF InHand
<1>4. CASE Len(rows) >= limits.rows
  <2>1. /\ DOMAIN place' = PlaceFields /\ place'.candidate = place.candidate + 1
        /\ DOMAIN row' = Fields /\ incomplete' = TRUE /\ stage' = "candidate"
    BY <1>1, <1>2, <1>4 DEF InHand, PlaceFields
  <2>2. place'.candidate \in 1..(Len(input.candidates) + 1)
    BY <1>2, <1>3, <2>1, CandidateIs
  <2>3. stage \in Working
    BY <1>1 DEF Working
  <2> QED  BY <1>1, <2>1, <2>2, <2>3, BetweenRows
<1>5. CASE ~(Len(rows) >= limits.rows)
  <2>1. /\ DOMAIN place' = PlaceFields /\ place'.candidate = place.candidate /\ place'.variant = place.variant
        /\ place'.leg = 1 /\ stage' = "leg" /\ incomplete' = incomplete
    BY <1>1, <1>2, <1>5 DEF InHand, PlaceFields
  <2>2. /\ DOMAIN row' = Fields /\ row'.legs = VariantsOf(input, place.candidate)[place.variant]
        /\ row'.journeys = {} /\ row'.state = "" /\ row'.available = <<>>
        /\ row'.whole = (Reporting!Candidate.meets # "labels")
    BY <1>1, <1>5 DEF Reporting!NoRow, Fields
  <2>3. row'.whole \in BOOLEAN
    BY <2>2
  <2>4. Given'
    BY <1>1, <1>2, <2>1 DEF Given, Stages, Working, Reporting!FirstDay
  <2>5. InHand'
    BY <1>1, <1>3, <2>1, <2>2, <2>3 DEF InHand
  <2>6. LegsInHand'
    <3>1. IsList(<<>>) /\ Len(<<>>) = 0 /\ 1..0 = {}
      BY EmptySeq DEF IsList
    <3>2. IsList(row'.legs)
      BY <1>1, <1>2, <1>3, <2>2, VariantsAre
    <3>3. Len(row'.legs) \in Nat
      BY <3>2, ListFacts
    <3>4. IsList(row'.available) /\ Len(row'.available) = 0 /\ place'.leg = 1
      BY <2>1, <2>2, <3>1
    <3>5. 0 <= Len(row'.legs)
      BY <3>3
    <3>6. 1 \in Nat /\ 0 = 1 - 1 /\ \A k \in 1..0 : FALSE
      OBVIOUS
    <3> QED  BY <3>4, <3>5, <3>6 DEF LegsInHand
  <2>7. Calling'
    BY <2>1 DEF Calling
  <2>8. Memory'
    BY <1>1, <1>2 DEF Memory
  <2>9. Reported'
    <3>1. Here' = Here /\ stage \in Working /\ stage' \in Working /\ stage' # "done"
      BY <1>1, <2>1 DEF Here, Working
    <3> QED  BY <1>1, <1>2, <2>1, <3>1 DEF Reported
  <2> QED  BY <2>4, <2>5, <2>6, <2>7, <2>8, <2>9 DEF ReportInv
<1> QED  BY <1>4, <1>5

(***************************************************************************)
(* The legs of a row.                                                      *)
(***************************************************************************)
\* A section is taken over, with what is known of it.
LEMMA TakeStep ==
    ASSUME ReportInv, stage \in {"leg", "call"}, place.leg \in DOMAIN row.legs,
           UNCHANGED <<input, world, limits, period, rows, incomplete, late>>,
           NEW value, Reporting!Take(value), value.whole \in BOOLEAN,
           KnownOf(world, period, row.legs[place.leg], value),
           DOMAIN memo' = DOMAIN memo \cup {row.legs[place.leg]},
           memo'[row.legs[place.leg]] = value,
           \A s \in DOMAIN memo : memo'[s] = memo[s]
    PROVE  ReportInv'
<1> DEFINE s == row.legs[place.leg]
<1>0. Given /\ InHand /\ LegsInHand /\ Memory /\ Reported
  BY DEF ReportInv
<1>1. /\ row' = [row EXCEPT !.available = Append(row.available, value.found), !.whole = row.whole /\ value.whole]
      /\ stage' = "leg" /\ place' = [place EXCEPT !.leg = place.leg + 1]
  BY DEF Reporting!Take
<1>2. /\ DOMAIN row' = Fields /\ row'.legs = row.legs /\ row'.journeys = row.journeys /\ row'.state = row.state
      /\ row'.available = Append(row.available, value.found) /\ row'.whole = (row.whole /\ value.whole)
  BY <1>0, <1>1 DEF InHand, Fields
<1>3. /\ DOMAIN place' = PlaceFields /\ place'.leg = place.leg + 1
      /\ place'.candidate = place.candidate /\ place'.variant = place.variant
  BY <1>0, <1>1 DEF InHand, PlaceFields
<1>4. Given'
  BY <1>0, <1>1 DEF Given, Stages, Working, Reporting!FirstDay
<1>5. row.whole \in BOOLEAN /\ row'.whole \in BOOLEAN
  BY <1>0, <1>2 DEF InHand
<1>6. InHand'
  BY <1>0, <1>1, <1>2, <1>3, <1>5 DEF InHand
<1>7. IsList(row.legs) /\ Len(row.legs) \in Nat /\ DOMAIN row.legs = 1..Len(row.legs)
  BY <1>0, RowLegs
<1>8. /\ IsList(row.available) /\ place.leg \in Nat /\ Len(row.available) = place.leg - 1
      /\ \A k \in 1..Len(row.available) :
            /\ row.legs[k] \in DOMAIN memo
            /\ row.available[k] = memo[row.legs[k]].found
            /\ row.whole => memo[row.legs[k]].whole
  BY <1>0 DEF LegsInHand
<1>9. LegsInHand'
  <2>1. /\ IsList(row'.available) /\ Len(row'.available) = Len(row.available) + 1
        /\ \A k \in 1..Len(row.available) : row'.available[k] = row.available[k]
        /\ row'.available[Len(row.available) + 1] = value.found
    BY <1>2, <1>8, ListAppend
  <2>2. Len(row.available) + 1 = place.leg /\ Len(row'.available) = place.leg
    BY <1>8, <2>1
  <2>3. place'.leg \in Nat /\ Len(row'.available) = place'.leg - 1 /\ Len(row'.available) <= Len(row'.legs)
    BY <1>2, <1>3, <1>7, <1>8, <2>2
  <2>4. \A k \in 1..Len(row'.available) : k = place.leg \/ k \in 1..Len(row.available)
    BY <1>8, <2>2
  <2>5. ASSUME NEW k \in 1..Len(row'.available)
        PROVE  /\ row'.legs[k] \in DOMAIN memo'
               /\ row'.available[k] = memo'[row'.legs[k]].found
               /\ row'.whole => memo'[row'.legs[k]].whole
    <3>1. CASE k = place.leg
      BY <1>2, <1>5, <2>1, <2>2, <3>1
    <3>2. CASE k \in 1..Len(row.available)
      BY <1>2, <1>5, <1>8, <2>1, <3>2
    <3> QED  BY <2>4, <3>1, <3>2
  <2> QED  BY <2>1, <2>3, <2>5 DEF LegsInHand
<1>10. Calling'
  BY <1>1 DEF Calling
<1>11. Memory'
  BY <1>0 DEF Memory
<1>12. Reported'
  <2>1. Here' = Here /\ stage \in Working /\ stage' \in Working /\ stage' # "done"
    BY <1>1, <1>3 DEF Here, Working
  <2> QED  BY <1>0, <2>1 DEF Reported
<1> QED  BY <1>4, <1>6, <1>9, <1>10, <1>11, <1>12 DEF ReportInv

LEMMA KnownLegStep == ReportInv /\ Reporting!KnownLeg => ReportInv'
<1> SUFFICES ASSUME ReportInv, Reporting!KnownLeg PROVE ReportInv'
  OBVIOUS
<1>1. /\ stage = "leg" /\ place.leg \in DOMAIN row.legs /\ row.legs[place.leg] \in DOMAIN memo
      /\ Reporting!Take(memo[row.legs[place.leg]])
      /\ UNCHANGED <<input, world, limits, period, memo, rows, incomplete, late>>
  BY DEF Reporting!KnownLeg, Reporting!Section, Reporting!given, Reporting!lookups
<1>2. KnownOf(world, period, row.legs[place.leg], memo[row.legs[place.leg]]) /\ memo[row.legs[place.leg]].whole \in BOOLEAN
  BY <1>1 DEF ReportInv, Memory
<1> QED  BY <1>1, <1>2, TakeStep

LEMMA RememberStep ==
    ASSUME ReportInv, stage \in {"leg", "call"}, place.leg \in DOMAIN row.legs,
           UNCHANGED <<input, world, limits, period, rows, incomplete, late>>,
           row.legs[place.leg] \notin DOMAIN memo,
           NEW value, Reporting!Take(value), Reporting!Remember(value), value.whole \in BOOLEAN,
           KnownOf(world, period, row.legs[place.leg], value)
    PROVE  ReportInv'
<1> DEFINE s == row.legs[place.leg]
<1>1. memo' = [x \in DOMAIN memo \cup {s} |-> IF x = s THEN value ELSE memo[x]]
  BY DEF Reporting!Remember, Reporting!Section
<1>2. DOMAIN memo' = DOMAIN memo \cup {s} /\ memo'[s] = value /\ \A x \in DOMAIN memo : memo'[x] = memo[x]
  BY <1>1
<1> QED  BY <1>2, TakeStep

LEMMA UnsupportedLegStep == ReportInv /\ Reporting!UnsupportedLeg => ReportInv'
<1> SUFFICES ASSUME ReportInv, Reporting!UnsupportedLeg PROVE ReportInv'
  OBVIOUS
<1> DEFINE value == [Reporting!Nothing EXCEPT !.whole = FALSE]
<1>1. /\ stage = "leg" /\ place.leg \in DOMAIN row.legs /\ row.legs[place.leg] \notin DOMAIN memo
      /\ row.legs[place.leg] \notin Supported
      /\ Reporting!Take(value) /\ Reporting!Remember(value)
      /\ UNCHANGED <<input, world, limits, period, rows, incomplete, late>>
  BY DEF Reporting!UnsupportedLeg, Reporting!Section, Reporting!given
<1>2. value.found = {} /\ value.whole = FALSE
  BY DEF Reporting!Nothing
<1> HIDE DEF value
<1>3. KnownOf(world, period, row.legs[place.leg], value) /\ value.whole \in BOOLEAN
  BY <1>1, <1>2 DEF KnownOf
<1> QED  BY <1>1, <1>3, RememberStep

\* Still at a leg: the calls for its days begin, or go on.
LEMMA StillCalling ==
    ASSUME ReportInv, stage \in {"leg", "call"}, stage' = "call",
           UNCHANGED <<input, world, limits, period, memo, row, rows, incomplete, late>>,
           DOMAIN place' = PlaceFields, place'.candidate = place.candidate, place'.variant = place.variant,
           place'.leg = place.leg, Calling'
    PROVE  ReportInv'
<1>0. Given /\ InHand /\ LegsInHand /\ Memory /\ Reported
  BY DEF ReportInv
<1>1. Given'
  BY <1>0 DEF Given, Stages, Working, Reporting!FirstDay
<1>2. InHand'
  BY <1>0 DEF InHand
<1>3. LegsInHand' /\ Memory'
  BY <1>0 DEF LegsInHand, Memory
<1>4. Here' = Here /\ stage \in Working /\ stage' \in Working /\ stage' # "done"
  BY DEF Here, Working
<1>5. Reported'
  BY <1>0, <1>4 DEF Reported
<1> QED  BY <1>1, <1>2, <1>3, <1>5 DEF ReportInv

LEMMA NewLegStep == ReportInv /\ Reporting!NewLeg => ReportInv'
<1> SUFFICES ASSUME ReportInv, Reporting!NewLeg PROVE ReportInv'
  OBVIOUS
<1>1. /\ stage = "leg" /\ place.leg \in DOMAIN row.legs /\ row.legs[place.leg] \in Supported
      /\ row.legs[place.leg] \notin DOMAIN memo
      /\ found' = Reporting!Nothing /\ stage' = "call" /\ place' = [place EXCEPT !.day = period.from - 1]
      /\ UNCHANGED <<input, world, limits, period, memo, row, rows, incomplete, late>>
  BY DEF Reporting!NewLeg, Reporting!Section, Reporting!given, Reporting!report
<1>2. Given /\ InHand /\ period.from \in Int
  BY DEF ReportInv, Given
<1>3. /\ DOMAIN place' = PlaceFields /\ place'.candidate = place.candidate /\ place'.variant = place.variant
      /\ place'.leg = place.leg /\ place'.day = period.from - 1
  BY <1>1, <1>2 DEF InHand, PlaceFields
<1>4. DOMAIN found' = {"found", "whole"} /\ found'.whole = TRUE /\ found'.found = {}
  BY <1>1 DEF Reporting!Nothing
<1>5. place'.leg <= Len(row'.legs)
  BY <1>1, <1>2, <1>3, RowLegs
<1>6. \A d \in world.departures[row.legs[place.leg]] :
         ~(period.from - 1 <= d + world.shift[row.legs[place.leg]] /\ d + world.shift[row.legs[place.leg]] < period.from - 1)
  <2> SUFFICES ASSUME NEW d \in world.departures[row.legs[place.leg]]
               PROVE  ~(period.from - 1 <= d + world.shift[row.legs[place.leg]] /\ d + world.shift[row.legs[place.leg]] < period.from - 1)
    OBVIOUS
  <2>1. d \in Int /\ world.shift[row.legs[place.leg]] \in Int
    BY <1>1, <1>2, WorldsAssumption DEF Given
  <2> QED  BY <1>2, <2>1
<1>7. Calling'
  <2>1. row' = row /\ memo' = memo /\ world' = world /\ period' = period /\ period.from - 1 \in Int
    BY <1>1, <1>2
  <2>2. found'.whole \in BOOLEAN /\ found'.found \subseteq world.departures[row.legs[place.leg]]
    BY <1>4
  <2> QED  BY <1>1, <1>3, <1>4, <1>5, <1>6, <2>1, <2>2 DEF Calling
<1> QED  BY <1>1, <1>3, <1>7, StillCalling

LEMMA CallStep == ReportInv /\ Reporting!Call => ReportInv'
<1> SUFFICES ASSUME ReportInv, Reporting!Call PROVE ReportInv'
  OBVIOUS
<1> DEFINE s == row.legs[place.leg]
           listed == {d \in world.departures[s] : d + world.shift[s] = place.day}
<1>1. /\ stage = "call" /\ stage' = "call"
      /\ place' = [place EXCEPT !.day = @ + 1]
      /\ \/ found' = [found EXCEPT !.found = @ \cup listed]
         \/ \E part1 \in SUBSET listed :
               found' = [[found EXCEPT !.found = @ \cup part1] EXCEPT !.whole = FALSE]
      /\ UNCHANGED <<input, world, limits, period, memo, row, rows, incomplete, late>>
  BY DEF Reporting!Call, Reporting!Section, Reporting!given, Reporting!report, Reporting!Listed, Reporting!Partial
<1>2. Given /\ InHand /\ Calling /\ period.from \in Int
  BY DEF ReportInv, Given
<1>3. /\ place.leg <= Len(row.legs) /\ s \in Supported /\ s \notin DOMAIN memo /\ place.day \in Int
      /\ DOMAIN found = {"found", "whole"} /\ found.whole \in BOOLEAN
      /\ found.found \subseteq world.departures[s]
      /\ found.whole => \A d \in world.departures[s] :
            period.from - 1 <= d + world.shift[s] /\ d + world.shift[s] < place.day => d \in found.found
  BY <1>1, <1>2 DEF Calling
<1>4. /\ DOMAIN place' = PlaceFields /\ place'.candidate = place.candidate /\ place'.variant = place.variant
      /\ place'.leg = place.leg /\ place'.day = place.day + 1
  BY <1>1, <1>2 DEF InHand, PlaceFields
<1>5. /\ DOMAIN found' = {"found", "whole"} /\ found'.whole \in BOOLEAN
      /\ found'.found \subseteq world.departures[s]
      /\ found'.whole => found.whole /\ found'.found = found.found \cup listed
  <2>1. CASE found' = [found EXCEPT !.found = @ \cup listed]
    BY <1>3, <2>1
  <2>2. CASE \E part1 \in SUBSET listed :
               found' = [[found EXCEPT !.found = @ \cup part1] EXCEPT !.whole = FALSE]
    BY <1>3, <2>2
  <2> QED  BY <1>1, <2>1, <2>2
<1>6. found'.whole => \A d \in world.departures[s] :
         period.from - 1 <= d + world.shift[s] /\ d + world.shift[s] < place.day + 1 => d \in found'.found
  <2> SUFFICES ASSUME found'.whole, NEW d \in world.departures[s],
                      period.from - 1 <= d + world.shift[s], d + world.shift[s] < place.day + 1
               PROVE  d \in found'.found
    OBVIOUS
  <2>1. d + world.shift[s] \in Int /\ place.day \in Int
    BY <1>2, <1>3, WorldsAssumption DEF Given
  <2>2. d + world.shift[s] < place.day \/ d + world.shift[s] = place.day
    <3> DEFINE x == d + world.shift[s]
    <3>1. x \in Int /\ x < place.day + 1
      BY <2>1
    <3> HIDE DEF x
    <3>2. x < place.day \/ x = place.day
      BY <2>1, <3>1
    <3> QED  BY <3>2 DEF x
  <2> QED  BY <1>3, <1>5, <2>2
<1>7. Calling'
  <2>1. row' = row /\ memo' = memo /\ world' = world /\ period' = period
    BY <1>1
  <2>2. place.day + 1 \in Int
    BY <1>3
  <2> HIDE DEF listed
  <2> QED  BY <1>1, <1>3, <1>4, <1>5, <1>6, <2>1, <2>2 DEF Calling
<1> QED  BY <1>1, <1>4, <1>7, StillCalling

LEMMA FetchedStep == ReportInv /\ Reporting!Fetched => ReportInv'
<1> SUFFICES ASSUME ReportInv, Reporting!Fetched PROVE ReportInv'
  OBVIOUS
<1> DEFINE s == row.legs[place.leg]
           partial == [found EXCEPT !.whole = FALSE]
<1>1. /\ stage = "call"
      /\ \/ /\ place.day >= period.end + JourneyDays + 1
            /\ Reporting!Remember(found) /\ Reporting!Take(found)
         \/ Reporting!Remember(partial) /\ Reporting!Take(partial)
      /\ UNCHANGED <<input, world, limits, period, found, rows, incomplete, late>>
  BY DEF Reporting!Fetched, Reporting!given, Reporting!LastDay, Reporting!Partial
<1>2. Given /\ InHand /\ Calling /\ LegsInHand /\ period.from \in Int /\ period.end \in Int /\ JourneyDays \in Nat
  BY ReportLimitsAssumption DEF ReportInv, Given
<1>3. /\ place.leg <= Len(row.legs) /\ s \in Supported /\ s \notin DOMAIN memo /\ place.day \in Int
      /\ DOMAIN found = {"found", "whole"} /\ found.whole \in BOOLEAN
      /\ found.found \subseteq world.departures[s]
      /\ found.whole => \A d \in world.departures[s] :
            period.from - 1 <= d + world.shift[s] /\ d + world.shift[s] < place.day => d \in found.found
  BY <1>1, <1>2 DEF Calling
<1>4. place.leg \in DOMAIN row.legs
  <2>1. place.leg \in Nat /\ Len(row.available) = place.leg - 1 /\ Len(row.available) \in Nat
    BY <1>1, <1>2, ListFacts DEF LegsInHand
  <2> QED  BY <1>1, <1>2, <1>3, <2>1, RowLegs
<1>5. CASE place.day >= period.end + JourneyDays + 1 /\ Reporting!Remember(found) /\ Reporting!Take(found)
  <2>1. KnownOf(world, period, s, found)
    <3>1. \A d \in world.departures[s] : d + world.shift[s] <= period.end + JourneyDays => d + world.shift[s] < place.day
      <4> SUFFICES ASSUME NEW d \in world.departures[s], d + world.shift[s] <= period.end + JourneyDays
                   PROVE  d + world.shift[s] < place.day
        OBVIOUS
      <4>1. d \in Int /\ world.shift[s] \in Int
        BY <1>2, <1>3, WorldsAssumption DEF Given
      <4>2. place.day \in Int /\ period.end \in Int /\ JourneyDays \in Int /\ place.day >= period.end + JourneyDays + 1
        BY <1>2, <1>3, <1>5
      <4>3. ASSUME NEW x \in Int, NEW y \in Int, NEW e \in Int, NEW j \in Int, y >= e + j + 1, x <= e + j
            PROVE  x < y
        BY <4>3
      <4>4. d + world.shift[s] \in Int
        BY <4>1
      <4> HIDE DEF s
      <4> QED  BY <4>2, <4>3, <4>4
    <3> QED  BY <1>3, <3>1 DEF KnownOf
  <2> QED  BY <1>1, <1>3, <1>4, <1>5, <2>1, RememberStep
<1>6. CASE Reporting!Remember(partial) /\ Reporting!Take(partial)
  <2>1. partial.found = found.found /\ partial.whole = FALSE
    BY <1>3
  <2> HIDE DEF partial
  <2>2. KnownOf(world, period, s, partial)
    BY <1>3, <2>1 DEF KnownOf
  <2>3. partial.whole \in BOOLEAN
    BY <2>1
  <2> QED  BY <1>1, <1>3, <1>4, <1>6, <2>2, <2>3, RememberStep
<1> QED  BY <1>1, <1>5, <1>6

(***************************************************************************)
(* Rows are saved.                                                         *)
(***************************************************************************)
LEMMA SaveStep ==
    ASSUME ReportInv, stage = "leg", NEW r, DOMAIN r = Fields, r.legs = row.legs, Reporting!Save(r),
           UNCHANGED <<input, world, limits, period, memo, late>>,
           incomplete' \in BOOLEAN, incomplete => incomplete',
           RowTrue(world, period, r, late), ~incomplete' => RowWhole(world, period, r, late)
    PROVE  ReportInv'
<1> DEFINE e == [r EXCEPT !.available = <<>>]
<1>0. Given /\ InHand /\ Memory /\ Reported /\ incomplete \in BOOLEAN /\ input \in Inputs
  BY DEF ReportInv, Given
<1>1. /\ rows' = Append(rows, e) /\ row' = [Reporting!NoRow EXCEPT !.scheme = r.scheme]
      /\ stage' = "variant" /\ place' = [place EXCEPT !.variant = place.variant + 1, !.day = 0]
  BY DEF Reporting!Save
<1>2. /\ DOMAIN place' = PlaceFields /\ place'.candidate = place.candidate /\ place'.variant = place.variant + 1
  BY <1>0, <1>1 DEF InHand, PlaceFields
<1>3. DOMAIN row' = Fields
  BY <1>1 DEF Reporting!NoRow, Fields
<1>4. e.legs = row.legs /\ e.journeys = r.journeys /\ e.state = r.state
  BY RowFields
<1> HIDE DEF e
<1>5. /\ place.candidate \in DOMAIN input.candidates
      /\ place.variant \in DOMAIN VariantsOf(input, place.candidate)
      /\ row.legs = VariantsOf(input, place.candidate)[place.variant]
  BY <1>0 DEF InHand
<1>6. place.variant + 1 \in 1..(Len(VariantsOf(input, place.candidate)) + 1)
  BY <1>0, <1>5, VariantsAre
<1>7. Given'
  BY <1>0, <1>1 DEF Given, Stages, Working, Reporting!FirstDay
<1>8. InHand'
  BY <1>1, <1>2, <1>3, <1>5, <1>6 DEF InHand
<1>9. LegsInHand' /\ Calling'
  BY <1>1 DEF LegsInHand, Calling
<1>10. Memory'
  BY <1>0 DEF Memory
<1>11. /\ IsList(rows) /\ IsList(Append(rows, e)) /\ DOMAIN rows = 1..Len(rows)
       /\ DOMAIN Append(rows, e) = DOMAIN rows \cup {Len(rows) + 1}
       /\ \A i \in 1..Len(rows) : Append(rows, e)[i] = rows[i]
       /\ Append(rows, e)[Len(rows) + 1] = e
  BY <1>0, ListAppend, ListFacts DEF Reported
<1>12. RowTrue(world, period, e, late) /\ (~incomplete' => RowWhole(world, period, e, late))
  BY <1>4 DEF RowTrue, RowWhole
<1>13. \A i \in DOMAIN rows' : RowTrue(world, period, rows[i], late)'
  <2>1. \A i \in DOMAIN rows : RowTrue(world, period, rows[i], late)
    BY <1>0 DEF Reported
  <2>2. \A i \in DOMAIN Append(rows, e) : RowTrue(world, period, Append(rows, e)[i], late)
    BY <1>11, <1>12, <2>1
  <2> QED  BY <1>1, <2>2
<1>14. ~incomplete' => \A i \in DOMAIN rows' : RowWhole(world, period, rows[i], late)'
  <2>1. ~incomplete' => \A i \in DOMAIN rows : RowWhole(world, period, rows[i], late)
    BY <1>0 DEF Reported
  <2>2. ~incomplete' => \A i \in DOMAIN Append(rows, e) : RowWhole(world, period, Append(rows, e)[i], late)
    BY <1>11, <1>12, <2>1
  <2> QED  BY <1>1, <2>2
<1>15. ~incomplete' => IsFiniteSet(BeforeIn(input, Here')) /\ RowsUpTo(input, rows', Here')
  <2> SUFFICES ASSUME ~incomplete'
               PROVE  IsFiniteSet(BeforeIn(input, Here')) /\ RowsUpTo(input, rows', Here')
    OBVIOUS
  <2> DEFINE q == <<place.candidate, place.variant>>
  <2>1. q \in PlacesOf(input) /\ q[1] = place.candidate /\ q[2] = place.variant
    BY <1>0, <1>5, PlaceIs
  <2>2. Here = q /\ Here' = <<q[1], q[2] + 1>> /\ stage \in Working
    BY <1>1, <1>2 DEF Here, Working
  <2> HIDE DEF q
  <2>3. IsFiniteSet(BeforeIn(input, q)) /\ RowsUpTo(input, rows, q)
    BY <1>0, <2>2 DEF Reported
  <2>4. e.legs = VariantsOf(input, q[1])[q[2]]
    BY <1>4, <1>5, <2>1
  <2>5. RowsUpTo(input, Append(rows, e), <<q[1], q[2] + 1>>)
    BY <1>0, <1>11, <2>1, <2>3, <2>4, RowAdded
  <2>6. BeforeIn(input, <<q[1], q[2] + 1>>) = BeforeIn(input, q) \cup {q}
    BY <1>0, <2>1, NextPlace
  <2>7. IsFiniteSet(BeforeIn(input, q) \cup {q})
    BY <2>3, FS_AddElement
  <2> QED  BY <1>1, <2>2, <2>5, <2>6, <2>7
<1>16. Reported'
  <2>1. stage' # "done" /\ IsList(rows')
    BY <1>1, <1>11
  <2> QED  BY <1>13, <1>14, <1>15, <2>1 DEF Reported
<1> QED  BY <1>7, <1>8, <1>9, <1>10, <1>16 DEF ReportInv

LEMMA MatchedStep == ReportInv /\ Reporting!Match => ReportInv'
<1> SUFFICES ASSUME ReportInv, Reporting!Match PROVE ReportInv'
  OBVIOUS
<1> DEFINE mismatch == Reporting!Candidate.meets # "yes"
           all == Reporting!Journeys(row.available, period)
           real == RealIn(world, row.legs, period)
<1>1. PICK m \in Reporting!Matches :
         /\ Reporting!Save([row EXCEPT !.journeys = m.journeys, !.state = Reporting!StateOf(row.whole, mismatch, m)])
         /\ incomplete' = (incomplete \/ Reporting!Lacking(row.whole, mismatch, m))
  BY DEF Reporting!Match
<1>2. /\ stage = "leg" /\ place.leg = Len(row.legs) + 1 /\ Len(row.legs) \in 1..MaxLegs
      /\ UNCHANGED <<input, world, limits, period, memo, late>>
  BY DEF Reporting!Match, Reporting!given, Reporting!lookups
<1>3. /\ Given /\ InHand /\ LegsInHand /\ Memory /\ incomplete \in BOOLEAN /\ world \in Worlds
      /\ period.from \in Int /\ period.end \in Int
  BY DEF ReportInv, Given
<1>4. m.journeys \subseteq all /\ (~m.truncated => late \/ m.journeys = all) /\ m.truncated \in BOOLEAN
  <2> DEFINE some == {x \in SUBSET all : Reporting!Cardinality(x) <= limits.journeys}
  <2>1. m \in [journeys : some, truncated : {TRUE}]
            \cup {k \in [journeys : some, truncated : {FALSE}] : late \/ k.journeys = all}
    BY DEF Reporting!Matches
  <2> QED  BY <2>1
<1> DEFINE r == [row EXCEPT !.journeys = m.journeys, !.state = Reporting!StateOf(row.whole, mismatch, m)]
<1>5. /\ DOMAIN r = Fields /\ r.legs = row.legs /\ r.journeys = m.journeys
      /\ r.state = Reporting!StateOf(row.whole, mismatch, m)
  <2> DEFINE st == Reporting!StateOf(row.whole, mismatch, m)
  <2>1. DOMAIN row = Fields
    BY <1>3 DEF InHand
  <2> HIDE DEF st
  <2>2. LET x == [row EXCEPT !.journeys = m.journeys, !.state = st]
        IN DOMAIN x = Fields /\ x.legs = row.legs /\ x.journeys = m.journeys /\ x.state = st
    BY <2>1 DEF Fields
  <2> QED  BY <2>2 DEF st
<1>6. all \subseteq real /\ (row.whole => all = real)
  <2> DEFINE n == Len(row.legs)
             known == [k \in 1..n |-> memo[row.legs[k]]]
  <2>1. IsList(row.legs) /\ n \in Nat /\ n >= 1 /\ IsList(row.available) /\ Len(row.available) = n
    <3>1. IsList(row.legs) /\ n \in Nat
      BY <1>2, <1>3, RowLegs
    <3>2. IsList(row.available) /\ Len(row.available) = place.leg - 1
      BY <1>2, <1>3 DEF LegsInHand
    <3> HIDE DEF n
    <3>3. n + 1 - 1 = n /\ place.leg = n + 1
      BY <1>2, <3>1 DEF n
    <3> QED  BY <1>2, <3>1, <3>2, <3>3 DEF n
  <2>2. \A k \in 1..n : /\ row.legs[k] \in DOMAIN memo
                        /\ row.available[k] = memo[row.legs[k]].found
                        /\ row.whole => memo[row.legs[k]].whole
    BY <1>2, <1>3, <2>1 DEF LegsInHand
  <2>3. \A k \in 1..n : KnownOf(world, period, row.legs[k], known[k]) /\ row.available[k] = known[k].found
    BY <1>3, <2>2 DEF Memory
  <2>4. row.whole => \A k \in 1..n : known[k].whole
    BY <2>2
  <2> HIDE DEF known
  <2>5. /\ all \subseteq real
        /\ (\A k \in 1..n : known[k].whole) => all = real
    BY <1>3, <2>1, <2>3, FoundJourneys
  <2> QED  BY <2>4, <2>5
<1> HIDE DEF all, real, mismatch, r
<1>7. RowTrue(world, period, r, late)
  <2>1. r.journeys \subseteq real
    BY <1>4, <1>5, <1>6
  <2>2. r.state = "no_match" => row.whole /\ ~m.truncated /\ m.journeys = {}
    BY <1>5 DEF Reporting!StateOf
  <2>3. r.state = "no_match" /\ ~late => real = {}
    BY <1>4, <1>6, <2>2
  <2> QED  BY <1>5, <2>1, <2>3 DEF RowTrue, real
<1>8. ~incomplete' => RowWhole(world, period, r, late)
  <2>1. ~incomplete' => row.whole /\ ~m.truncated
    BY <1>1 DEF Reporting!Lacking
  <2> QED  BY <1>2, <1>4, <1>5, <1>6, <2>1 DEF RowWhole, real
<1>9. incomplete' \in BOOLEAN /\ (incomplete => incomplete')
  BY <1>1, <1>3
<1>10. Reporting!Save(r)
  BY <1>1 DEF r
<1> QED  BY <1>2, <1>5, <1>7, <1>8, <1>9, <1>10, SaveStep

LEMMA NoChainStep == ReportInv /\ Reporting!NoChain => ReportInv'
<1> SUFFICES ASSUME ReportInv, Reporting!NoChain PROVE ReportInv'
  OBVIOUS
<1> DEFINE r == [row EXCEPT !.state = "unverified"]
<1>1. /\ stage = "leg" /\ Reporting!Save(r) /\ incomplete' = TRUE
      /\ UNCHANGED <<input, world, limits, period, memo, late>>
  BY DEF Reporting!NoChain, Reporting!given, Reporting!lookups
<1>2. DOMAIN row = Fields /\ row.journeys = {}
  BY <1>1 DEF ReportInv, InHand
<1>3. DOMAIN r = Fields /\ r.legs = row.legs /\ r.journeys = {} /\ r.state = "unverified"
  BY <1>2, RowFields
<1> HIDE DEF r
<1>4. RowTrue(world, period, r, late)
  BY <1>3 DEF RowTrue
<1> QED  BY <1>1, <1>3, <1>4, SaveStep

LEMMA FinishStep == ReportInv /\ Reporting!Finish => ReportInv'
<1> SUFFICES ASSUME ReportInv, Reporting!Finish PROVE ReportInv'
  OBVIOUS
<1> DEFINE n == Reporting!Min({Len(rows), limits.size})
<1>1. /\ stage = "candidate" /\ place.candidate \notin DOMAIN input.candidates
      /\ rows' = SubSeq(rows, 1, n) /\ stage' = "done"
      /\ incomplete' = (incomplete \/ calls.made >= limits.requests \/ Len(rows) > limits.size)
      /\ UNCHANGED <<input, world, limits, place, period, memo, found, row, late>>
  BY DEF Reporting!Finish, Reporting!given, Reporting!lookups
<1>2. /\ Given /\ InHand /\ Memory /\ Reported /\ incomplete \in BOOLEAN /\ limits.size \in Nat
      /\ input \in Inputs /\ input.to >= input.today
  BY <1>1, ReportLimitsAssumption DEF ReportInv, Given, Working
<1>3. IsList(rows) /\ Len(rows) \in Nat
  BY <1>2, ListFacts DEF Reported
<1>4. n \in 0..Len(rows) /\ (~(Len(rows) > limits.size) => n = Len(rows))
  <2> DEFINE a == Len(rows)
             b == limits.size
  <2>1. a \in Nat /\ b \in Nat
    BY <1>2, <1>3
  <2> HIDE DEF a, b
  <2>2. Reporting!Min({a, b}) \in {a, b} /\ Reporting!Min({a, b}) <= a /\ Reporting!Min({a, b}) <= b
    BY <2>1, SmallerOfTwo
  <2> DEFINE x == Reporting!Min({a, b})
  <2> HIDE DEF x
  <2>3. x \in {a, b} /\ x <= a /\ x <= b
    BY <2>2 DEF x
  <2>4. x \in 0..a /\ (~(a > b) => x = a)
    BY <2>1, <2>3
  <2> QED  BY <2>4 DEF x, a, b
<1> HIDE DEF n
<1>5. /\ IsList(rows') /\ DOMAIN rows' \subseteq DOMAIN rows /\ \A i \in DOMAIN rows' : rows'[i] = rows[i]
      /\ n = Len(rows) => rows' = rows
  BY <1>1, <1>3, <1>4, ListCut
<1>6. /\ incomplete' \in BOOLEAN /\ (incomplete => incomplete')
      /\ ~incomplete' => n = Len(rows)
  BY <1>1, <1>2, <1>4
<1>7. Given'
  BY <1>1, <1>2, <1>6 DEF Given, Stages, Working, Reporting!FirstDay
<1>8. InHand' /\ LegsInHand' /\ Calling' /\ Memory'
  BY <1>1, <1>2 DEF InHand, LegsInHand, Calling, Memory
<1>9. place.candidate = Len(input.candidates) + 1 /\ stage \in Working
  <2>1. place.candidate \in 1..(Len(input.candidates) + 1)
    BY <1>1, <1>2 DEF InHand
  <2>2. DOMAIN input.candidates = 1..Len(input.candidates) /\ Len(input.candidates) \in Nat
    BY <1>2, CandidateIs
  <2> QED  BY <1>1, <2>1, <2>2 DEF Working
<1>10. ~incomplete' => RowsUpTo(input, rows', <<Len(input.candidates) + 1, 1>>)
  <2>1. Here = <<Len(input.candidates) + 1, 1>>
    BY <1>1, <1>9 DEF Here
  <2> QED  BY <1>2, <1>5, <1>6, <1>9, <2>1 DEF Reported
<1>11. Reported'
  <2>1. \A i \in DOMAIN rows' : RowTrue(world, period, rows'[i], late)
    BY <1>2, <1>5 DEF Reported
  <2>2. ~incomplete' => \A i \in DOMAIN rows' : RowWhole(world, period, rows'[i], late)
    BY <1>2, <1>5, <1>6 DEF Reported
  <2>3. stage' \notin Working
    BY <1>1 DEF Working
  <2>4. \A i \in DOMAIN rows' : RowTrue(world, period, rows[i], late)'
    BY <1>1, <2>1
  <2>5. ~incomplete' => \A i \in DOMAIN rows' : RowWhole(world, period, rows[i], late)'
    BY <1>1, <2>2
  <2> QED  BY <1>1, <1>5, <1>10, <2>3, <2>4, <2>5 DEF Reported
<1> QED  BY <1>7, <1>8, <1>11 DEF ReportInv

LEMMA ReportStutters == ReportInv /\ UNCHANGED reportVars => ReportInv'
<1> SUFFICES ASSUME ReportInv, UNCHANGED reportVars PROVE ReportInv'
  OBVIOUS
<1>1. UNCHANGED <<input, world, limits, stage, place, period, memo, found, row, rows, incomplete, late>>
  BY DEF reportVars
<1>2. Given' /\ InHand' /\ LegsInHand' /\ Calling' /\ Memory'
  BY <1>1 DEF ReportInv, Given, InHand, LegsInHand, Calling, Memory, Reporting!FirstDay
<1>3. late \in BOOLEAN /\ incomplete \in BOOLEAN /\ Here' = Here
  BY <1>1 DEF ReportInv, Given, Here
<1>4. Reported'
  BY <1>1, <1>3 DEF ReportInv, Reported
<1> QED  BY <1>2, <1>4 DEF ReportInv

LEMMA ReportStep == ReportInv /\ [Reporting!Next]_reportVars => ReportInv'
BY ExpireStep, StartStep, FailStep, FailsAre, EnterCandidateStep, EnterVariantStep, VariantsDoneStep, KnownLegStep,
   UnsupportedLegStep, NewLegStep, CallStep, FetchedStep, MatchedStep, NoChainStep, FinishStep, ReportStutters
   DEF Reporting!Next

LEMMA ReportGives == ReportInv => RowsAreTrue /\ CompleteIsAll
<1> SUFFICES ASSUME ReportInv PROVE RowsAreTrue /\ CompleteIsAll
  OBVIOUS
<1>0. Given /\ Reported /\ input \in Inputs
  BY DEF ReportInv, Given
<1>1. \A legs, p : Reporting!Real(legs, p) = RealIn(world, legs, p)
  BY DEF Reporting!Real, RealIn
<1>2. RowsAreTrue
  BY <1>0, <1>1 DEF RowsAreTrue, Reporting!RowsAreTrue, Reported, RowTrue
<1>3. CompleteIsAll
  <2> SUFFICES ASSUME stage = "done", ~incomplete, ~late, input.to >= input.today
               PROVE  /\ Len(rows) = Reporting!Cardinality(Reporting!AllVariants)
                      /\ \A q \in Reporting!AllVariants :
                            rows[Reporting!Cardinality(Reporting!Preceding(q)) + 1].legs
                              = Reporting!Variants(input.candidates[q[1]])[q[2]]
                      /\ \A i \in DOMAIN rows : /\ Reporting!Checkable(rows[i].legs)
                                                /\ rows[i].journeys = Reporting!Real(rows[i].legs, Reporting!Asked)
    BY DEF CompleteIsAll, Reporting!CompleteIsAll
  <2>1. period.from = Reporting!FirstDay /\ period.end = input.to + 1
    BY <1>0 DEF Given
  <2>2. \A legs : RealIn(world, legs, period) = RealIn(world, legs, Reporting!Asked)
    <3>1. Reporting!Asked.from = period.from /\ Reporting!Asked.end = period.end
      BY <2>1 DEF Reporting!Asked
    <3> QED  BY <3>1 DEF RealIn, Reporting!Journeys
  <2>3. \A i \in DOMAIN rows : /\ Reporting!Checkable(rows[i].legs)
                               /\ rows[i].journeys = Reporting!Real(rows[i].legs, Reporting!Asked)
    BY <1>0, <1>1, <2>2 DEF Reported, RowWhole, Reporting!Checkable
  <2>4. Reporting!AllVariants = PlacesOf(input)
    BY DEF Reporting!AllVariants, PlacesOf, VariantsOf
  <2>5. \A q : Reporting!Preceding(q) = BeforeIn(input, q)
    BY <2>4 DEF Reporting!Preceding, BeforeIn
  <2>6. BeforeIn(input, <<Len(input.candidates) + 1, 1>>) = PlacesOf(input)
    BY <1>0, FirstAndLastPlace
  <2>7. RowsUpTo(input, rows, <<Len(input.candidates) + 1, 1>>)
    BY <1>0 DEF Reported
  <2>8. Len(rows) = Reporting!Cardinality(Reporting!AllVariants)
    BY <2>4, <2>6, <2>7, SameCount DEF RowsUpTo
  <2>9. ASSUME NEW q \in Reporting!AllVariants
        PROVE  rows[Reporting!Cardinality(Reporting!Preceding(q)) + 1].legs = Reporting!Variants(input.candidates[q[1]])[q[2]]
    <3>1. rows[Cardinality(BeforeIn(input, q)) + 1].legs = VariantsOf(input, q[1])[q[2]]
      BY <2>4, <2>6, <2>7 DEF RowsUpTo
    <3> QED  BY <2>5, <3>1, SameCount DEF VariantsOf
  <2> QED  BY <2>3, <2>8, <2>9
<1> QED  BY <1>2, <1>3

LEMMA CheckSpecGives == CheckSpec => []ReportInv
<1>1. CheckInit => ReportInv
  BY RepInit DEF CheckInit
<1>2. ReportInv /\ [CheckNext]_<<part, vars, reportVars>> => ReportInv'
  <2> SUFFICES ASSUME ReportInv, [CheckNext]_<<part, vars, reportVars>> PROVE ReportInv'
    OBVIOUS
  <2>1. Reporting!Next \/ UNCHANGED reportVars
    BY DEF CheckNext
  <2> QED  BY <2>1, ReportStep
<1> QED  BY <1>1, <1>2, PTL DEF CheckSpec

(***************************************************************************)
(* Whatever was failed, cut short or remembered from another row, a row    *)
(* that says no_match has no journey, and those that rows show can be made.*)
(***************************************************************************)
THEOREM RowsTellTheTruth == CheckSpec => []RowsAreTrue
<1>1. ReportInv => RowsAreTrue
  BY ReportGives
<1> QED  BY <1>1, CheckSpecGives, PTL

(***************************************************************************)
(* A report that does not call itself incomplete has a row for every       *)
(* variant, in order, each with all its journeys of the days asked for.    *)
(***************************************************************************)
THEOREM CompleteReportsHaveAll == CheckSpec => []CompleteIsAll
<1>1. ReportInv => CompleteIsAll
  BY ReportGives
<1> QED  BY <1>1, CheckSpecGives, PTL

(***************************************************************************)
(* The search and the report do not disturb each other: a behaviour of the *)
(* two is one of each, so what is proved of the search alone holds there.  *)
(***************************************************************************)
THEOREM EachPartIsItself == CheckSpec => Spec /\ Reporting!Spec
<1>1. CheckInit => Init /\ Reporting!Init
  BY DEF CheckInit
<1>2. [CheckNext]_<<part, vars, reportVars>> => [Next]_vars
  BY DEF CheckNext
<1>3. [CheckNext]_<<part, vars, reportVars>> => [Reporting!Next]_(Reporting!vars)
  BY DEF CheckNext, reportVars, Reporting!vars, Reporting!given, Reporting!lookups, Reporting!report
<1> QED  BY <1>1, <1>2, <1>3, PTL DEF CheckSpec, Spec, Reporting!Spec
==============================================================================
