------------------------------- MODULE RouteView -------------------------------
(***************************************************************************)
(* The way of a route scheme from its source to the owner's screen: what   *)
(* the two sources make of the answers they get, what Search saves of it,  *)
(* how GetRoutes groups and pages what is saved, and the export, which     *)
(* reads page after page through Cabinet while the building goes on. One   *)
(* read is one snapshot of the database; an export is many.                *)
(*                                                                         *)
(* A candidate is its rail-access key, "" without one; a path of Gemini is *)
(* its numbers of steps and warnings.                                      *)
(***************************************************************************)
EXTENDS Naturals, Sequences, FiniteSets, SequencesExt

CONSTANTS
    Plans,          \* results of the graph planner: [candidates, failures, error]
    Replies,        \* replies of Gemini: [body, candidates, finish, paths]
    MaxCandidates,  \* planner.max_candidates, at most 10 for Gemini
    MaxParts,       \* steps of a path, and its warnings: 20
    MaxAttempts,
    ExportPage,     \* variants on a page of the export: 10
    MaxExportPages, \* pages of one source in an export: 20
    Readers, Owner  \* who asks for the routes

VARIABLES
    building,   \* the row of route_building: [stage, attempt, revision]
    runs,       \* the rows of planner_runs: [stage, outcome, count, result]
    past,       \* what was saved, by revision
    export      \* per reader: [step, asked, todo, offset, page, revision, merged, complete]

vars == <<building, runs, past, export>>

Sources == {"graph", "gemini"}
NoRun == [stage |-> "absent", outcome |-> "", count |-> 0, result |-> <<>>]
NoExport ==
    [step |-> "idle", asked |-> <<>>, todo |-> <<>>, offset |-> 0, page |-> 0, revision |-> 0,
     merged |-> [s \in Sources |-> <<>>], complete |-> TRUE]

Saved(rs) == [s \in Sources |-> rs[s].result]

Init ==
    /\ building = [stage |-> "queued", attempt |-> 0, revision |-> 1]
    /\ runs = [s \in Sources |-> NoRun]
    /\ past = <<Saved(runs)>>
    /\ export = [r \in Readers |-> NoExport]

------------------------------------------------------------------------------
(* The sources *)
Failed(outcome) == [outcome |-> outcome, result |-> <<>>]

\* A plan that failed keeps the candidates it had.
Graph(plan) ==
    [outcome |-> CASE plan.error # "none" -> plan.error
                   [] plan.error = "none" /\ plan.failures > 0 /\ plan.candidates = <<>> -> "error"
                   [] OTHER -> "",
     result |-> plan.candidates]

Sound(path) == path.steps \in 1..MaxParts /\ path.warnings <= MaxParts

\* One path beyond a limit refuses the whole reply.
Understood(reply) ==
    /\ reply.body = "answer"
    /\ reply.candidates = 1 /\ reply.finish = "STOP"
    /\ Len(reply.paths) <= MaxCandidates
    /\ \A i \in DOMAIN reply.paths : Sound(reply.paths[i])

\* Of the ways in which a call goes wrong only a timeout is told apart, ours or the network's.
TimedOut(reply) == reply.body \in {"deadline", "network timeout"}

Unconfigured(reply) == reply.body = "unconfigured"

Gemini(reply) ==
    CASE Unconfigured(reply) -> Failed("unavailable")
      [] TimedOut(reply) -> Failed("timeout")
      [] Understood(reply) -> [outcome |-> "", result |-> reply.paths]
      [] OTHER -> Failed("error")

Comes(s) == IF s = "graph" THEN {Graph(p) : p \in Plans} ELSE {Gemini(r) : r \in Replies}

------------------------------------------------------------------------------
(* What is saved; every transaction moves the revision with each of its events *)
Open(rs) == {s \in Sources : rs[s].stage = "building"}

Events(sources, rs) == Cardinality(sources) + (IF Open(rs) = {} THEN 1 ELSE 0)

JobStage(rs) ==
    CASE Open(rs) # {} -> "building"
      [] Open(rs) = {} /\ \E s \in Sources : rs[s].count > 0 -> "awaiting_schedules"
      [] OTHER -> IF \E s \in Sources : rs[s].stage = "failed" THEN "failed" ELSE "no_routes"

Moves(stage, n) ==
    /\ building' = [building EXCEPT !.stage = stage, !.revision = @ + n]
    /\ past' = past \o [i \in 1..n |-> Saved(runs')]
    /\ UNCHANGED export

\* A run that has ended is not started again.
Claim ==
    /\ building.stage \in {"queued", "building"} /\ building.attempt < MaxAttempts
    /\ runs' = [s \in Sources |-> IF runs[s].stage = "absent" THEN [NoRun EXCEPT !.stage = "building"] ELSE runs[s]]
    /\ LET n == 1 + Cardinality(Open(runs')) IN
         /\ building' = [stage |-> "building", attempt |-> building.attempt + 1, revision |-> building.revision + n]
         /\ past' = past \o [i \in 1..n |-> Saved(runs')]
    /\ UNCHANGED export

StageOf(r) ==
    IF r.result # <<>> THEN "awaiting_schedules" ELSE IF r.outcome = "" THEN "no_routes" ELSE "failed"

FinishSource(s) ==
    /\ building.stage = "building" /\ runs[s].stage = "building"
    /\ \E r \in Comes(s) :
         runs' = [runs EXCEPT ![s] = [stage |-> StageOf(r), outcome |-> r.outcome,
                                      count |-> Len(r.result), result |-> r.result]]
    /\ Moves(JobStage(runs'), Events({s}, runs'))

\* The attempts are used up: the sources still open have failed.
Exhaust ==
    /\ building.stage = "building" /\ building.attempt = MaxAttempts
    /\ runs' = [s \in Sources |-> IF s \in Open(runs) THEN [NoRun EXCEPT !.stage = "failed", !.outcome = "timeout"] ELSE runs[s]]
    /\ Moves(JobStage(runs'), Events(Open(runs), runs'))

Cancel ==
    /\ building.stage # "cancelled"
    /\ runs' = [s \in Sources |-> IF s \in Open(runs) THEN [runs[s] EXCEPT !.stage = "cancelled"] ELSE runs[s]]
    /\ Moves("cancelled", Cardinality(Open(runs)) + 1)

------------------------------------------------------------------------------
(* GetRoutes *)
Key(candidate) == candidate

\* The candidates with the same key are one scheme, where the first of them is.
SchemeOf(cs, i) == IF Key(cs[i]) = "" THEN {i} ELSE {j \in DOMAIN cs : Key(cs[j]) = Key(cs[i])}

Firsts(cs) == {i \in DOMAIN cs : \A j \in SchemeOf(cs, i) : i <= j}

\* The numbers of a finite set, the smallest first.
Ascending(S) == [k \in 1..Cardinality(S) |-> CHOOSE i \in S : Cardinality({j \in S : j < i}) = k - 1]

Grouped(cs) == [k \in 1..Cardinality(Firsts(cs)) |-> SchemeOf(cs, Ascending(Firsts(cs))[k])]

\* The schemes of a source as sets of what is saved: only those of the graph are grouped.
Schemes(s, result) == IF s = "graph" THEN Grouped(result) ELSE [i \in DOMAIN result |-> {i}]

Total(s, run) == IF s = "graph" THEN Len(Grouped(run.result)) ELSE run.count

\* A page, counted from the schemes.
Page(s, offset) ==
    LET all == Schemes(s, runs[s].result)
        last == IF offset + ExportPage < Len(all) THEN offset + ExportPage ELSE Len(all)
    IN SubSeq(all, IF offset < Len(all) THEN offset + 1 ELSE Len(all) + 1, last)

HasMore(s, offset) == offset + Len(Page(s, offset)) < Total(s, runs[s])

ValidPage(offset) == offset <= 10000 /\ ExportPage \in 1..10

\* The answer, from one snapshot.
ReadRoutes(s, offset) ==
    [revision |-> building.revision, page |-> Page(s, offset), more |-> HasMore(s, offset)]

------------------------------------------------------------------------------
(* The export *)
\* Cabinet looks for the trip among those of the reader before it asks Search.
Allowed(r) == r = Owner

\* The sources on the screen, as they were read some time before.
Start(r) ==
    /\ export[r].step = "idle"
    /\ \E shown \in {t \in {<<>>, <<"graph">>, <<"graph", "gemini">>} :
                        \A s \in Range(t) : runs[s].stage # "absent"} :
         export' = [export EXCEPT ![r] = [NoExport EXCEPT !.step = "reading", !.asked = shown, !.todo = shown]]
    /\ UNCHANGED <<building, runs, past>>

Ends(r, step) == export' = [export EXCEPT ![r].step = step]
Onward(r) == [export[r] EXCEPT !.todo = Tail(@), !.offset = 0, !.page = 0]

\* Mutant of Changed: only the pages of one source are compared.
ChangedHere(e) == e.page > 0 /\ e.revision # building.revision

Changed(e) == e.revision # 0 /\ e.revision # building.revision

Asks(r) == export[r].step = "reading" /\ export[r].todo # <<>> /\ export[r].page < MaxExportPages

ReadPage(r) ==
    LET e == export[r]
        s == Head(e.todo)
        answer == ReadRoutes(s, e.offset)
        read == [e EXCEPT !.revision = answer.revision, !.merged[s] = @ \o answer.page,
                          !.offset = @ + Len(answer.page), !.page = @ + 1]
    IN
    /\ Asks(r) /\ Allowed(r) /\ ValidPage(e.offset) /\ ~Changed(e)
    /\ export' = [export EXCEPT ![r] =
          IF answer.more /\ answer.page # <<>> THEN read
          ELSE [read EXCEPT !.todo = Tail(@), !.offset = 0, !.page = 0, !.complete = @ /\ ~answer.more]]
    /\ UNCHANGED <<building, runs, past>>

\* The limit of pages ends a source, and the export says that it is not complete.
StopAtLimit(r) ==
    /\ export[r].step = "reading" /\ export[r].todo # <<>> /\ export[r].page = MaxExportPages
    /\ export' = [export EXCEPT ![r] = [Onward(r) EXCEPT !.complete = FALSE]]
    /\ UNCHANGED <<building, runs, past>>

\* The building has gone on: nothing is handed out.
RefuseToMix(r) ==
    /\ Asks(r) /\ Allowed(r) /\ Changed(export[r])
    /\ Ends(r, "changed")
    /\ UNCHANGED <<building, runs, past>>

\* A trip of someone else, a service that is away or a page that comes too late.
PageFails(r) ==
    /\ Asks(r)
    /\ Ends(r, "failed")
    /\ UNCHANGED <<building, runs, past>>

HandOut(r) ==
    /\ export[r].step = "reading" /\ export[r].todo = <<>>
    /\ Ends(r, "done")
    /\ UNCHANGED <<building, runs, past>>

Builds == Claim \/ Exhaust \/ Cancel \/ \E s \in Sources : FinishSource(s)
Exports(r) == Start(r) \/ ReadPage(r) \/ StopAtLimit(r) \/ RefuseToMix(r) \/ PageFails(r) \/ HandOut(r)
Next == Builds \/ \E r \in Readers : Exports(r)

Spec == Init /\ [][Next]_vars

------------------------------------------------------------------------------
(***************************************************************************)
(* An export that is handed out shows one moment of the building: every    *)
(* scheme of it stands for what was saved at its revision and in its       *)
(* order, no two schemes for the same, and candidates share a scheme only  *)
(* with the same key; one that calls itself complete leaves nothing out.   *)
(***************************************************************************)
ExportIsWhole ==
    \A r \in Readers : export[r].step = "done" /\ export[r].revision # 0 =>
        \A s \in Sources :
            LET saved == past[export[r].revision][s]
                shown == export[r].merged[s]
                parts == UNION Range(shown)
            IN
            /\ parts \subseteq DOMAIN saved
            /\ \A i, k \in DOMAIN shown : i # k => shown[i] \cap shown[k] = {}
            /\ \A i, k \in DOMAIN shown : i < k => \E c \in shown[i] : \A d \in shown[k] : c < d
            /\ s = "graph" => \A i \in DOMAIN shown : \A c, d \in shown[i] :
                                  c # d => saved[c] = saved[d] /\ saved[c] # ""
            /\ export[r].complete /\ s \in Range(export[r].asked) => parts = DOMAIN saved

==============================================================================
