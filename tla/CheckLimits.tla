----------------------------- MODULE CheckLimits -----------------------------
(***************************************************************************)
(* One schedule check at its limits, in two parts that share no state: the *)
(* search of one scheme, step by step (ScheduleMatch), and the report on   *)
(* all schemes, in which that search is its result (ScheduleReport). A     *)
(* behaviour shows one part and leaves the other alone.                    *)
(***************************************************************************)
EXTENDS ScheduleMatch

CONSTANTS Inputs, Worlds, Settings, Supported, JourneyDays, MaxCandidates, MaxAccess, MaxLegs, MaxBad

\* The date of a station is at most a day off from that of the origin.
ASSUME WorldsAssumption ==
    \A w \in Worlds :
        /\ Supported \subseteq DOMAIN w.departures
        /\ \A s \in Supported : w.departures[s] \subseteq Int /\ w.shift[s] \in -1..1
\* Feeders take the place of a first leg, so there is one.
ASSUME InputsAssumption ==
    \A g \in Inputs :
        /\ g.complete \in BOOLEAN /\ {g.from, g.to, g.today} \subseteq Int
        /\ g.candidates \in Seq([legs : Seq(STRING), access : Seq(STRING), group : STRING, meets : STRING])
        /\ \A i \in DOMAIN g.candidates : g.candidates[i].access # <<>> => g.candidates[i].legs # <<>>
ASSUME ReportLimitsAssumption ==
    /\ {JourneyDays, MaxCandidates, MaxLegs} \subseteq Nat
    /\ \A l \in Settings : {l.dates, l.size} \subseteq Nat

VARIABLES
    part,
    input, world, limits, stage, place, period, memo, found, calls, numbers, row, rows, incomplete, late

Reporting == INSTANCE ScheduleReport WITH MaxJourney <- JourneyDays, phase <- stage, expired <- late

reportVars == <<input, world, limits, stage, place, period, memo, found, calls, numbers, row, rows, incomplete, late>>

Some(S) == CHOOSE x \in S : TRUE

CheckInit ==
    /\ \/ part = "search" /\ input = Some(Inputs) /\ world = Some(Worlds) /\ limits = Some(Settings)
       \/ part = "report" /\ timetable = Some(Timetables)
    /\ Init /\ Reporting!Init

CheckNext ==
    /\ UNCHANGED part
    /\ \/ part = "search" /\ Next /\ UNCHANGED reportVars
       \/ part = "report" /\ Reporting!Next /\ UNCHANGED vars

CheckSpec == CheckInit /\ [][CheckNext]_<<part, vars, reportVars>>

(***************************************************************************)
(* Rows say only what the timetables hold: see ScheduleReport.             *)
(***************************************************************************)
RowsAreTrue == Reporting!RowsAreTrue

(***************************************************************************)
(* A report not marked incomplete has everything: see ScheduleReport.      *)
(***************************************************************************)
CompleteIsAll == Reporting!CompleteIsAll

==============================================================================
