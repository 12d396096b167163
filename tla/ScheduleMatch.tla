---------------------------- MODULE ScheduleMatch ----------------------------
(***************************************************************************)
(* The search for time-compatible journeys along one route scheme whose    *)
(* departures have been fetched. The brute matcher walks all departures,   *)
(* depth first and in order; the windowed matcher first drops, from the    *)
(* last leg back to the first, departures that no next departure can take  *)
(* over. Both run here one after the other on the same timetable, as the   *)
(* test that compares them does. The search runs under a deadline.         *)
(***************************************************************************)
EXTENDS Integers, Sequences, FiniteSets, SequencesExt

CONSTANTS
    Steps,               \* the modes of the scheme's steps, in order
    Transfers,           \* the known duration of each transfer step, else 0
    Before, After,       \* time for boarding and leaving, per mode
    Buffer, MaxConnection, MaxJourney, MaxCombinations, MaxJourneys,
    MaxJourneysPerDay,   \* 0 is no limit
    From, End,           \* when the traveller may set out, End excluded
    DayLength,
    Timetables           \* the timetables examined: per leg, its departures in order

Main == SelectSeq([i \in DOMAIN Steps |-> i], LAMBDA i : Steps[i] # "transfer")

Legs == 1..Len(Main)

ASSUME LimitsAssumption ==
    /\ Len(Main) \in Nat \ {0}
    /\ {MaxCombinations, MaxJourneys, DayLength} \subseteq Nat \ {0}
    /\ MaxJourneysPerDay \in 0..MaxJourneys
    /\ {Buffer, MaxConnection} \cup {Transfers[i] : i \in DOMAIN Steps} \subseteq Nat
    /\ From \in Int /\ End \in Int
    /\ MaxJourney \in Nat /\ MaxConnection <= MaxJourney
ASSUME TimetablesAssumption ==
    \A t \in Timetables :
        /\ t \in [Legs -> Seq([dep : Int, arr : Int])]
        /\ \A k \in Legs : \A i \in DOMAIN t[k] :
              /\ t[k][i].dep < t[k][i].arr
              /\ i > 1 => t[k][i - 1].dep <= t[k][i].dep

VARIABLES
    timetable,    \* what was fetched
    matcher,      \* the one at work
    phase,        \* where it is
    leg,          \* the leg whose departures are narrowed next
    left,         \* the places of the departures left to walk, per leg
    path,         \* the places taken so far, one per leg entered
    tried,        \* the place last tried on the next leg
    attempts, journeys, truncated,
    expired,      \* the context of the search has ended
    results       \* what each matcher returned

walk == <<path, tried, attempts, journeys, truncated>>
vars == <<timetable, matcher, phase, leg, left, walk, expired, results>>

Matchers == {"brute", "windowed"}

NoResult == [journeys |-> <<>>, truncated |-> FALSE, attempts |-> 0, expired |-> FALSE]

Init ==
    /\ timetable \in Timetables
    /\ matcher = "brute"
    /\ phase = "enter"
    /\ leg = Len(Main)
    /\ left = [k \in Legs |-> DOMAIN timetable[k]]
    /\ path = <<>> /\ tried = 0 /\ attempts = 0 /\ journeys = <<>> /\ truncated = FALSE
    /\ expired = FALSE
    /\ results = [m \in Matchers |-> NoResult]

------------------------------------------------------------------------------
\* Known transfers among the steps from..to.
TransferTime(from, to) == MapThenSumSet(LAMBDA i : Transfers[i], from..to)

LegZeroOffset == Before[Steps[Main[1]]] + TransferTime(1, Main[1] - 1)

\* Between the arrival of leg k and the departure of the next one.
ConnectionRequirement(k) ==
    After[Steps[Main[k]]] + Buffer + Before[Steps[Main[k + 1]]]
        + TransferTime(Main[k] + 1, Main[k + 1] - 1)

\* After the arrival of the last leg.
Leaving == After[Steps[Last(Main)]] + TransferTime(Last(Main) + 1, Len(Steps))

\* Durations are not negative (Config.Validate).
ASSUME DurationsAssumption ==
    /\ LegZeroOffset \in Nat /\ Leaving \in Nat
    /\ \A k \in Legs \ {Len(Main)} : ConnectionRequirement(k) \in Nat

At(p, k) == timetable[k][p[k]]

StartOf(p) == At(p, 1).dep - LegZeroOffset

DayOf(p) == StartOf(p) \div DayLength

OnDay(day, js) == Cardinality({i \in DOMAIN js : DayOf(js[i]) = day})

DayFull(day) == MaxJourneysPerDay > 0 /\ OnDay(day, journeys) >= MaxJourneysPerDay

------------------------------------------------------------------------------
(***************************************************************************)
(* narrowWindows, one leg at a time.                                       *)
(***************************************************************************)
\* Mutant of FilterByArrival: a connection of exactly the longest wait is dropped.
FilterStrictly(k) ==
    {i \in left[k] : \E a, b \in left[k + 1] :
        /\ timetable[k][i].arr > timetable[k + 1][a].dep - MaxConnection
        /\ timetable[k][i].arr <= timetable[k + 1][b].dep - ConnectionRequirement(k)}

\* Mutant of FilterByArrival: only the earliest departure of the next leg counts.
FilterByFirst(k) ==
    {i \in left[k] : left[k + 1] # {} /\ LET d == timetable[k + 1][Min(left[k + 1])].dep IN
        /\ timetable[k][i].arr >= d - MaxConnection
        /\ timetable[k][i].arr <= d - ConnectionRequirement(k)}

\* Not before the earliest next departure allows, nor after the latest one does.
FilterByArrival(k) ==
    {i \in left[k] : \E a, b \in left[k + 1] :
        /\ timetable[k][i].arr >= timetable[k + 1][a].dep - MaxConnection
        /\ timetable[k][i].arr <= timetable[k + 1][b].dep - ConnectionRequirement(k)}

FilterByDeparture(lo, hi) ==
    {i \in left[1] : lo <= timetable[1][i].dep /\ timetable[1][i].dep < hi}

NarrowLeg ==
    /\ phase = "narrow" /\ leg > 1
    /\ leg' = leg - 1
    /\ left' = [left EXCEPT ![leg - 1] = FilterByArrival(leg - 1)]
    /\ UNCHANGED <<timetable, matcher, phase, walk, expired, results>>

NarrowStart ==
    /\ phase = "narrow" /\ leg = 1
    /\ left' = [left EXCEPT ![1] =
           FilterByDeparture(From + LegZeroOffset, End + LegZeroOffset)]
    /\ phase' = "enter"
    /\ UNCHANGED <<timetable, matcher, leg, walk, expired, results>>

------------------------------------------------------------------------------
(***************************************************************************)
(* searchCounting. A call of walk is entered with the path it is given;    *)
(* it returns at once, or tries the departures of the next leg in turn.    *)
(***************************************************************************)
\* Back to the caller's loop; the outermost call ends the search.
Return ==
    IF path = <<>>
    THEN phase' = "report" /\ UNCHANGED <<path, tried>>
    ELSE phase' = "loop" /\ path' = Front(path) /\ tried' = Last(path)

\* The deadline of the check passes.
Expire ==
    /\ phase \in {"narrow", "enter", "loop"} /\ ~expired
    /\ expired' = TRUE
    /\ UNCHANGED <<timetable, matcher, phase, leg, left, walk, results>>

EnterExpired ==
    /\ phase = "enter" /\ expired
    /\ Return
    /\ UNCHANGED <<attempts, journeys, truncated>>

\* No room for another journey: every call returns.
Full == Len(journeys) >= MaxJourneys

EnterFull ==
    /\ phase = "enter" /\ ~expired /\ Full
    /\ truncated' = TRUE
    /\ phase' = "report"
    /\ UNCHANGED <<path, tried, attempts, journeys>>

Entered == phase = "enter" /\ ~expired /\ ~Full

\* Mutant of ArrivalOf: leaving the last station takes no time.
StationReached(p) == At(p, Len(Main)).arr

ArrivalOf(p) == At(p, Len(Main)).arr + Leaving

EnterComplete ==
    /\ Entered /\ Len(path) = Len(Main)
    /\ journeys' = IF ArrivalOf(path) - StartOf(path) > MaxJourney
                   THEN journeys ELSE Append(journeys, path)
    /\ Return
    /\ UNCHANGED <<attempts, truncated>>

EnterLeg ==
    /\ Entered /\ Len(path) < Len(Main)
    /\ tried' = 0
    /\ phase' = "loop"
    /\ UNCHANGED <<path, attempts, journeys, truncated>>

LegInHand == Len(path) + 1

Candidates == {i \in left[LegInHand] : i > tried}

Trying == phase = "loop" /\ Candidates # {}

Gap(p, k) == At(p, k).dep - At(p, k - 1).arr

Connects(p, k) == Gap(p, k) >= ConnectionRequirement(k - 1) /\ Gap(p, k) <= MaxConnection

Starts(p) == From <= StartOf(p) /\ StartOf(p) < End /\ ~DayFull(DayOf(p))

\* The last departure of p may be added to those before it.
Acceptable(p) ==
    /\ IF Len(p) = 1 THEN Starts(p) ELSE Connects(p, Len(p))
    /\ At(p, Len(p)).arr - StartOf(p) <= MaxJourney

Counting == attempts < MaxCombinations

TryNext ==
    /\ Trying /\ Counting
    /\ attempts' = attempts + 1
    /\ tried' = Min(Candidates)
    /\ LET longer == Append(path, Min(Candidates)) IN
       IF Acceptable(longer)
       THEN path' = longer /\ phase' = "enter"
       ELSE UNCHANGED <<path, phase>>
    /\ UNCHANGED <<journeys, truncated>>

LimitReached ==
    /\ Trying /\ ~Counting
    /\ attempts' = attempts + 1
    /\ truncated' = TRUE
    /\ phase' = "report"
    /\ UNCHANGED <<path, tried, journeys>>

LegDone ==
    /\ phase = "loop" /\ Candidates = {}
    /\ Return
    /\ UNCHANGED <<attempts, journeys, truncated>>

\* A day at its limit may have had more journeys.
LimitSeen == \E i \in DOMAIN journeys : DayFull(DayOf(journeys[i]))

\* The search returns; the other matcher, with a context of its own, comes next.
Report ==
    /\ phase = "report"
    /\ results' = [results EXCEPT ![matcher] =
           [journeys |-> journeys, truncated |-> truncated \/ LimitSeen,
            attempts |-> attempts, expired |-> expired]]
    /\ matcher' = "windowed"
    /\ phase' = IF matcher = "brute" THEN "narrow" ELSE "done"
    /\ path' = <<>> /\ tried' = 0 /\ attempts' = 0 /\ journeys' = <<>> /\ truncated' = FALSE
    /\ expired' = FALSE
    /\ UNCHANGED <<timetable, leg, left>>

Walk ==
    /\ EnterExpired \/ EnterFull \/ EnterComplete \/ EnterLeg \/ TryNext \/ LimitReached \/ LegDone
    /\ UNCHANGED <<timetable, matcher, leg, left, expired, results>>

Search == NarrowLeg \/ NarrowStart \/ Walk \/ Report

Next == Search \/ Expire

Spec == Init /\ [][Next]_vars

------------------------------------------------------------------------------
(***************************************************************************)
(* What is to be found, said without a walk or a limit.                    *)
(***************************************************************************)
Journey(p) ==
    /\ From <= StartOf(p) /\ StartOf(p) < End
    /\ At(p, Len(Main)).arr + Leaving - StartOf(p) <= MaxJourney
    /\ \A k \in Legs \ {1} :
          /\ At(p, k).dep - At(p, k - 1).arr >= ConnectionRequirement(k - 1)
          /\ At(p, k).dep - At(p, k - 1).arr <= MaxConnection

Compatible ==
    {p \in [Legs -> UNION {DOMAIN timetable[k] : k \in Legs}] :
        (\A k \in Legs : p[k] \in DOMAIN timetable[k]) /\ Journey(p)}

Returned(m) ==
    \/ m = "brute" /\ matcher = "windowed"
    \/ m = "windowed" /\ phase = "done"

\* What the check of the scheme says of it when its lists are whole and its nodes meet.
State(r) ==
    CASE r.journeys # <<>> -> "compatible"
      [] r.journeys = <<>> /\ r.truncated -> "unverified"
      [] OTHER -> "no_match"

------------------------------------------------------------------------------
(***************************************************************************)
(* Every journey found is one the traveller can make, from the time he may *)
(* set out to his arrival, and is found once (match.go, walk); a search    *)
(* that was not cut short, by a limit or its deadline, has found them all: *)
(* nothing is left out without a warning.                                  *)
(***************************************************************************)
FoundIsThose ==
    /\ IsInjective(journeys) /\ ToSet(journeys) \subseteq Compatible
    /\ \A m \in Matchers :
          LET r == results[m]
          IN Returned(m) /\ ~r.truncated /\ ~r.expired => ToSet(r.journeys) = Compatible

(***************************************************************************)
(* narrowWindows drops no departure of a compatible journey: a superset of *)
(* the true windows is left at every leg, whatever the other legs hold     *)
(* (match.go:38-45, 171-176).                                              *)
(***************************************************************************)
NarrowingIsSafe == \A p \in Compatible : \A k \in Legs : p[k] \in left[k]

(***************************************************************************)
(* The matchers return the same journeys, in the same order, also under    *)
(* the limits on journeys, in all and per day, as long as neither runs out *)
(* of combinations or of time (match.go:27-30, match_test.go:59-68).       *)
(***************************************************************************)
Counted == \A m \in Matchers : results[m].attempts <= MaxCombinations /\ ~results[m].expired

MatchersAgree ==
    phase = "done" /\ Counted => results["brute"].journeys = results["windowed"].journeys

(***************************************************************************)
(* A scheme is said to have no journeys only if it has none: limits mean   *)
(* an incomplete check (docs/ops/schedules.md:28). It does not hold: the   *)
(* search that was under way when the deadline passed says nothing of it.  *)
(***************************************************************************)
AbsenceIsChecked ==
    \A m \in Matchers : Returned(m) /\ State(results[m]) = "no_match" => Compatible = {}
==============================================================================
