---------------------------- MODULE ScheduleReport ----------------------------
(***************************************************************************)
(* One schedule check (Checker.Check): every variant of every saved scheme *)
(* gets a row; its legs are looked up in the timetables, once per section  *)
(* and day by day, and the matcher says which journeys can be made. The    *)
(* check runs under limits and a deadline that may pass at any point.      *)
(*                                                                         *)
(* Time is counted in days. A departure is the day it leaves, as seen at   *)
(* the origin; timetables list it under the date of its own station. The   *)
(* matcher is its result (ScheduleMatch has it step by step).              *)
(***************************************************************************)
EXTENDS Integers, Sequences, SequencesExt, FiniteSetsExt

CONSTANTS
    Inputs,         \* saved graphs: [complete, from, to, today, candidates]
    Worlds,         \* what the timetables hold: [departures, shift] per section
    Settings,       \* [dates, requests, journeys, rows, size]
    Supported,      \* sections whose codes Collector can ask for
    MaxJourney,     \* the longest journey in days
    MaxCandidates, MaxAccess, MaxLegs,   \* 50, 20 and 8 in the code
    MaxBad          \* calls that are not answered in full (bound of the instance)

VARIABLES
    input, world, limits,   \* those of this check
    phase,          \* where it is
    place,          \* the candidate, variant, leg and day in hand
    period,         \* from the first day of departure up to End, excluded
    memo,           \* sections looked up: [found, whole]
    found,          \* what the section in hand has brought
    calls,          \* [made, bad]
    numbers,        \* the number of a group of schemes
    row,            \* the row in hand
    rows, incomplete,   \* the report
    expired         \* the context of the check has ended

given == <<input, world, limits>>
lookups == <<memo, found, calls>>
report == <<row, rows, incomplete>>
vars == <<given, phase, place, period, lookups, numbers, report, expired>>

Nowhere == [candidate |-> 1, variant |-> 1, leg |-> 1, day |-> 0]

Nothing == [found |-> {}, whole |-> TRUE]

NoRow == [scheme |-> 0, access |-> 0, legs |-> <<>>, available |-> <<>>, whole |-> TRUE, journeys |-> {}, state |-> ""]

Init ==
    /\ input \in Inputs /\ world \in Worlds /\ limits \in Settings
    /\ phase = "start" /\ place = Nowhere /\ period = [from |-> 0, end |-> 0]
    /\ memo = [s \in {} |-> Nothing] /\ found = Nothing /\ calls = [made |-> 0, bad |-> 0]
    /\ numbers = [groups |-> [g \in {} |-> 0], last |-> 0]
    /\ row = NoRow /\ rows = <<>> /\ incomplete = ~input.complete
    /\ expired = FALSE

Expire ==
    /\ phase \notin {"done", "failed"} /\ ~expired
    /\ expired' = TRUE
    /\ UNCHANGED <<given, phase, place, period, lookups, numbers, report>>

Fail ==
    /\ phase' = "failed"
    /\ UNCHANGED <<given, place, period, lookups, numbers, report, expired>>

------------------------------------------------------------------------------
(* The days examined *)
FirstDay == Max({input.from, input.today})

SampledEnd == FirstDay + limits.dates

\* Past days are not asked for; days beyond the limit are left out and told.
Start ==
    /\ phase = "start"
    /\ IF input.to < input.today
       THEN phase' = "done" /\ UNCHANGED <<period, incomplete>>
       ELSE /\ Len(input.candidates) \in 1..MaxCandidates
            /\ phase' = "candidate"
            /\ period' = [from |-> FirstDay, end |-> Min({input.to + 1, SampledEnd})]
            /\ incomplete' = (incomplete \/ input.to + 1 > SampledEnd)
    /\ UNCHANGED <<given, place, lookups, numbers, row, rows, expired>>

NothingToCheck ==
    /\ phase = "start" /\ input.to >= input.today
    /\ Len(input.candidates) \notin 1..MaxCandidates
    /\ Fail

------------------------------------------------------------------------------
(* Candidates and their variants *)
Candidate == input.candidates[place.candidate]

\* The variants of a candidate differ in the rail feeder, their first leg.
Variants(c) ==
    IF c.access = <<>> THEN <<c.legs>> ELSE [i \in DOMAIN c.access |-> <<c.access[i]>> \o Tail(c.legs)]

NumberOf(c) ==
    IF c.group \in DOMAIN numbers.groups THEN numbers.groups[c.group] ELSE numbers.last + 1

Numbered(c) ==
    IF c.group \in DOMAIN numbers.groups THEN numbers
    ELSE [last |-> numbers.last + 1,
          groups |-> IF c.group = "" THEN numbers.groups
                     ELSE [g \in DOMAIN numbers.groups \cup {c.group} |->
                              IF g = c.group THEN numbers.last + 1 ELSE numbers.groups[g]]]

EnterCandidate ==
    /\ phase = "candidate" /\ place.candidate \in DOMAIN input.candidates
    /\ Len(Candidate.access) <= MaxAccess
    /\ numbers' = Numbered(Candidate)
    /\ row' = [NoRow EXCEPT !.scheme = NumberOf(Candidate)]
    /\ phase' = "variant" /\ place' = [place EXCEPT !.variant = 1]
    /\ UNCHANGED <<given, period, lookups, rows, incomplete, expired>>

TooManyVariants ==
    /\ phase = "candidate" /\ place.candidate \in DOMAIN input.candidates
    /\ Len(Candidate.access) > MaxAccess
    /\ Fail

RowsOf(scheme) == Cardinality({i \in DOMAIN rows : rows[i].scheme = scheme})

LeaveCandidate == phase' = "candidate" /\ place' = [place EXCEPT !.candidate = @ + 1]

EnterVariant ==
    /\ phase = "variant" /\ place.variant \in DOMAIN Variants(Candidate) /\ ~expired
    /\ IF Len(rows) >= limits.rows
       THEN LeaveCandidate /\ incomplete' = TRUE /\ UNCHANGED row
       ELSE /\ row' = [NoRow EXCEPT !.scheme = row.scheme, !.access = RowsOf(row.scheme) + 1,
                                    !.legs = Variants(Candidate)[place.variant],
                                    !.whole = Candidate.meets # "labels"]
            /\ phase' = "leg" /\ place' = [place EXCEPT !.leg = 1]
            /\ UNCHANGED incomplete
    /\ UNCHANGED <<given, period, lookups, numbers, rows, expired>>

DeadlineSeen ==
    /\ phase = "variant" /\ place.variant \in DOMAIN Variants(Candidate) /\ expired
    /\ Fail

VariantsDone ==
    /\ phase = "variant" /\ place.variant \notin DOMAIN Variants(Candidate)
    /\ LeaveCandidate
    /\ UNCHANGED <<given, period, lookups, numbers, report, expired>>

------------------------------------------------------------------------------
(***************************************************************************)
(* fetch: dates are those of the stations, so a day on either side of the  *)
(* period is asked for, and the days in which a journey may go on.         *)
(***************************************************************************)
Section == row.legs[place.leg]

\* Mutant of LastDay: the stations are in the time zone of the origin.
LastDayLocal(end) == end + MaxJourney

LastDay(end) == end + MaxJourney + 1

\* A section is taken over from the memo, with what it lacks.
Take(value) ==
    /\ row' = [row EXCEPT !.available = Append(@, value.found), !.whole = @ /\ value.whole]
    /\ phase' = "leg" /\ place' = [place EXCEPT !.leg = @ + 1]

KnownLeg ==
    /\ phase = "leg" /\ place.leg \in DOMAIN row.legs /\ Section \in DOMAIN memo
    /\ Take(memo[Section])
    /\ UNCHANGED <<given, period, lookups, numbers, rows, incomplete, expired>>

Remember(value) == memo' = [s \in DOMAIN memo \cup {Section} |-> IF s = Section THEN value ELSE memo[s]]

UnsupportedLeg ==
    /\ phase = "leg" /\ place.leg \in DOMAIN row.legs /\ Section \notin DOMAIN memo
    /\ Section \notin Supported
    /\ LET value == [Nothing EXCEPT !.whole = FALSE] IN Remember(value) /\ Take(value)
    /\ UNCHANGED <<given, period, found, calls, numbers, rows, incomplete, expired>>

NewLeg ==
    /\ phase = "leg" /\ place.leg \in DOMAIN row.legs /\ Section \notin DOMAIN memo
    /\ Section \in Supported
    /\ found' = Nothing
    /\ phase' = "call" /\ place' = [place EXCEPT !.day = period.from - 1]
    /\ UNCHANGED <<given, period, memo, calls, numbers, report, expired>>

Listed(s, day) == {t \in world.departures[s] : t + world.shift[s] = day}

Partial(value) == [value EXCEPT !.whole = FALSE]

Stopped == expired \/ calls.made >= limits.requests

Call ==
    /\ phase = "call" /\ place.day < LastDay(period.end) /\ ~Stopped
    /\ place' = [place EXCEPT !.day = @ + 1]
    /\ LET listed == Listed(Section, place.day) IN
       \/ /\ found' = [found EXCEPT !.found = @ \cup listed]
          /\ calls' = [calls EXCEPT !.made = @ + 1]
       \/ /\ calls.bad < MaxBad
          /\ \E part \in SUBSET listed :
                found' = Partial([found EXCEPT !.found = @ \cup part])
          /\ calls' = [made |-> calls.made + 1, bad |-> calls.bad + 1]
    /\ UNCHANGED <<given, phase, period, memo, numbers, report, expired>>

Fetched ==
    /\ phase = "call"
    /\ \/ /\ place.day >= LastDay(period.end)
          /\ Remember(found) /\ Take(found)
       \/ /\ place.day < LastDay(period.end) /\ Stopped
          /\ LET value == Partial(found) IN Remember(value) /\ Take(value)
    /\ UNCHANGED <<given, period, found, calls, numbers, rows, incomplete, expired>>

------------------------------------------------------------------------------
(* Rows *)
\* One departure for every leg, each later than the one before.
Journeys(available, p) ==
    {j \in [DOMAIN available -> UNION Range(available)] :
        /\ \A k \in DOMAIN available : j[k] \in available[k]
        /\ \A k \in DOMAIN available \ {1} : j[k - 1] < j[k]
        /\ j[1] \in p.from..(p.end - 1)
        /\ j[Len(available)] - j[1] <= MaxJourney}

\* What Match may return: limits cut its walk anywhere, a deadline without a word.
Matches ==
    LET all == Journeys(row.available, period)
        some == {x \in SUBSET all : Cardinality(x) <= limits.journeys}
    IN [journeys : some, truncated : {TRUE}]
       \cup {m \in [journeys : some, truncated : {FALSE}] : expired \/ m.journeys = all}

StateOf(whole, mismatch, m) ==
    IF m.journeys # {} /\ ~mismatch THEN "compatible"
    ELSE IF ~whole \/ mismatch \/ m.truncated THEN "unverified" ELSE "no_match"

\* Mutant of Lacking: only rows without journeys count.
LackingEmpty(whole, mismatch, m) == (~whole \/ m.truncated) /\ m.journeys = {}

Lacking(whole, mismatch, m) == ~whole \/ mismatch \/ m.truncated

Save(r) ==
    /\ rows' = Append(rows, [r EXCEPT !.available = <<>>])
    /\ row' = [NoRow EXCEPT !.scheme = r.scheme]
    /\ phase' = "variant" /\ place' = [place EXCEPT !.variant = @ + 1, !.day = 0]

Match ==
    /\ phase = "leg" /\ place.leg = Len(row.legs) + 1 /\ Len(row.legs) \in 1..MaxLegs
    /\ LET mismatch == Candidate.meets # "yes" IN
       \E m \in Matches :
          /\ Save([row EXCEPT !.journeys = m.journeys, !.state = StateOf(row.whole, mismatch, m)])
          /\ incomplete' = (incomplete \/ Lacking(row.whole, mismatch, m))
    /\ UNCHANGED <<given, period, lookups, numbers, expired>>

NoChain ==
    /\ phase = "leg" /\ place.leg = Len(row.legs) + 1 /\ Len(row.legs) \notin 1..MaxLegs
    /\ Save([row EXCEPT !.state = "unverified"])
    /\ incomplete' = TRUE
    /\ UNCHANGED <<given, period, lookups, numbers, expired>>

\* A report that is too large loses its last rows.
Finish ==
    /\ phase = "candidate" /\ place.candidate \notin DOMAIN input.candidates
    /\ rows' = SubSeq(rows, 1, Min({Len(rows), limits.size}))
    /\ incomplete' = (incomplete \/ calls.made >= limits.requests \/ Len(rows) > limits.size)
    /\ phase' = "done"
    /\ UNCHANGED <<given, place, period, lookups, numbers, row, expired>>

Next ==
    \/ Expire \/ Start \/ NothingToCheck
    \/ EnterCandidate \/ TooManyVariants \/ EnterVariant \/ DeadlineSeen \/ VariantsDone
    \/ KnownLeg \/ UnsupportedLeg \/ NewLeg \/ Call \/ Fetched
    \/ Match \/ NoChain \/ Finish

Spec == Init /\ [][Next]_vars

------------------------------------------------------------------------------
(***************************************************************************)
(* The truth about a scheme: the journeys of all departures there are.     *)
(***************************************************************************)
Real(legs, p) == Journeys([k \in DOMAIN legs |-> world.departures[legs[k]]], p)

Asked == [from |-> FirstDay, end |-> input.to + 1]

Checkable(legs) == Len(legs) \in 1..MaxLegs

(***************************************************************************)
(* Errors do not become a proof that there is no route                     *)
(* (docs/ops/schedules.md): a row says no_match only if no journey can be  *)
(* made in the days examined, and the journeys it shows can be made. The   *)
(* deadline that passes during the last match is left out here: Match then *)
(* returns what it has and Check no longer looks at the context.           *)
(***************************************************************************)
RowsAreTrue ==
    \A i \in DOMAIN rows :
        /\ rows[i].state = "no_match" /\ ~expired => Real(rows[i].legs, period) = {}
        /\ rows[i].journeys # {} => rows[i].journeys \subseteq Real(rows[i].legs, period)

(***************************************************************************)
(* A report that does not call itself incomplete has a row for every       *)
(* variant of every scheme and all journeys of all the days asked for,     *)
(* whatever was failed, cut, remembered from another row or dropped.       *)
(***************************************************************************)
AllVariants == UNION {{c} \X DOMAIN Variants(input.candidates[c]) : c \in DOMAIN input.candidates}

Preceding(q) == {r \in AllVariants : r[1] < q[1] \/ (r[1] = q[1] /\ r[2] < q[2])}

CompleteIsAll ==
    phase = "done" /\ ~incomplete /\ ~expired /\ input.to >= input.today =>
        /\ Len(rows) = Cardinality(AllVariants)
        /\ \A q \in AllVariants :
              rows[Cardinality(Preceding(q)) + 1].legs = Variants(input.candidates[q[1]])[q[2]]
        /\ \A i \in DOMAIN rows : Checkable(rows[i].legs) /\ rows[i].journeys = Real(rows[i].legs, Asked)

==============================================================================
