----------------------------- MODULE GraphPlanner -----------------------------
(***************************************************************************)
(* The graph planner of Search (realroutes): it asks Collector, call by    *)
(* call, for flights and trains around the airports of a catalog, under    *)
(* budgets, and keeps the route schemes that follow. The work left is an   *)
(* agenda of tasks in the order of Planner.Plan; a task makes at most one  *)
(* call and may put others in its place.                                   *)
(*                                                                         *)
(* Places lie on a line. A leg is what tells one observed trip from        *)
(* another; the transfers of a scheme follow from its legs, and so do the  *)
(* names shown. Collector may fail a call and the deadline may pass at any *)
(* point.                                                                  *)
(***************************************************************************)
EXTENDS Integers, Sequences, SequencesExt, FiniteSetsExt

CONSTANTS
    Catalog,        \* airports: sequence of [iata, size, scheduled, at, town]
    OriginAt, DestinationAt,
    AirportRadius, HubRadius, RailRadius,
    Worlds,         \* what Collector may know
    Settings,       \* budgets the operator may set
    MaxFailures     \* calls that fail (bound of the instance)

\* A catalog places its airports.
ASSUME CatalogAssumption ==
    /\ Catalog \in Seq(ToSet(Catalog)) /\ OriginAt \in Int /\ DestinationAt \in Int
    /\ \A a \in DOMAIN Catalog : Catalog[a].at \in Int

\* Collector answers with lists, and with at least one page; a path has a flight.
ASSUME WorldsAssumption ==
    \A w \in Worlds :
        /\ \A q \in DOMAIN w.legs :
             /\ w.legs[q] \in Seq(ToSet(w.legs[q])) /\ w.legs[q] # <<>>
             /\ \A page \in ToSet(w.legs[q]) : IsFiniteSet(page)
        /\ \A x \in DOMAIN w.arrivals :
             /\ w.arrivals[x] \in Seq(ToSet(w.arrivals[x])) /\ w.arrivals[x] # <<>>
             /\ \A page \in ToSet(w.arrivals[x]) :
                  page \in Seq(ToSet(page)) /\ \A t \in ToSet(page) : IsFiniteSet(t.legs)
        /\ \A x \in DOMAIN w.stations : w.stations[x] \in Seq(ToSet(w.stations[x]))
        /\ \A q \in DOMAIN w.paths :
             /\ w.paths[q] \in Seq(ToSet(w.paths[q]))
             /\ \A path \in ToSet(w.paths[q]) : path \in Seq(ToSet(path)) /\ path # <<>>
        /\ w.dates \in Seq(ToSet(w.dates))

ASSUME SettingsAssumption ==
    Settings \subseteq
        [airports : Nat, hubs : Nat, pages : Nat, requests : Nat, candidates : Nat, variants : Nat, flights : Nat]

VARIABLES
    world, limits,  \* those of this plan
    agenda,         \* tasks left
    ledger,         \* the calls made and what is told of them
    city,           \* the settlement of the origin is known
    incoming,       \* flights to the destination airports
    hubs, pairs,    \* first stations and station pairs of the flights taken
    discovery,      \* threads looked up for the arrival airport in hand
    chains,         \* pairs of airports with the flight paths seen, in order
    access,         \* ways to reach a departure airport
    candidates,     \* the schemes kept
    seen,           \* topologies kept
    expired         \* the context has ended

graph == <<city, incoming, hubs, pairs, discovery>>
flights == <<chains, access>>
schemes == <<candidates, seen>>
vars == <<world, limits, agenda, ledger, graph, flights, schemes, expired>>

------------------------------------------------------------------------------
(* Airports *)
Airports == DOMAIN Catalog

Away(x, y) == IF x < y THEN y - x ELSE x - y

Iata(a) == Catalog[a].iata

Mapped(iata) == {a \in Airports : Catalog[a].iata = iata}

\* Large airports first, then the nearer one, then the order of the catalog.
Before(a, b, at) ==
    LET large(x) == IF Catalog[x].size = "large" THEN 0 ELSE 1
        da == Away(at, Catalog[a].at)
        db == Away(at, Catalog[b].at)
    IN  \/ large(a) < large(b)
        \/ large(a) = large(b) /\ da < db
        \/ large(a) = large(b) /\ da = db /\ a < b

Usable(a) == Catalog[a].scheduled /\ Cardinality(Mapped(Iata(a))) = 1

\* The elements of a set, each after those that come before it.
Ordered(S, order) ==
    [n \in 1..Cardinality(S) |-> CHOOSE a \in S : Cardinality({b \in S : <<b, a>> \in order}) = n - 1]

FirstTo(at) == {p \in Airports \X Airports : Before(p[1], p[2], at)}

Around(at, radius) ==
    Ordered({a \in Airports : Usable(a) /\ Catalog[a].size \in {"large", "medium"}
                                   /\ Away(at, Catalog[a].at) <= radius},
            FirstTo(at))

AroundOrigin == Around(OriginAt, AirportRadius)

AroundDestination == Around(DestinationAt, AirportRadius)

AroundHub == [a \in Airports |-> Around(Catalog[a].at, RailRadius)]

First(s, n) == SubSeq(s, 1, IF Len(s) < n THEN Len(s) ELSE n)

\* The nearest airports, no more than the limit.
Near(around) == First(around, limits.airports)

NearCut(around) == Len(around) > limits.airports

Origins == Near(AroundOrigin)

Destinations == Near(AroundDestination)

\* diverseAirports: every town gets its first airport before any gets its second.
SameTown(S, a) == {b \in S : Catalog[b].town = Catalog[a].town}

Round(S, a) == Cardinality({b \in SameTown(S, a) : Before(b, a, OriginAt)})

Leader(S, a) == CHOOSE b \in SameTown(S, a) : \A c \in SameTown(S, a) : b = c \/ Before(b, c, OriginAt)

Diverse(S) ==
    Ordered(S, {p \in S \X S :
        \/ Round(S, p[1]) < Round(S, p[2])
        \/ Round(S, p[1]) = Round(S, p[2]) /\ Before(Leader(S, p[1]), Leader(S, p[2]), OriginAt)})

AllHubs ==
    {a \in Airports : /\ Usable(a) /\ Catalog[a].size = "large"
                      /\ Away(OriginAt, Catalog[a].at) <= HubRadius}

DiverseHubs == Diverse(AllHubs)

GeographicHubs == First(DiverseHubs, limits.hubs)

\* Airports of one code make no pair.
Pair(a, b) == IF Iata(a) = Iata(b) THEN <<>> ELSE <<<<a, b>>>>

\* Every airport to leave from, for the first to reach, before any for the second.
Pairs(from, to) ==
    FlattenSeq([i \in DOMAIN to |-> FlattenSeq([j \in DOMAIN from |-> Pair(from[j], to[i])])])

\* Every airport to reach from the first to leave from, before any from the second.
PairsFromEach(from, to) == FlattenSeq([i \in DOMAIN from |-> Pairs(<<from[i]>>, to)])

------------------------------------------------------------------------------
(* Calls *)
NoCalls == [cache |-> {}, failures |-> {}, requests |-> 0, flights |-> 0, failed |-> 0,
            limit |-> FALSE, issues |-> {}]

Cut(l) == [l EXCEPT !.limit = TRUE]

CutIf(l, condition) == IF condition THEN Cut(l) ELSE l

Issue(l, what) == [l EXCEPT !.issues = @ \cup {what}]

Reply(ok, l) == [ok |-> ok, ledger |-> l]

\* Calls to the timetables.
Spent(l) == l.requests - l.flights

Fails(l) == [Issue(l, "failed") EXCEPT !.requests = @ + 1, !.failed = @ + 1]

\* What call may bring: an answer is asked for once, and so is a failure.
Answers(q) ==
    IF q \in ledger.cache THEN {Reply(TRUE, ledger)}
    ELSE IF q \in ledger.failures \/ expired THEN {Reply(FALSE, ledger)}
    ELSE IF Spent(ledger) >= limits.requests THEN {Reply(FALSE, Cut(ledger))}
    ELSE {Reply(TRUE, [ledger EXCEPT !.requests = @ + 1, !.cache = @ \cup {q}])}
         \cup {Reply(FALSE, [Fails(ledger) EXCEPT !.failures = @ \cup {q}]) :
                   n \in {m \in {ledger.failed} : m < MaxFailures}}

\* Legs between two places, page by page; a page may be empty.
PagesOf(from, to) == IF <<from, to>> \in DOMAIN world.legs THEN world.legs[<<from, to>>] ELSE <<{}>>

\* Flights that arrive at an airport, page by page, what of a flight arrives there, and the stations around one.
ArrivalsOf(a) == IF Iata(a) \in DOMAIN world.arrivals THEN world.arrivals[Iata(a)] ELSE <<<<>>>>

Landing(b, t) == {leg \in t.legs : leg.to = Iata(b)}

StationsOf(a) == IF Iata(a) \in DOMAIN world.stations THEN world.stations[Iata(a)] ELSE <<>>

------------------------------------------------------------------------------
(* Schemes *)
\* Mutant of AccessKey: only the last flight is told apart.
AccessKeyShort(legs) ==
    IF Len(legs) > 1 /\ legs[1].mode = "train" THEN <<<<legs[1].from>>, <<Last(legs)>>>> ELSE <<>>

\* A rail feeder before flights: all that RailAccessKey keeps of it.
AccessKey(legs) ==
    IF Len(legs) > 1 /\ legs[1].mode = "train" THEN <<<<legs[1].from>>, Tail(legs)>> ELSE <<>>

Grouped(legs) ==
    {i \in DOMAIN candidates : AccessKey(legs) # <<>> /\ AccessKey(candidates[i].legs) = AccessKey(legs)}

Candidate(legs, dates) ==
    [legs |-> legs, dates |-> dates, variants |-> IF AccessKey(legs) = <<>> THEN <<>> ELSE <<legs[1]>>]

Joins(i, legs) == Len(candidates[i].variants) < limits.variants

\* add: one of the schemes, at the ledger l.
Add(legs, dates, l) ==
    IF legs \in seen
    THEN UNCHANGED schemes /\ ledger' = l
    ELSE IF Grouped(legs) # {}
    THEN LET i == CHOOSE j \in Grouped(legs) : TRUE IN
         IF Joins(i, legs)
         THEN /\ candidates' = [candidates EXCEPT ![i].variants = Append(@, legs[1])]
              /\ seen' = seen \cup {legs} /\ ledger' = l
         ELSE UNCHANGED schemes /\ ledger' = Cut(Issue(l, "variants"))
    ELSE IF Len(candidates) >= limits.candidates
    THEN UNCHANGED schemes /\ ledger' = Cut(Issue(l, "schemes"))
    ELSE /\ candidates' = Append(candidates, Candidate(legs, dates))
         /\ seen' = seen \cup {legs} /\ ledger' = l

------------------------------------------------------------------------------
(* The agenda *)
Task(do, subject) == [do |-> do, subject |-> subject]

\* A search of what leads from one place to another, and what its legs are for.
Search(from, to, mode, purpose) ==
    [do |-> "search", from |-> from, to |-> to, mode |-> mode, page |-> 1, found |-> <<>>, purpose |-> purpose]

FlightSearch(p, purpose) == Search(Iata(p[1]), Iata(p[2]), "plane", purpose)

Searches(ps, purpose) == [i \in DOMAIN ps |-> FlightSearch(ps[i], purpose)]

Arrivals(b, page) == [do |-> "arrivals", to |-> b, page |-> page]

Plan ==
    <<Task("settlement", "origin")>>
    \o Searches(PairsFromEach(Origins, Destinations), Task("direct", 0))
    \o Searches(PairsFromEach(GeographicHubs, Destinations), Task("incoming", 0))
    \o [i \in DOMAIN Destinations |-> Arrivals(Destinations[i], 1)]
    \o <<Task("flights", "sort"), Task("google", "pairs")>>

Init ==
    /\ world \in Worlds /\ limits \in Settings
    /\ agenda = Plan
    /\ ledger = [NoCalls EXCEPT
           !.issues = IF \E a \in Airports : Cardinality(Mapped(Iata(a))) > 1 THEN {"ambiguous"} ELSE {},
           !.limit = \/ NearCut(AroundOrigin) \/ NearCut(AroundDestination)
                     \/ Cardinality(AllHubs) > limits.hubs]
    /\ city = FALSE /\ incoming = <<>> /\ hubs = {} /\ pairs = {}
    /\ discovery = [calls |-> 0, numbers |-> {}]
    /\ chains = <<>> /\ access = [a \in {} |-> {}]
    /\ candidates = <<>> /\ seen = {}
    /\ expired = FALSE

Doing(do) == agenda # <<>> /\ Head(agenda).do = do

Job == Head(agenda)

\* The task in hand is replaced by others.
Replace(tasks) == agenda' = tasks \o Tail(agenda)

Expire ==
    /\ agenda # <<>> /\ ~expired
    /\ expired' = TRUE
    /\ UNCHANGED <<world, limits, agenda, ledger, graph, flights, schemes>>

Settlement ==
    /\ Doing("settlement")
    /\ \E r \in Answers(<<"settlement">>) :
          ledger' = r.ledger /\ city' = (r.ok /\ world.settlements = 1)
    /\ Replace(<<>>)
    /\ UNCHANGED <<incoming, hubs, pairs, discovery, flights, schemes>>

(***************************************************************************)
(* search: page after page until the last, a failure or the limit, then    *)
(* each leg is put to its purpose.                                         *)
(***************************************************************************)
Uses(task) == [i \in DOMAIN task.found |-> [do |-> "use", leg |-> task.found[i], purpose |-> task.purpose]]

SearchPage ==
    /\ Doing("search")
    /\ \E r \in Answers(<<"search", Job.from, Job.to, Job.page>>) :
          LET pages == PagesOf(Job.from, Job.to)
              new == SetToSeq(pages[Job.page] \ ToSet(Job.found))
              task == [Job EXCEPT !.found = @ \o new]
          IN IF ~r.ok
             THEN Replace(Uses(Job)) /\ ledger' = r.ledger
             ELSE IF Job.page = Len(pages)
             THEN Replace(Uses(task)) /\ ledger' = r.ledger
             ELSE IF pages[Job.page] = {}
             THEN Replace(Uses(task)) /\ ledger' = Issue(r.ledger, "empty page")
             ELSE IF Job.page = limits.pages
             THEN Replace(Uses(task)) /\ ledger' = Cut(r.ledger)
             ELSE Replace(<<[task EXCEPT !.page = @ + 1]>>) /\ ledger' = r.ledger
    /\ UNCHANGED <<graph, flights, schemes>>

UseLeg ==
    /\ Doing("use")
    /\ LET leg == Job.leg
           for == Job.purpose
       IN \/ /\ for.do = "direct"
             /\ Add(<<leg>>, {}, ledger)
             /\ UNCHANGED <<graph, flights>>
          \/ /\ for.do = "incoming"
             /\ incoming' = Append(incoming, leg)
             /\ UNCHANGED <<city, hubs, pairs, discovery, ledger, flights, schemes>>
          \/ /\ for.do = "hub"
             /\ IF leg.mode = "plane" /\ leg.from = for.subject.to
                THEN UNCHANGED <<schemes, ledger>>
                ELSE Add(<<leg, for.subject>>, {}, ledger)
             /\ UNCHANGED <<graph, flights>>
          \/ /\ for.do = "access"
             /\ access' = [access EXCEPT ![for.subject] = Append(@, <<leg>>)]
             /\ UNCHANGED <<graph, chains, ledger, schemes>>
    /\ Replace(<<>>)

(***************************************************************************)
(* Flights that arrive at a destination airport, found thread by thread.   *)
(***************************************************************************)
Budget == Max({1, (limits.requests \div 2) \div Max({1, Len(Destinations)})})

ArrivalsPage ==
    /\ Doing("arrivals")
    /\ discovery' = IF Job.page = 1 THEN [calls |-> 0, numbers |-> {}] ELSE discovery
    /\ \E r \in Answers(<<"arrivals", Iata(Job.to), Job.page>>) :
          /\ ledger' = r.ledger
          /\ LET pages == ArrivalsOf(Job.to)
                 threads == [i \in DOMAIN pages[Job.page] |->
                                [do |-> "thread", thread |-> pages[Job.page][i], to |-> Job.to]]
             IN IF r.ok THEN Replace(threads \o <<[Job EXCEPT !.do = "arrived"]>>) ELSE Replace(<<>>)
    /\ UNCHANGED <<city, incoming, hubs, pairs, flights, schemes>>

LookedUp(t) == t.number \in discovery.numbers

ThreadKnown ==
    /\ Doing("thread") /\ LookedUp(Job.thread)
    /\ Replace(<<>>)
    /\ UNCHANGED <<ledger, graph, flights, schemes>>

\* The tasks of this kind at the head of the agenda are left.
Leave(do) ==
    \E n \in DOMAIN agenda :
        /\ agenda[n].do # do /\ \A m \in 1..(n - 1) : agenda[m].do = do
        /\ agenda' = SubSeq(agenda, n, Len(agenda))

\* The rest of the page is left.
ThreadBeyondBudget ==
    /\ Doing("thread") /\ ~LookedUp(Job.thread) /\ discovery.calls >= Budget
    /\ discovery' = [discovery EXCEPT !.numbers = @ \cup {Job.thread.number}]
    /\ ledger' = Cut(ledger)
    /\ Leave("thread")
    /\ UNCHANGED <<city, incoming, hubs, pairs, flights, schemes>>

Thread ==
    /\ Doing("thread") /\ ~LookedUp(Job.thread) /\ discovery.calls < Budget
    /\ discovery' = [calls |-> discovery.calls + 1, numbers |-> discovery.numbers \cup {Job.thread.number}]
    /\ \E r \in Answers(<<"thread", Job.thread.number>>) :
          LET fits == Landing(Job.to, Job.thread) IN
          IF r.ok
          THEN /\ incoming' = incoming \o SetToSeq(fits)
               /\ ledger' = IF fits = Job.thread.legs THEN r.ledger ELSE Issue(r.ledger, "mismatch")
          ELSE UNCHANGED incoming /\ ledger' = r.ledger
    /\ Replace(<<>>)
    /\ UNCHANGED <<city, hubs, pairs, flights, schemes>>

LastPage == Job.page = Len(ArrivalsOf(Job.to))

PageArrived ==
    /\ Doing("arrived")
    /\ ledger' = CutIf(ledger, ~LastPage /\ Job.page = limits.pages)
    /\ IF LastPage \/ Job.page = limits.pages \/ discovery.calls >= Budget
       THEN Replace(<<>>)
       ELSE Replace(<<Arrivals(Job.to, Job.page + 1)>>)
    /\ UNCHANGED <<graph, flights, schemes>>

(***************************************************************************)
(* Incoming flights are joined, the ones that start nearest to the origin  *)
(* first, with the ways to reach their first airport.                      *)
(***************************************************************************)
\* A place to start from that is known; flights without one come last.
Distance(leg) ==
    IF Cardinality(Mapped(leg.from)) = 1
    THEN Away(OriginAt, Catalog[CHOOSE a \in Mapped(leg.from) : TRUE].at)
    ELSE 1000000

NearestFirst ==
    {p \in (DOMAIN incoming) \X (DOMAIN incoming) :
        \/ Distance(incoming[p[1]]) < Distance(incoming[p[2]])
        \/ Distance(incoming[p[1]]) = Distance(incoming[p[2]]) /\ p[1] < p[2]}

SortFlights ==
    /\ Doing("flights")
    /\ LET order == Ordered(DOMAIN incoming, NearestFirst)
       IN Replace([i \in DOMAIN order |-> Task("flight", incoming[order[i]])])
    /\ UNCHANGED <<ledger, graph, flights, schemes>>

\* Mutant of Unclear: any airport of that code will do.
UnclearIgnored(leg) == Mapped(leg.from) = {}

Unclear(leg) == Cardinality(Mapped(leg.from)) # 1

\* By train from the city, or by air from the airports of the origin.
Approach(hub, purpose) ==
    (IF city THEN <<[do |-> "stations", hub |-> hub, purpose |-> purpose]>> ELSE <<>>)
    \o Searches(Pairs(Origins, Near(AroundHub[hub])), purpose)

HubsFull(flight) == flight.from \notin hubs /\ Cardinality(hubs) >= limits.hubs

Flight ==
    /\ Doing("flight")
    /\ LET flight == Job.subject
           pair == <<flight.from, flight.to>>
           hub == CHOOSE a \in Mapped(flight.from) : TRUE
       IN IF pair \in pairs
          THEN Replace(<<>>) /\ UNCHANGED <<ledger, hubs, pairs, schemes>>
          ELSE /\ pairs' = pairs \cup {pair}
               /\ IF HubsFull(flight)
                  THEN Replace(<<>>) /\ ledger' = Cut(ledger) /\ UNCHANGED <<hubs, schemes>>
                  ELSE /\ hubs' = hubs \cup {flight.from}
                       /\ IF Unclear(flight)
                          THEN Replace(<<>>) /\ ledger' = Issue(ledger, "unmapped") /\ UNCHANGED schemes
                          ELSE IF Away(OriginAt, Catalog[hub].at) <= AirportRadius
                          THEN Replace(<<>>) /\ Add(<<flight>>, {}, ledger)
                          ELSE /\ Replace(Approach(hub, Task("hub", flight)))
                               /\ ledger' = CutIf(ledger, NearCut(AroundHub[hub]))
                               /\ UNCHANGED schemes
    /\ UNCHANGED <<city, incoming, discovery, flights>>

Stations ==
    /\ Doing("stations")
    /\ \E r \in Answers(<<"stations", Iata(Job.hub)>>) :
          LET near == StationsOf(Job.hub)
          IN /\ ledger' = r.ledger
             /\ IF r.ok
                THEN Replace([i \in DOMAIN near |-> Search("city", near[i], "train", Job.purpose)])
                ELSE Replace(<<>>)
    /\ UNCHANGED <<graph, flights, schemes>>

------------------------------------------------------------------------------
(***************************************************************************)
(* googlePaths: every pair is asked for one date before any for the next.  *)
(***************************************************************************)
Departures == Diverse(ToSet(Origins) \cup ToSet(GeographicHubs))

FlightPairs == Pairs(Departures, Destinations)

Checks ==
    FlattenSeq([d \in DOMAIN world.dates |->
        [i \in DOMAIN chains' |-> [do |-> "paths", chain |-> i, date |-> world.dates[d]]]])

Google ==
    /\ Doing("google")
    /\ IF limits.flights = 0 \/ expired
       THEN Replace(<<>>) /\ UNCHANGED <<ledger, chains>>
       ELSE IF world.dates = <<>>
       THEN Replace(<<>>) /\ ledger' = Issue(ledger, "past") /\ UNCHANGED chains
       ELSE /\ chains' = LET ps == FlightPairs IN
                         [i \in DOMAIN ps |-> [from |-> ps[i][1], to |-> ps[i][2], paths |-> <<>>]]
            /\ Replace(Checks \o <<Task("resolve", "access")>>)
            /\ ledger' = Issue(ledger, "sampled")
    /\ UNCHANGED <<graph, access, schemes>>

PathsOf(from, to, date) ==
    IF <<Iata(from), Iata(to), date>> \in DOMAIN world.paths THEN world.paths[<<Iata(from), Iata(to), date>>] ELSE <<>>

\* A path seen on an earlier date gets one more date.
Observe(known, legs, date) ==
    IF \E i \in DOMAIN known : known[i].legs = legs
    THEN [i \in DOMAIN known |-> IF known[i].legs = legs THEN [known[i] EXCEPT !.dates = @ \cup {date}] ELSE known[i]]
    ELSE Append(known, [legs |-> legs, dates |-> {date}])

\* The paths of an answer, to be noted one by one.
Observed(paths) ==
    [i \in DOMAIN paths |-> [do |-> "observe", chain |-> Job.chain, date |-> Job.date, legs |-> paths[i]]]

FlightsSpent == ledger.flights >= limits.flights

FlightPaths ==
    /\ Doing("paths")
    /\ IF expired
       THEN Leave("paths") /\ UNCHANGED <<ledger, chains>>
       ELSE IF FlightsSpent
       THEN Leave("paths") /\ ledger' = Cut(Issue(ledger, "flights")) /\ UNCHANGED chains
       ELSE /\ \/ /\ ledger' = [ledger EXCEPT !.requests = @ + 1, !.flights = @ + 1]
                  /\ Replace(Observed(PathsOf(chains[Job.chain].from, chains[Job.chain].to, Job.date)))
               \/ /\ ledger.failed < MaxFailures
                  /\ ledger' = [Fails(ledger) EXCEPT !.flights = @ + 1]
                  /\ Replace(<<>>)
            /\ UNCHANGED chains
    /\ UNCHANGED <<graph, access, schemes>>

ObservePath ==
    /\ Doing("observe")
    /\ chains' = [chains EXCEPT ![Job.chain].paths = Observe(@, Job.legs, Job.date)]
    /\ Replace(<<>>)
    /\ UNCHANGED <<ledger, graph, access, schemes>>

\* Access is looked for once per airport from which a path was seen.
Resolve ==
    /\ Doing("resolve")
    /\ LET flown == {i \in DOMAIN chains : chains[i].paths # <<>>}
           first == {i \in flown : \A j \in flown : chains[j].from = chains[i].from => i <= j}
           reach(i) == IF i \in first THEN <<Task("reach", chains[i].from)>> ELSE <<>>
       IN /\ access' = [a \in {chains[i].from : i \in flown} |-> <<>>]
          /\ Replace(FlattenSeq([i \in DOMAIN chains |-> reach(i)]) \o <<Task("combine", 1)>>)
    /\ UNCHANGED <<graph, chains, ledger, schemes>>

Reach ==
    /\ Doing("reach")
    /\ LET a == Job.subject IN
       IF Away(OriginAt, Catalog[a].at) <= AirportRadius
       THEN Replace(<<>>) /\ access' = [access EXCEPT ![a] = << <<>> >>] /\ UNCHANGED ledger
       ELSE /\ Replace(Approach(a, Task("access", a)))
            /\ ledger' = CutIf(ledger, NearCut(AroundHub[a]))
            /\ UNCHANGED access
    /\ UNCHANGED <<graph, chains, schemes>>

\* The ways to reach an airport, if they were looked for.
Ways(a) == IF a \in DOMAIN access THEN access[a] ELSE <<>>

\* A path seen, after each way to reach the airport where it starts.
Reached(a, path) ==
    [i \in DOMAIN Ways(a) |-> [do |-> "add", dates |-> path.dates, legs |-> Ways(a)[i] \o path.legs]]

\* The first path of every pair before the second of any.
Combine ==
    /\ Doing("combine")
    /\ LET round == Job.subject
           left(c) == Len(c.paths) >= round
           next(c) == IF left(c) THEN Reached(c.from, c.paths[round]) ELSE <<>>
       IN Replace(FlattenSeq([i \in DOMAIN chains |-> next(chains[i])])
                  \o IF \E i \in DOMAIN chains : left(chains[i]) THEN <<Task("combine", round + 1)>> ELSE <<>>)
    /\ UNCHANGED <<ledger, graph, flights, schemes>>

AddPath ==
    /\ Doing("add")
    /\ Add(Job.legs, Job.dates, ledger)
    /\ Replace(<<>>)
    /\ UNCHANGED <<graph, flights>>

Step ==
    /\ \/ Settlement \/ SearchPage \/ UseLeg
       \/ ArrivalsPage \/ ThreadKnown \/ ThreadBeyondBudget \/ Thread \/ PageArrived
       \/ SortFlights \/ Flight \/ Stations
       \/ Google \/ FlightPaths \/ ObservePath \/ Resolve \/ Reach \/ Combine \/ AddPath
    /\ UNCHANGED <<world, limits, expired>>

Next == Step \/ Expire

Spec == Init /\ [][Next]_vars

------------------------------------------------------------------------------
(***************************************************************************)
(* What there is to find, said of the map and not of the calls.            *)
(***************************************************************************)
LegsOf(from, to) == UNION {PagesOf(from, to)[i] : i \in DOMAIN PagesOf(from, to)}

Threads(b) == UNION {ToSet(ArrivalsOf(b)[i]) : i \in DOMAIN ArrivalsOf(b)}

\* Pairs of airports of two codes, and the legs between them.
Between(A, B) == {p \in A \X B : Iata(p[1]) # Iata(p[2])}

LegsAcross(A, B) == UNION {LegsOf(Iata(p[1]), Iata(p[2])) : p \in Between(A, B)}

\* Flights into the airports of the destination.
Listed == LegsAcross(ToSet(GeographicHubs), ToSet(Destinations))

Arriving == UNION {UNION {Landing(b, t) : t \in Threads(b)} : b \in ToSet(Destinations)}

Inbound == Listed \cup Arriving

NearOrigin(a) == Away(OriginAt, Catalog[a].at) <= AirportRadius

\* Trains and flights from the city to an airport or one beside it.
Stops(a) == IF world.settlements = 1 THEN ToSet(StationsOf(a)) ELSE {}

TrainLegs(a) == UNION {LegsOf("city", x) : x \in Stops(a)}

LocalLegs(a) == LegsAcross(ToSet(Origins), ToSet(Near(AroundHub[a])))

FeederLegs(a) == TrainLegs(a) \cup LocalLegs(a)

\* Ways to reach an airport: a transfer, or one leg.
Feeders(a) == IF NearOrigin(a) THEN {<<>>} ELSE {<<leg>> : leg \in FeederLegs(a)}

HubOf(leg) == CHOOSE a \in Mapped(leg.from) : TRUE

DirectLegs == LegsAcross(ToSet(Origins), ToSet(Destinations))

Direct == {<<leg>> : leg \in DirectLegs}

\* Flights that start where one airport is meant.
Connecting == {leg \in Inbound : Cardinality(Mapped(leg.from)) = 1}

\* No flight from the place the next one goes to.
Onward(w, leg) == w # <<>> /\ w[1].mode = "plane" => w[1].from # leg.to

Joined == UNION {{w \o <<leg>> : w \in {v \in Feeders(HubOf(leg)) : Onward(v, leg)}} : leg \in Connecting}

\* For pairs of airports: a way to reach the first, and flights seen from there to the second on that date.
SampledOn(ps, d) ==
    UNION {UNION {{w \o path : w \in Feeders(p[1])} : path \in ToSet(PathsOf(p[1], p[2], d))} : p \in ps}

Sampled ==
    LET ps == ToSet(FlightPairs)
    IN IF limits.flights = 0 THEN {} ELSE UNION {SampledOn(ps, d) : d \in ToSet(world.dates)}

Findable == Direct \cup Joined \cup Sampled

\* The schemes a candidate stands for, one for each of its variants.
Schemes(c) ==
    IF c.variants = <<>> THEN {c.legs} ELSE {<<c.variants[i]>> \o Tail(c.legs) : i \in DOMAIN c.variants}

Kept == UNION {Schemes(candidates[i]) : i \in DOMAIN candidates}

------------------------------------------------------------------------------
(***************************************************************************)
(* Whatever was cut, failed or was answered late, every scheme kept can be *)
(* pieced together on the map, through hubs that are not ambiguous, is     *)
(* kept once, and names only dates on which its flights were seen.         *)
(***************************************************************************)
Done == agenda = <<>>

SchemesHold ==
    Done =>
    /\ Kept \subseteq Findable
    /\ \A i, j \in DOMAIN candidates : i # j => Schemes(candidates[i]) \cap Schemes(candidates[j]) = {}
    /\ \A i \in DOMAIN candidates : IsInjective(candidates[i].variants)
    /\ LET ps == ToSet(FlightPairs)
       IN \A i \in DOMAIN candidates : \A d \in candidates[i].dates : candidates[i].legs \in SampledOn(ps, d)

(***************************************************************************)
(* limit_reached means that something was cut (docs/ops/route-planner.md): *)
(* a plan without it, in which no call failed or came too late, no page    *)
(* was empty (which ends a search, and is told of apart) and every page of *)
(* arrivals was read, keeps every scheme there is, if names tell flights   *)
(* apart.                                                                  *)
(***************************************************************************)
\* One thread of a number is looked up, and one flight of a pair is joined: the others are to be the same.
NamesTell ==
    /\ \A b \in ToSet(Destinations) : \A t, u \in Threads(b) : t.number = u.number => t.legs = u.legs
    /\ \A f, g \in Inbound : f.from = g.from /\ f.to = g.to => f = g

ArrivalsRead ==
    \A b \in ToSet(Destinations) : \A i \in DOMAIN ArrivalsOf(b) :
        <<"arrivals", Iata(b), i>> \in ledger.cache

\* Nothing was cut, failed or came too late.
Clean == ~expired /\ ~ledger.limit /\ ledger.failed = 0 /\ "empty page" \notin ledger.issues

CutIsTold == Done /\ Clean /\ ArrivalsRead /\ NamesTell => Findable \subseteq Kept

==============================================================================
