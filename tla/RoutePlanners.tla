----------------------------- MODULE RoutePlanners -----------------------------
(***************************************************************************)
(* The planners of Search that are compared on synthetic maps: the graph   *)
(* planner walks a few patterns backwards from the destination, under      *)
(* budgets; the other one answers with places of links; both answers are   *)
(* validated alike, and what they allow is assembled into journeys from    *)
(* one timetable. The exploring planner walks forward and knows no         *)
(* patterns. Each planner and each assembly has a deadline of its own.     *)
(***************************************************************************)
EXTENDS Integers, Sequences, FiniteSets, SequencesExt

CONSTANTS
    Maps,           \* [nodes, links, complete]; nodes: id -> [city, kind], a link is [from, to, mode]
    Budgets,        \* [nodes, links, steps, candidates, combinations, journeys]
    Replies,        \* of the other planner: [answered, paths]
    Timetables,     \* [offers, transfers, complete]; transfers: link -> minutes, of those known
    Origin, Destination, Adults,
    MaxExplorationLegs,
    Boarding, Exit,         \* time at a station or an airport, per mode
    Reserve, MaxConnection, MaxJourney,
    From, Until             \* when the journey may start, Until excluded

VARIABLES
    map, budget, reply, timetable,  \* those of this case
    stage,          \* where the case is
    graph, other,   \* what the planners answered
    difference,     \* what they have in common and what not
    assembled       \* the journeys of each

vars == <<map, budget, reply, timetable, stage, graph, other, difference, assembled>>

Planners == {"graph", "other"}
Failure == [failed |-> TRUE, found |-> <<>>, limit |-> FALSE, missing |-> FALSE, whole |-> FALSE]
Nothing == [Failure EXCEPT !.failed = FALSE, !.whole = TRUE]
NoDifference == [compared |-> FALSE, common |-> {}, onlyGraph |-> {}, onlyOther |-> {}]

Init ==
    /\ map \in Maps /\ budget \in Budgets /\ reply \in Replies /\ timetable \in Timetables
    /\ stage = "load"
    /\ graph = Failure /\ other = Failure
    /\ difference = NoDifference
    /\ assembled = [p \in Planners |-> Failure]

------------------------------------------------------------------------------
(* The map *)
Kind(n) == IF n \in DOMAIN map.nodes THEN map.nodes[n].kind ELSE "none"
City(n) == map.nodes[n].city

Connects(l, localTrains) ==
    /\ {l.from, l.to} \subseteq DOMAIN map.nodes /\ l.from # l.to
    /\ \/ l.mode = "flight" /\ Kind(l.from) = "airport" /\ Kind(l.to) = "airport" /\ City(l.from) # City(l.to)
       \/ l.mode = "train" /\ Kind(l.from) = "station" /\ Kind(l.to) = "station"
                           /\ (localTrains \/ City(l.from) # City(l.to))
       \/ l.mode = "transfer" /\ \/ Kind(l.from) = "city" /\ Kind(l.to) # "city"
                                 \/ Kind(l.from) # "city" /\ Kind(l.to) = "city"
                                 \/ Kind(l.from) # "city" /\ Kind(l.to) = "airport" /\ City(l.from) = City(l.to)

Prepared(localTrains) ==
    /\ Cardinality(DOMAIN map.nodes) <= budget.nodes /\ Len(map.links) <= budget.links
    /\ \A i \in DOMAIN map.links : Connects(map.links[i], localTrains)

Rank == [flight |-> 1, train |-> 2, transfer |-> 3]
Earlier(a, b) ==
    \/ Rank[a.mode] < Rank[b.mode]
    \/ a.mode = b.mode /\ a.to < b.to
    \/ a.mode = b.mode /\ a.to = b.to /\ a.from < b.from

Once(s) == FoldLeft(LAMBDA kept, x : IF x \in Range(kept) THEN kept ELSE Append(kept, x), <<>>, s)

\* Sorted, each once.
Links == SortSeq(Once(map.links), Earlier)

\* Some way leaves the origin, and some way reaches the destination from an airport.
Mapped ==
    /\ Kind(Origin) = "city" /\ Kind(Destination) = "city"
    /\ \E l \in Range(map.links) : l.mode = "transfer" /\ l.from = Origin
    /\ \E l \in Range(map.links) : l.mode = "transfer" /\ l.to = Destination /\ Kind(l.from) = "airport"

------------------------------------------------------------------------------
(* What a route may be *)
Patterns ==
    <<<<"transfer", "flight", "transfer">>,
      <<"transfer", "train", "transfer", "flight", "transfer">>,
      <<"transfer", "flight", "flight", "transfer">>,
      <<"transfer", "flight", "transfer", "flight", "transfer">>>>

Modes(legs) == [i \in DOMAIN legs |-> legs[i].mode]

\* A connecting hub lies in neither of the two cities.
ValidShape(legs) ==
    /\ Modes(legs) \in Range(Patterns)
    /\ Len(legs) > 3 => City(legs[2].to) \notin {Origin, Destination}

Local(l) == l.mode = "train" /\ City(l.to) \in {Origin, Destination}

Joined(legs) ==
    /\ legs[1].from = Origin /\ legs[Len(legs)].to = Destination
    /\ \A i \in DOMAIN legs :
         /\ legs[i] \in Range(map.links) /\ legs[i].to # Origin
         /\ \A j \in 1..(i - 1) : legs[j].to # legs[i].to
         /\ i > 1 => legs[i - 1].to = legs[i].from

Sound(legs) == ValidShape(legs) /\ Joined(legs) /\ \A i \in DOMAIN legs : ~Local(legs[i])

\* One candidate that is not sound refuses them all; no planner says more than the map.
Validated(r) ==
    IF r.failed \/ Len(r.found) > budget.candidates \/ \E i \in DOMAIN r.found : ~Sound(r.found[i]) THEN Failure
    ELSE [r EXCEPT !.found = Once(@), !.whole = @ /\ map.complete, !.missing = @ \/ ~Mapped]

------------------------------------------------------------------------------
(* The graph planner *)
Walk == [steps |-> 0, found |-> <<>>, limit |-> FALSE, missing |-> FALSE]

\* Mutant of Keep: the candidate beyond the limit is dropped and nobody is told.
KeepUntold(w, legs, b) == IF Len(w.found) < b.candidates THEN [w EXCEPT !.found = Append(@, legs)] ELSE w

Keep(w, legs, b) ==
    IF Len(w.found) < b.candidates THEN [w EXCEPT !.found = Append(@, legs)] ELSE [w EXCEPT !.limit = TRUE]

Arriving(to, mode) == SelectSeq(Links, LAMBDA l : l.to = to /\ l.mode = mode)

RECURSIVE Back(_, _, _, _)
Back(w, to, pattern, path) ==
    LET seen == {Destination} \cup {path[i].from : i \in DOMAIN path}
        Take(v, l) ==
            CASE v.limit -> v
              [] ~v.limit /\ v.steps = budget.steps -> [v EXCEPT !.limit = TRUE]
              [] ~v.limit /\ v.steps # budget.steps /\ (l.from \in seen \/ Local(l)) -> [v EXCEPT !.steps = @ + 1]
              [] OTHER -> Back([v EXCEPT !.steps = @ + 1], l.from, Front(pattern), <<l>> \o path)
    IN CASE pattern # <<>> -> FoldLeft(Take, w, Arriving(to, Last(pattern)))
         [] pattern = <<>> /\ to = Origin /\ ValidShape(path) -> Keep(w, path, budget)
         [] OTHER -> w

GraphPlan ==
    LET w == FoldLeft(LAMBDA v, p : Back(v, Destination, p, <<>>), Walk, Patterns)
    IN IF ~Mapped THEN [Nothing EXCEPT !.missing = TRUE]
       ELSE [Nothing EXCEPT !.found = w.found, !.limit = w.limit]

------------------------------------------------------------------------------
(* The exploring planner *)
Full(w, b) == w.limit /\ (w.steps >= b.steps \/ Len(w.found) >= b.candidates)
Leaving(from) == SelectSeq(Links, LAMBDA l : l.from = from)

RECURSIVE Forth(_, _, _, _)
Forth(w, at, path, b) ==
    LET seen == {Origin} \cup {path[i].to : i \in DOMAIN path}
        v == [w EXCEPT !.steps = @ + 1]
        Take(u, l) ==
            IF Full(u, b) \/ l.to \in seen \/ (Kind(l.to) = "city" /\ l.to # Destination) THEN u
            ELSE Forth(u, l.to, Append(path, l), b)
    IN CASE w.steps >= b.steps -> [w EXCEPT !.limit = TRUE]
         [] w.steps < b.steps /\ at = Destination -> IF Len(path) < 3 THEN v ELSE Keep(v, path, b)
         [] w.steps < b.steps /\ at # Destination /\ Len(path) >= MaxExplorationLegs ->
              [v EXCEPT !.limit = @ \/ Leaving(at) # <<>>]
         [] OTHER -> FoldLeft(Take, v, Leaving(at))

\* Why a path is not recommended.
Warnings(legs) ==
    LET main == {i \in DOMAIN legs : legs[i].mode # "transfer"}
        long == Cardinality(main) > 2
        train == \E i \in DOMAIN legs :
                    legs[i].mode = "train" /\ (City(legs[i].from) = City(legs[i].to) \/ Local(legs[i]))
    IN (IF long THEN {"long"} ELSE {}) \cup (IF train THEN {"local train"} ELSE {})
       \cup (IF ~long /\ ~train /\ ~ValidShape(legs) THEN {"shape"} ELSE {})

Explored(b) == Forth(Walk, Origin, <<>>, b)

------------------------------------------------------------------------------
(* The other planner, which answers with the places of links, from 0 *)
Followed(path) == [k \in DOMAIN path |-> map.links[path[k] + 1]]
OtherPlan ==
    IF ~reply.answered \/ Len(reply.paths) > budget.candidates
       \/ \E i \in DOMAIN reply.paths :
            \/ Len(reply.paths[i]) \notin 3..5
            \/ Range(reply.paths[i]) \cap 0..(Len(map.links) - 1) # Range(reply.paths[i])
    THEN Failure
    ELSE [Nothing EXCEPT !.found = [i \in DOMAIN reply.paths |-> Followed(reply.paths[i])], !.whole = FALSE]

------------------------------------------------------------------------------
(* Journeys *)
ValidTimetable ==
    /\ \A i \in DOMAIN timetable.offers :
         LET o == timetable.offers[i]
         IN o.link \in Range(map.links) /\ o.link.mode # "transfer" /\ o.dep < o.arr
    /\ DOMAIN timetable.transfers \subseteq {l \in Range(map.links) : l.mode = "transfer"}

Known(legs) == \A i \in DOMAIN legs : legs[i].mode = "transfer" => legs[i] \in DOMAIN timetable.transfers
Offers(link) ==
    SelectSeq(SortSeq(timetable.offers, LAMBDA a, b : a.dep < b.dep), LAMBDA o : o.link = link /\ o.adults = Adults)
Minutes(l) == timetable.transfers[l]

\* Mutant of Ready: nothing is kept in reserve for a delay.
ReadyAtOnce(clock, l) == clock + Boarding[l.mode]

Ready(clock, l) == clock + Reserve + Boarding[l.mode]

\* The offers one after the other, with the transfers between them.
Combined(legs, chosen) ==
    LET start == chosen[1].dep - Boarding[chosen[1].link.mode] - Minutes(legs[1])
        Go(c, l) ==
            LET o == chosen[c.n + 1] IN
            CASE l.mode = "transfer" -> [c EXCEPT !.clock = @ + Minutes(l)]
              [] l.mode # "transfer" /\ c.n > 0 /\ (o.dep - chosen[c.n].arr > MaxConnection \/ o.dep < Ready(c.clock, l))
                   -> [c EXCEPT !.fits = FALSE, !.n = @ + 1]
              [] OTHER -> [c EXCEPT !.clock = o.arr + Exit[l.mode], !.n = @ + 1]
        end == FoldLeft(Go, [clock |-> start, n |-> 0, fits |-> TRUE], legs)
    IN [legs |-> legs, offers |-> chosen, start |-> start, end |-> end.clock, fits |-> end.fits]

Feasible(j) == j.fits /\ j.start >= From /\ j.start < Until /\ j.end - j.start <= MaxJourney

RECURSIVE Visit(_, _, _, _)
Visit(w, legs, index, chosen) ==
    LET Take(v, o) ==
            CASE v.limit -> v
              [] ~v.limit /\ v.steps = budget.combinations -> [v EXCEPT !.limit = TRUE]
              [] OTHER -> Visit([v EXCEPT !.steps = @ + 1], legs, index + 1, Append(chosen, o))
    IN CASE index > Len(legs) ->
              LET j == Combined(legs, chosen) IN
              IF ~Feasible(j) THEN w
              ELSE IF Len(w.found) = budget.journeys THEN [w EXCEPT !.limit = TRUE]
              ELSE [w EXCEPT !.found = Append(@, j)]
         [] index <= Len(legs) /\ legs[index].mode = "transfer" -> Visit(w, legs, index + 1, chosen)
         [] OTHER -> FoldLeft(Take, w, Offers(legs[index]))

Assemble(attempt) ==
    LET r == Validated(attempt)
        Add(w, legs) ==
            CASE w.limit -> w
              [] ~w.limit /\ ~Known(legs) -> [w EXCEPT !.missing = TRUE]
              [] OTHER -> Visit(w, legs, 1, <<>>)
        w == FoldLeft(Add, Walk, r.found)
    IN IF ~ValidTimetable \/ r.failed THEN Failure
       ELSE [failed |-> FALSE, found |-> w.found, limit |-> w.limit, missing |-> w.missing,
             whole |-> timetable.complete /\ r.whole /\ ~r.missing /\ ~r.limit]

------------------------------------------------------------------------------
(* One case after the other; a deadline fails what it meets *)
Fixed == UNCHANGED <<map, budget, reply, timetable>>

Load ==
    /\ stage = "load"
    /\ stage' = IF Prepared(FALSE) THEN "graph" ELSE "refused"
    /\ Fixed /\ UNCHANGED <<graph, other, difference, assembled>>

RunGraph ==
    /\ stage = "graph" /\ stage' = "other"
    /\ graph' \in {Validated(GraphPlan), Failure}
    /\ Fixed /\ UNCHANGED <<other, difference, assembled>>

RunOther ==
    /\ stage = "other" /\ stage' = "compare"
    /\ other' \in {Validated(OtherPlan), Failure}
    /\ Fixed /\ UNCHANGED <<graph, difference, assembled>>

\* A failure is not an empty result.
Compare ==
    /\ stage = "compare" /\ stage' = "assemble"
    /\ difference' = IF graph.failed \/ other.failed THEN NoDifference
                     ELSE [compared |-> TRUE, common |-> Range(graph.found) \cap Range(other.found),
                           onlyGraph |-> Range(graph.found) \ Range(other.found),
                           onlyOther |-> Range(other.found) \ Range(graph.found)]
    /\ Fixed /\ UNCHANGED <<graph, other, assembled>>

AssembleBoth ==
    /\ stage = "assemble" /\ stage' = "reported"
    /\ \E late \in SUBSET Planners :
         assembled' = [p \in Planners |->
            LET attempt == IF p = "graph" THEN graph ELSE other
            IN IF attempt.failed \/ p \in late THEN Failure ELSE Assemble(attempt)]
    /\ Fixed /\ UNCHANGED <<graph, other, difference>>

Stop ==
    /\ stage \notin {"reported", "refused", "stopped"} /\ stage' = "stopped"
    /\ Fixed /\ UNCHANGED <<graph, other, difference, assembled>>

Next == Load \/ RunGraph \/ RunOther \/ Compare \/ AssembleBoth \/ Stop

Spec == Init /\ [][Next]_vars

------------------------------------------------------------------------------
Unbounded == [budget EXCEPT !.steps = 1000, !.candidates = 100]

\* The recommended paths, found the other way round and without limits.
Recommended == {legs \in Range(Explored(Unbounded).found) : Warnings(legs) = {}}

(***************************************************************************)
(* The graph planner finds the routes that the exploring one recommends:   *)
(* each of them once, and, when it reports no limit, all of them; so what  *)
(* only the other planner found is there because the graph planner says    *)
(* that it missed something ("Compared is false if either attempt failed", *)
(* planner.go:144).                                                        *)
(***************************************************************************)
PlannersAgree ==
    /\ stage = "other" /\ ~graph.failed =>
         /\ Cardinality(Range(graph.found)) = Len(graph.found)
         /\ Range(graph.found) \subseteq Recommended
         /\ graph.limit \/ Recommended \subseteq Range(graph.found)
    /\ difference.onlyOther # {} => graph.limit

\* What a traveller checks of a journey at a change, in minutes of the clock.
Between(legs, i, k) ==
    FoldLeft(LAMBDA sum, l : sum + Minutes(l), 0, SubSeq(legs, i + 1, k - 1))

CanBeMade(legs, offer) ==
    LET main == {i \in DOMAIN legs : legs[i].mode # "transfer"}
        first == CHOOSE i \in main : \A k \in main : i <= k
        final == CHOOSE i \in main : \A k \in main : i >= k
        start == offer[first].dep - Boarding[legs[first].mode] - Between(legs, 0, first)
        end == offer[final].arr + Exit[legs[final].mode] + Between(legs, final, Len(legs) + 1)
    IN  /\ \A i, k \in main : i < k /\ main \cap (i + 1)..(k - 1) = {} =>
             LET gap == offer[k].dep - offer[i].arr IN
             gap <= MaxConnection
             /\ gap >= Exit[legs[i].mode] + Between(legs, i, k) + Reserve + Boarding[legs[k].mode]
        /\ start >= From /\ start < Until /\ end - start <= MaxJourney

(***************************************************************************)
(* Every journey assembled can be made, with the time for each change and  *)
(* the reserve for a delay, and starts on a day asked for; an assembly     *)
(* that reports no limit and no missing time has every journey of every    *)
(* candidate (Assemble, combine).                                          *)
(***************************************************************************)
JourneysAreThose ==
    stage = "reported" => \A p \in Planners : ~assembled[p].failed =>
        LET a == assembled[p]
            legsOf == Range(IF p = "graph" THEN graph.found ELSE other.found)
            Main(legs) == {i \in DOMAIN legs : legs[i].mode # "transfer"}
            all == UNION {{<<legs, offer>> : offer \in {f \in [Main(legs) -> Range(timetable.offers)] :
                              /\ \A i \in Main(legs) : f[i].link = legs[i] /\ f[i].adults = Adults
                              /\ CanBeMade(legs, f)}} : legs \in {x \in legsOf : Known(x)}}
            Read(j) == LET at == SetToSortSeq(Main(j.legs), <)
                       IN <<j.legs, [i \in Main(j.legs) |-> j.offers[CHOOSE n \in DOMAIN at : at[n] = i]]>>
            found == {Read(a.found[i]) : i \in DOMAIN a.found}
        IN /\ found \subseteq all /\ Cardinality(found) = Len(a.found)
           /\ a.limit \/ all \subseteq found

==============================================================================
