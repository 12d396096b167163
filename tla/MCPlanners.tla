------------------------------ MODULE MCPlanners ------------------------------
(***************************************************************************)
(* Instance of Planners for TLC. Building: two airports at the origin, a   *)
(* hub with another airport beside it, an ambiguous code and two airports  *)
(* at the destination. Comparing: three cities and maps that differ in     *)
(* what leaves the origin, reaches the destination and turns back.         *)
(***************************************************************************)
EXTENDS Planners, TLC

A(iata, size, at, town) == [iata |-> iata, size |-> size, scheduled |-> TRUE, at |-> at, town |-> town]

MCCatalog ==
    <<A("ORG", "large", 0, "o"), A("OR2", "medium", 2, "o"), A("HUB", "large", 20, "h"),
      A("ALT", "medium", 22, "h"), A("AMB", "large", 25, "x"), A("AMB", "large", 26, "x"),
      A("FAR", "large", 28, "f"), A("DST", "large", 60, "d"), A("DS2", "medium", 62, "d")>>

Plane(from, to) == [mode |-> "plane", from |-> from, to |-> to, by |-> "yandex"]

Train(from, to) == [mode |-> "train", from |-> from, to |-> to, by |-> "yandex"]

Path(codes) ==
    [i \in 1..(Len(codes) - 1) |-> [mode |-> "plane", from |-> codes[i], to |-> codes[i + 1], by |-> "google"]]

NoStations == [x \in {MCCatalog[i].iata : i \in DOMAIN MCCatalog} |-> <<>>]

Network ==
    [settlements |-> 1, dates |-> <<1, 2>>,
     legs |-> (<<"HUB", "DST">> :> <<{Plane("HUB", "DST")}, {}>>) @@ (<<"ORG", "ALT">> :> <<{Plane("ORG", "ALT")}>>)
              @@ (<<"city", "st1">> :> <<{Train("k1", "st1")}, {Train("k2", "st1")}>>)
              @@ (<<"city", "st2">> :> <<{Train("k1", "st2")}>>),
     arrivals |-> [x \in {"DST", "DS2"} |->
                      IF x = "DST"
                      THEN <<<<[number |-> "n1", legs |-> {Plane("ALT", "DST")}],
                               [number |-> "n1", legs |-> {Plane("ALT", "DST")}]>>,
                             <<[number |-> "n2", legs |-> {Plane("AMB", "DST"), Plane("DST", "AMB")}]>>>>
                      ELSE <<<<>>>>],
     stations |-> [NoStations EXCEPT !["HUB"] = <<"st1", "st2">>, !["AMB"] = <<"st2">>],
     paths |-> (<<"ORG", "DST", 1>> :> <<Path(<<"ORG", "HUB", "DST">>)>>)
               @@ (<<"HUB", "DST", 1>> :> <<Path(<<"HUB", "DST">>)>>)
               @@ (<<"HUB", "DST", 2>> :> <<Path(<<"HUB", "DST">>), Path(<<"HUB", "FAR", "DST">>),
                                        Path(<<"HUB", "ALT", "FAR", "DST">>)>>)]

\* No settlement, no date left, an empty page before the last and more threads than a small budget.
Sparse ==
    [Network EXCEPT
        !.settlements = 2, !.dates = <<>>,
        !.legs = (<<"ORG", "DST">> :> <<{Plane("ORG", "DST")}, {Plane("ORG", "DST")}>>)
                 @@ (<<"ORG", "DS2">> :> <<{Plane("ORG", "DS2")}>>)
                 @@ (<<"OR2", "DS2">> :> <<{}, {Plane("OR2", "DS2")}>>) @@ (<<"ORG", "HUB">> :> <<{Plane("ORG", "HUB")}>>),
        !.arrivals["DS2"] = <<<<[number |-> "n3", legs |-> {Plane("HUB", "DS2")}],
                                [number |-> "n4", legs |-> {Plane("ORG", "DS2")}],
                                [number |-> "n5", legs |-> {Plane("FAR", "DS2")}],
                                [number |-> "n6", legs |-> {Plane("OR2", "DS2")}]>>>>,
        !.paths = [p \in {} |-> <<>>]]

MCWorlds == {Network, Sparse}

Wide == [airports |-> 2, hubs |-> 3, pages |-> 2, requests |-> 60, candidates |-> 12, variants |-> 4, flights |-> 20]

MCSettings ==
    {Wide, [Wide EXCEPT !.requests = 9, !.flights = 3], [Wide EXCEPT !.candidates = 1, !.variants = 1],
     [Wide EXCEPT !.hubs = 1, !.pages = 1, !.requests = 12], [Wide EXCEPT !.airports = 1, !.flights = 0]}

\* The cities 1, 2 and 3; airports 4 to 7 and stations 8 to 11 in them.
Node(town, kind) == [city |-> town, kind |-> kind]
Places ==
    <<Node(1, "city"), Node(2, "city"), Node(3, "city"),
      Node(1, "airport"), Node(2, "airport"), Node(3, "airport"), Node(3, "airport"),
      Node(1, "station"), Node(3, "station"), Node(2, "station"), Node(3, "station")>>

Link(from, to, mode) == [from |-> from, to |-> to, mode |-> mode]
T(from, to) == Link(from, to, "transfer")
F(from, to) == Link(from, to, "flight")
R(from, to) == Link(from, to, "train")

Base == <<T(1, 4), F(4, 6), F(6, 5), T(5, 2), T(6, 7), F(7, 5), T(1, 8), R(8, 9), T(9, 6), F(6, 5)>>
Map(links) == [nodes |-> Places, links |-> links, complete |-> TRUE]
Direct1 == <<F(4, 5)>>
BackHome == <<T(1, 6), F(6, 4), F(4, 5)>>
Beyond == <<R(8, 10), T(10, 5), F(5, 6), T(6, 2)>>

MCMaps ==
    {Map(Base), Map(Base \o Direct1), Map(Base \o BackHome), Map(Base \o Beyond), Map(Base \o BackHome \o Beyond),
     Map(Base \o <<R(9, 11)>>), Map(SubSeq(Base, 2, 6)), Map(<<T(1, 8), R(8, 10), T(10, 2)>>),
     [Map(Base) EXCEPT !.complete = FALSE]}

Ample == [nodes |-> 20, links |-> 20, steps |-> 100, candidates |-> 9, combinations |-> 60, journeys |-> 9]
MCBudgets ==
    {Ample, [Ample EXCEPT !.steps = 7], [Ample EXCEPT !.candidates = 2], [Ample EXCEPT !.links = 9],
     [Ample EXCEPT !.combinations = 5], [Ample EXCEPT !.journeys = 1]}

Says(paths) == [answered |-> TRUE, paths |-> paths]
MCReplies ==
    {Says(<<>>), Says(<<<<6, 7, 8, 2, 3>>>>), Says(<<<<0, 1, 2, 3>>, <<0, 1, 2, 3>>, <<0, 1, 4, 5, 3>>>>), Says(<<<<0, 1, 2, 3>>, <<0, 2, 3>>>>),
     Says(<<<<0, 10, 3>>>>), Says(<<<<6, 7, 8, 2, 3>>, <<0, 12, 2, 3>>>>), [Says(<<>>) EXCEPT !.answered = FALSE]}

Offer(link, dep, arr) == [link |-> link, dep |-> dep, arr |-> arr, adults |-> 1]
Times(offers, transfers) == [offers |-> offers, transfers |-> transfers, complete |-> TRUE]
Rides == (T(1, 4) :> 1) @@ (T(5, 2) :> 1) @@ (T(1, 8) :> 1) @@ (T(9, 6) :> 2) @@ (T(6, 7) :> 1)
Flights ==
    <<Offer(F(4, 6), 4, 6), Offer(F(4, 6), 8, 10), Offer(R(8, 9), 3, 5), Offer(F(6, 5), 10, 12),
      Offer(F(6, 5), 11, 13), [Offer(F(6, 5), 9, 11) EXCEPT !.adults = 2], Offer(F(7, 5), 12, 15), Offer(F(6, 5), 18, 20)>>
MCTimetables ==
    {Times(Flights, Rides), Times(Flights, [l \in {T(1, 4), T(5, 2), T(6, 7)} |-> Rides[l]]),
     Times(Flights \o <<Offer(F(6, 5), 9, 9)>>, Rides)}

MCBoarding == [flight |-> 2, train |-> 1]
MCExit == [flight |-> 1, train |-> 1]

==============================================================================
