---------------------------- MODULE MCCheckLimits ----------------------------
(***************************************************************************)
(* Instances of CheckLimits for TLC.                                       *)
(*                                                                         *)
(* Search: a transfer to the station, a train, a transfer to the airport,  *)
(* a flight, a train and a transfer to the end, on days of eight units.    *)
(*                                                                         *)
(* Report: two trains and two flights, among them a train whose stations   *)
(* are a day behind, and saved graphs with two feeders, a group that comes *)
(* back, a section that cannot be asked for, nodes that do not meet, and   *)
(* days already past.                                                      *)
(***************************************************************************)
EXTENDS CheckLimits

MCSteps == <<"transfer", "train", "transfer", "plane", "train", "transfer">>
MCTransfers == <<1, 0, 1, 0, 0, 1>>
MCBefore == [train |-> 0, plane |-> 1]
MCAfter == [train |-> 0, plane |-> 1]

D(dep, arr) == [dep |-> dep, arr |-> arr]

Pool ==
    <<{D(1, 2), D(3, 4), D(9, 10)}, {D(5, 6), D(7, 8), D(13, 14)},
      {D(10, 11), D(12, 13), D(17, 18)}>>

\* Any of these departures may run, or not.
Drawn(k) == {SetToSortSeq(S, LAMBDA a, b : a.dep < b.dep) : S \in SUBSET Pool[k]}

MCTimetables ==
    {t \in [DOMAIN Pool -> UNION {Drawn(k) : k \in DOMAIN Pool}] :
        \A k \in DOMAIN Pool : t[k] \in Drawn(k)}

------------------------------------------------------------------------------
Scheme(legs, access, group, meets) == [legs |-> legs, access |-> access, group |-> group, meets |-> meets]

Graph(candidates) == [complete |-> TRUE, from |-> 5, to |-> 6, today |-> 5, candidates |-> candidates]

Feeders == Scheme(<<"t1", "f1">>, <<"t1", "t2">>, "g", "yes")

MCInputs ==
    {Graph(<<Feeders, Scheme(<<"f2">>, <<>>, "", "yes")>>),
     Graph(<<Scheme(<<"t1", "f1">>, <<>>, "g", "yes"), Scheme(<<"f2">>, <<>>, "", "yes"),
             Scheme(<<"t2", "f1">>, <<>>, "g", "yes")>>),
     Graph(<<Scheme(<<"bus", "f1">>, <<>>, "", "labels"), Scheme(<<"t2", "f1">>, <<>>, "", "codes"),
             Scheme(<<>>, <<>>, "", "yes"), Scheme(<<"t1", "t2", "f1">>, <<>>, "", "yes")>>),
     [Graph(<<Scheme(<<"t2", "f1">>, <<>>, "", "yes")>>) EXCEPT !.from = 3, !.complete = FALSE],
     [Graph(<<Feeders>>) EXCEPT !.today = 7],
     Graph(<<>>),
     Graph(<<Scheme(<<"t1", "f1">>, <<"t1", "t2", "t1">>, "g", "yes")>>)}

World(t1, t2, f1, f2) ==
    [departures |-> [t1 |-> t1, t2 |-> t2, f1 |-> f1, f2 |-> f2, bus |-> {5}],
     shift |-> [t1 |-> 0, t2 |-> 1, f1 |-> 1, f2 |-> -1, bus |-> 0]]

MCWorlds == {World({5}, {6}, {7}, {5, 6}), World({6}, {4}, {5, 8}, {})}

MCSupported == {"t1", "t2", "f1", "f2"}

Wide == [dates |-> 3, requests |-> 40, journeys |-> 4, rows |-> 9, size |-> 9]

MCSettings ==
    {Wide, [Wide EXCEPT !.dates = 1], [Wide EXCEPT !.requests = 8], [Wide EXCEPT !.journeys = 1],
     [Wide EXCEPT !.rows = 1], [Wide EXCEPT !.size = 1]}
==============================================================================
