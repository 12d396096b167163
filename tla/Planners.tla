-------------------------------- MODULE Planners --------------------------------
(***************************************************************************)
(* The planners of Search, in two parts that share no state: the one that  *)
(* builds routes from what Collector answers (GraphPlanner), and those     *)
(* compared on synthetic maps (RoutePlanners). A behaviour shows one part  *)
(* and leaves the other alone.                                             *)
(***************************************************************************)
EXTENDS GraphPlanner

CONSTANTS
    Maps, Budgets, Replies, Timetables, Origin, Destination, Adults, MaxExplorationLegs,
    Boarding, Exit, Reserve, MaxConnection, MaxJourney, From, Until

ASSUME BudgetsArePositive ==
    \A b \in Budgets : \A f \in DOMAIN b : b[f] \in Nat \ {0}

VARIABLES
    part,
    map, budget, reply, timetable, stage, byGraph, byOther, difference, assembled

Compared == INSTANCE RoutePlanners WITH graph <- byGraph, other <- byOther

comparedVars == <<map, budget, reply, timetable, stage, byGraph, byOther, difference, assembled>>

Some(S) == CHOOSE x \in S : TRUE

PlannersInit ==
    /\ Init /\ Compared!Init
    /\ \/ /\ part = "building"
          /\ map = Some(Maps) /\ budget = Some(Budgets) /\ reply = Some(Replies) /\ timetable = Some(Timetables)
       \/ /\ part = "comparing"
          /\ world = Some(Worlds) /\ limits = Some(Settings)

PlannersNext ==
    /\ UNCHANGED part
    /\ \/ part = "building" /\ Next /\ UNCHANGED comparedVars
       \/ part = "comparing" /\ Compared!Next /\ UNCHANGED vars

PlannersSpec == PlannersInit /\ [][PlannersNext]_<<part, vars, comparedVars>>

(***************************************************************************)
(* The graph planner finds what the exploring one recommends: see          *)
(* RoutePlanners.                                                          *)
(***************************************************************************)
PlannersAgree == Compared!PlannersAgree

(***************************************************************************)
(* The journeys assembled are those that can be made: see RoutePlanners.   *)
(***************************************************************************)
JourneysAreThose == Compared!JourneysAreThose

==============================================================================
