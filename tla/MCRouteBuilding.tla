--------------------------- MODULE MCRouteBuilding ---------------------------
(***************************************************************************)
(* Instance of RouteBuilding for TLC.                                      *)
(***************************************************************************)
EXTENDS RouteBuilding, TLC

CONSTANTS w1, w2

\* Two processes deployed with different sources: graph only, and both.
MCMembers == [w \in Workers |-> IF w = w1 THEN {"graph"} ELSE Sources]

\* Both ends of the range of counts, and a failure with and without routes.
MCResults ==
    {[count |-> 50, incomplete |-> FALSE, outcome |-> ""],
     [count |-> 0,  incomplete |-> TRUE,  outcome |-> ""],
     [count |-> 0,  incomplete |-> TRUE,  outcome |-> "error"],
     [count |-> 50, incomplete |-> TRUE,  outcome |-> "error"]}

==============================================================================
