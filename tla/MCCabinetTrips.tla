---------------------------- MODULE MCCabinetTrips ----------------------------
(***************************************************************************)
(* Instance of CabinetTrips for TLC.                                       *)
(***************************************************************************)
EXTENDS CabinetTrips

\* A trip queued, built by one source in a second attempt, and ready.
MCFeed == [q \in Requests |->
    <<[planner |-> "all", stage |-> "queued"],
      [planner |-> "all", stage |-> "building"],
      [planner |-> "graph", stage |-> "awaiting_schedules"],
      [planner |-> "all", stage |-> "awaiting_schedules"]>>]

==============================================================================
