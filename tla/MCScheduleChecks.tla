--------------------------- MODULE MCScheduleChecks ---------------------------
(***************************************************************************)
(* Instance of ScheduleChecks for TLC.                                     *)
(***************************************************************************)
EXTENDS ScheduleChecks

==============================================================================
