---------------------------- MODULE MCTravelWatch ----------------------------
(***************************************************************************)
(* Instance of TravelWatch for TLC.                                        *)
(***************************************************************************)
EXTENDS TravelWatch

CONSTANTS w1, w2

\* Two processes deployed with one source each, not the same.
MCMembers == [w \in Workers |-> IF w = w1 THEN {"graph"} ELSE {"gemini"}]

\* What matters here is when a source answers, not what: the most it may find.
MCOneResult == {[count |-> 50, incomplete |-> FALSE, outcome |-> ""]}

==============================================================================
