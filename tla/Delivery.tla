------------------------------ MODULE Delivery ------------------------------
(***************************************************************************)
(* The ways between the processes: the outbox of Cabinet with its relays   *)
(* (OutboxRelay), the progress events of Search with their consumers       *)
(* (ProgressDelivery), and the pipes from Search to Collector (Collector). *)
(* They have no process, table or topic in common, so a behaviour shows    *)
(* one of them and leaves the others alone.                                *)
(***************************************************************************)
EXTENDS OutboxRelay

CONSTANTS Rows, Publishers, Consumers, Nobody, MaxExtra, MaxFaults, Calls, Worlds, MaxFrame

ASSUME RowsAreNumbered == Rows = 1..Cardinality(Rows)
ASSUME NobodyAssumption == Nobody \notin Publishers \cup Consumers

VARIABLES
    way,
    outbox, publisher, late, topic, committed, owner, consumer, applied, shown, faults,
    world, results, client, deaf, ended, input, output, collector, request, signalled, bridge

Progress == INSTANCE ProgressDelivery

Pipe == INSTANCE Collector WITH owner <- client

progress == <<outbox, publisher, late, topic, committed, owner, consumer, applied, shown, faults>>
piping == <<world, results, client, deaf, ended, input, output, collector, request, signalled, bridge>>
ways == <<way, vars, progress, piping>>

WaysInit ==
    /\ way \in {"trips", "progress", "calls"}
    /\ Init /\ Progress!Init /\ Pipe!Init
    /\ way # "calls" => world = CHOOSE w \in Worlds : TRUE

WaysNext ==
    /\ UNCHANGED way
    /\ \/ way = "trips" /\ Next /\ UNCHANGED <<progress, piping>>
       \/ way = "progress" /\ Progress!Next /\ UNCHANGED <<vars, piping>>
       \/ way = "calls" /\ Pipe!Next /\ UNCHANGED <<vars, progress>>

\* Nothing is ever enabled of a relay or consumer left alone, so its fairness asks for nothing.
WaysSpec ==
    /\ WaysInit /\ [][WaysNext]_ways
    /\ Fairness /\ Progress!Fairness
    /\ WF_piping(way = "calls" /\ Pipe!Owns) /\ WF_piping(way = "calls" /\ Pipe!Kill)
    /\ WF_piping(way = "calls" /\ Pipe!Works) /\ WF_piping(way = "calls" /\ Pipe!OrphanEnds)

(***************************************************************************)
(* No message is skipped: whatever stops, fails to commit or loses the     *)
(* partition, every message up to the committed offset has been applied.   *)
(***************************************************************************)
CommittedIsApplied == Progress!CommittedIsApplied

(***************************************************************************)
(* On both ways a row is marked published only once its message is in the  *)
(* topic, also by a relay or publisher whose write failed, was abandoned   *)
(* and may still land, or whose lease another has taken over.              *)
(***************************************************************************)
MarkedIsInTopic == PublishedIsInTopic /\ Progress!MarkedIsInTopic

(***************************************************************************)
(* Every progress event comes to be shown, or a later one is: rows whose   *)
(* lease has passed are published again, and messages read again.          *)
(***************************************************************************)
ProgressArrives == Progress!ProgressArrives

(***************************************************************************)
(* The frames carry no name of the request they answer. Whatever was       *)
(* killed, cut, signalled or failed, an answer taken is that of the call   *)
(* in hand, and shows all there is unless it says that it is incomplete.   *)
(***************************************************************************)
AnswersAreTrue == Pipe!AnswersAreTrue

(***************************************************************************)
(* The owner never waits for good: every call returns, also when Collector *)
(* is killed, stops reading or is told to end by a signal.                 *)
(***************************************************************************)
CallsReturn == Pipe!CallsReturn

(***************************************************************************)
(* An owner whose deadline has passed or whose work is done leaves neither *)
(* a Collector nor a bridge behind, and no orphan asks Google again.       *)
(***************************************************************************)
NothingLeftRunning == Pipe!NothingLeftRunning

=============================================================================
