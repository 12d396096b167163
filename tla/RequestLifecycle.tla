-------------------------- MODULE RequestLifecycle --------------------------
(***************************************************************************)
(* What Search promises about the building of a request, without inbox,    *)
(* leases, attempts, processes or events: which sources were asked, what   *)
(* each of them found, and the stage that follows from it. Cancellation is *)
(* final, expiry only keeps new results out, and a found result is never   *)
(* taken back.                                                             *)
(***************************************************************************)
EXTENDS Naturals

CONSTANTS Requests, Sources

VARIABLES
    status,   \* absent, pending, expired or cancelled
    stage,    \* absent, queued, building, cancelled, or how the building ended
    asked,    \* the sources of the request, chosen once
    found     \* how many routes each source found: empty before it answers

vars == <<status, stage, asked, found>>

Init ==
    /\ status = [q \in Requests |-> "absent"]
    /\ stage = [q \in Requests |-> "absent"]
    /\ asked = [q \in Requests |-> {}]
    /\ found = [q \in Requests |-> [s \in Sources |-> {}]]

Waiting(f, q) == {s \in asked[q] : f[s] = {}}

\* How a building may end once every source asked has answered.
Verdicts(f, q) ==
    IF \E s \in asked[q] : f[s] # {0} THEN {"awaiting_schedules"} ELSE {"no_routes", "failed"}

Create(q) ==
    /\ status[q] = "absent"
    /\ status' = [status EXCEPT ![q] = "pending"]
    /\ stage' = [stage EXCEPT ![q] = "queued"]
    /\ UNCHANGED <<asked, found>>

Build(q) ==
    /\ status[q] # "cancelled"
    /\ stage[q] = "queued"
    /\ stage' = [stage EXCEPT ![q] = "building"]
    /\ \E S \in (SUBSET Sources) \ {{}} : asked' = [asked EXCEPT ![q] = S]
    /\ UNCHANGED <<status, found>>

\* One source answers while the request is still wanted.
Report(q) ==
    /\ status[q] = "pending"
    /\ stage[q] = "building"
    /\ \E s \in Waiting(found[q], q), n \in 0..50 :
          LET f == [found[q] EXCEPT ![s] = {n}] IN
          /\ found' = [found EXCEPT ![q] = f]
          /\ IF Waiting(f, q) # {} THEN UNCHANGED stage
             ELSE \E v \in Verdicts(f, q) : stage' = [stage EXCEPT ![q] = v]
    /\ UNCHANGED <<status, asked>>

\* The sources that have not answered are given up as having found nothing.
GiveUp(q) ==
    /\ status[q] # "cancelled"
    /\ stage[q] = "building"
    /\ LET f == [s \in Sources |-> IF s \in Waiting(found[q], q) THEN {0} ELSE found[q][s]] IN
       /\ found' = [found EXCEPT ![q] = f]
       /\ \E v \in Verdicts(f, q) : stage' = [stage EXCEPT ![q] = v]
    /\ UNCHANGED <<status, asked>>

Cancel(q) ==
    /\ status[q] # "cancelled"
    /\ status' = [status EXCEPT ![q] = "cancelled"]
    /\ stage' = [stage EXCEPT ![q] = IF @ = "absent" THEN "absent" ELSE "cancelled"]
    /\ UNCHANGED <<asked, found>>

Expire(q) ==
    /\ status[q] \in {"absent", "pending"}
    /\ status' = [status EXCEPT ![q] = "expired"]
    /\ UNCHANGED <<stage, asked, found>>

Next == \E q \in Requests :
    Create(q) \/ Build(q) \/ Report(q) \/ GiveUp(q) \/ Cancel(q) \/ Expire(q)

Spec == Init /\ [][Next]_vars

=============================================================================
