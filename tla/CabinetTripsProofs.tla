-------------------------- MODULE CabinetTripsProofs --------------------------
(***************************************************************************)
(* Proofs about CabinetTrips, for any trips, serve processes, batch size   *)
(* and progress events. The lemmas about single actions take any event, so *)
(* that the composition with Search can use them as well.                  *)
(***************************************************************************)
EXTENDS CabinetTrips, FiniteSetTheorems, TLAPS

------------------------------------------------------------------------------
(***************************************************************************)
(* Types. Only finitely many trips are overdue, so a pass reads finitely   *)
(* many candidates.                                                        *)
(***************************************************************************)
Mail == {"created", "cancelled", "expired"}

Entry == [revision : Nat, planner : Planners, stage : BuildingStages]

Typed ==
    /\ trip \in [Requests -> Trip]
    /\ overdue \in SUBSET Requests /\ IsFiniteSet(overdue)
    /\ outbox \in [Requests -> SUBSET Mail]
    /\ history \in [Requests -> SUBSET Entry]
    /\ pass \in [Servers -> Seq(Requests)]

(***************************************************************************)
(* What the owner of an active trip sees is the newest event of the whole  *)
(* stage that has been received, in whatever order the events arrived.     *)
(***************************************************************************)
Aggregates(q) == {h \in history[q] : h.planner = "all"}

ShowsNewest(q) ==
    IF Aggregates(q) = {}
    THEN trip[q].revision = 0 /\ trip[q].stage = "not_started"
    ELSE \E h \in Aggregates(q) :
             /\ trip[q].revision = h.revision /\ trip[q].stage = h.stage
             /\ \A k \in Aggregates(q) : k.revision <= h.revision

ProjectionIsNewest ==
    \A q \in Requests :
        /\ \A h \in history[q] : h.revision > 0
        /\ \A h, k \in history[q] : h.revision = k.revision => h = k
        /\ trip[q].status \in Active \cup {"absent"} => ShowsNewest(q)
        /\ trip[q].status = "absent" => history[q] = {}

Inductive == Typed /\ EventsTellStatus /\ ProjectionIsNewest

LEMMA InitInductive == Init => Inductive
<1> SUFFICES ASSUME Init PROVE Inductive
  OBVIOUS
<1>1. NoTrip \in Trip
  BY DEF NoTrip, Trip, Active
<1>2. Typed
  BY <1>1, FS_EmptySet DEF Init, Typed
<1>3. EventsTellStatus
  BY DEF Init, EventsTellStatus, NoTrip, Active
<1>4. ProjectionIsNewest
  BY DEF Init, ProjectionIsNewest, ShowsNewest, Aggregates, NoTrip
<1> QED
  BY <1>2, <1>3, <1>4 DEF Inductive

------------------------------------------------------------------------------
\* One trip gets another status and the event that tells of it.
LEMMA StatusChange ==
    ASSUME Inductive, NEW q \in Requests,
           NEW old \in {"absent", "saved", "running"}, NEW new \in {"saved", "cancelled", "expired"},
           NEW type \in Mail, trip[q].status = old,
           trip' = [trip EXCEPT ![q].status = new], Record(q, type),
           old = "absent" => new = "saved" /\ type = "created",
           old # "absent" => new # "saved" /\ type = new,
           overdue' \in SUBSET Requests, IsFiniteSet(overdue'),
           pass' \in [Servers -> Seq(Requests)], UNCHANGED history
    PROVE  Inductive'
<1> USE DEF Inductive
<1>1. trip[q] \in Trip /\ outbox[q] \in SUBSET Mail
  BY DEF Typed
<1>2. /\ trip'[q] = [trip[q] EXCEPT !.status = new] /\ trip'[q] \in Trip
      /\ trip'[q].status = new /\ trip'[q].stage = trip[q].stage
      /\ trip'[q].revision = trip[q].revision
      /\ outbox'[q] = outbox[q] \cup {type}
  BY <1>1 DEF Record, Typed, Trip, Active
<1>3. \A p \in Requests : p # q => trip'[p] = trip[p] /\ outbox'[p] = outbox[p]
  BY DEF Record, Typed
<1>4. Typed'
  BY <1>1, <1>2, <1>3 DEF Typed, Record
<1>5. EventsTellStatus'
  <2>1. outbox[q] = IF old = "absent" THEN {} ELSE {"created"}
    BY DEF EventsTellStatus, Active
  <2>2. outbox'[q] = CASE trip'[q].status = "absent" -> {}
                       [] trip'[q].status \in Active -> {"created"}
                       [] OTHER -> {"created", trip'[q].status}
    BY <1>2, <2>1 DEF Active
  <2> QED
    BY <1>3, <2>2 DEF EventsTellStatus
<1>6. ProjectionIsNewest'
  <2>1. trip[q].status \in Active \cup {"absent"}
    BY DEF Active
  <2>2. \A p \in Requests : ShowsNewest(p) => ShowsNewest(p)'
    BY <1>2, <1>3 DEF ShowsNewest, Aggregates
  <2>3. trip'[q].status # "absent"
    BY <1>2
  <2> QED
    BY <1>3, <2>1, <2>2, <2>3 DEF ProjectionIsNewest
<1> QED
  BY <1>4, <1>5, <1>6

LEMMA CreateTripKeeps ==
    ASSUME Inductive, NEW q \in Requests, CreateTrip(q)
    PROVE  Inductive'
BY StatusChange DEF CreateTrip, Inductive, Typed, Mail

LEMMA CancelTripKeeps ==
    ASSUME Inductive, NEW q \in Requests, CancelTrip(q)
    PROVE  Inductive'
BY StatusChange DEF CancelTrip, Active, Inductive, Typed, Mail

\* What is not read by the properties may change as its type allows.
LEMMA OthersChange ==
    ASSUME Inductive, UNCHANGED <<trip, outbox, history>>,
           overdue' \in SUBSET Requests, IsFiniteSet(overdue'),
           pass' \in [Servers -> Seq(Requests)]
    PROVE  Inductive'
BY DEF Inductive, Typed, EventsTellStatus, ProjectionIsNewest, ShowsNewest, Aggregates

LEMMA DayEndsKeeps ==
    ASSUME Inductive, NEW q \in Requests, DayEnds(q)
    PROVE  Inductive'
<1>1. IsFiniteSet(overdue \cup {q})
  BY FS_AddElement DEF Inductive, Typed
<1> QED
  BY <1>1, OthersChange DEF DayEnds, Inductive, Typed

LEMMA ExpiryKeeps ==
    ASSUME Inductive, NEW v \in Servers, Expiry(v)
    PROVE  Inductive'
<1> USE DEF Inductive
<1>1. pass[v] \in Seq(Requests)
  BY DEF Typed
<1>2. CASE ExpiryPass(v)
  <2>1. PICK chosen \in SUBSET Candidates : \E order \in SetToSeqs(chosen) :
            pass' = [pass EXCEPT ![v] = order]
    BY <1>2 DEF ExpiryPass
  <2>2. PICK order \in SetToSeqs(chosen) : pass' = [pass EXCEPT ![v] = order]
    BY <2>1
  <2>3. chosen \in SUBSET Requests /\ Cardinality(chosen) \in Nat
    BY FS_Subset, FS_CardinalityType DEF Candidates, Typed
  <2>4. order \in [1..Cardinality(chosen) -> chosen]
    BY DEF SetToSeqs
  <2>5. order \in Seq(Requests)
    BY <2>3, <2>4
  <2> QED
    BY <1>2, <2>2, <2>5, OthersChange DEF ExpiryPass, Typed
<1>3. CASE ExpireTrip(v)
  <2> DEFINE q == Head(pass[v])
  <2>1. q \in Requests /\ Tail(pass[v]) \in Seq(Requests)
    BY <1>1, <1>3 DEF ExpireTrip
  <2>2. pass' \in [Servers -> Seq(Requests)]
    BY <1>3, <2>1 DEF ExpireTrip, Typed
  <2>3. CASE trip[q].status \in Active
    <3>1. trip' = [trip EXCEPT ![q].status = "expired"] /\ Record(q, "expired")
      BY <1>3, <2>3 DEF ExpireTrip, Expirable
    <3> HIDE DEF q
    <3> QED
      BY <1>3, <2>1, <2>2, <2>3, <3>1, StatusChange DEF ExpireTrip, Active, Typed, Mail
  <2>4. CASE trip[q].status \notin Active
    BY <1>3, <2>2, <2>4, OthersChange DEF ExpireTrip, Expirable, Typed
  <2> QED
    BY <2>3, <2>4
<1>4. CASE PassFails(v)
  BY <1>4, OthersChange DEF PassFails, Typed
<1> QED
  BY <1>2, <1>3, <1>4 DEF Expiry

------------------------------------------------------------------------------
(***************************************************************************)
(* An event of any revision, before or after others.                       *)
(***************************************************************************)
LEMMA ApplyProgressKeeps ==
    ASSUME Inductive, NEW q \in Requests, NEW n \in Nat \ {0}, NEW e,
           e.planner \in Planners, e.stage \in BuildingStages, ApplyProgress(q, n, e)
    PROVE  Inductive'
<1> DEFINE h == [revision |-> n, planner |-> e.planner, stage |-> e.stage]
           t == [status |-> IF e.stage = "queued" THEN trip[q].status ELSE "running",
                 stage |-> e.stage, revision |-> n]
<1> USE DEF Inductive
<1>1. /\ trip[q] \in Trip /\ history[q] \in SUBSET Entry /\ h \in Entry
      /\ h.revision = n /\ h.planner = e.planner /\ h.stage = e.stage
  BY DEF Typed, Entry
<1>2. /\ trip[q].status # "absent" /\ \A k \in history[q] : k.revision # n
      /\ history' = [history EXCEPT ![q] = history[q] \cup {h}]
      /\ UNCHANGED <<overdue, outbox, pass>>
  BY DEF ApplyProgress, Received
<1>3. trip' = IF Moves(q, n, e) THEN [trip EXCEPT ![q] = t] ELSE trip
  BY DEF ApplyProgress
<1>4. Moves(q, n, e) => /\ t \in Trip /\ trip[q].status \in Active /\ t.status \in Active
                        /\ t.revision = n /\ t.stage = e.stage
                        /\ e.planner = "all" /\ trip[q].revision < n
  BY <1>1 DEF Moves, Trip, Active
<1> HIDE DEF h, t
<1>5. history'[q] = history[q] \cup {h} /\ \A p \in Requests : p # q => history'[p] = history[p]
  BY <1>2 DEF Typed
<1>6. /\ trip'[q] = IF Moves(q, n, e) THEN t ELSE trip[q]
      /\ \A p \in Requests : p # q => trip'[p] = trip[p]
  BY <1>3 DEF Typed
<1>7. Typed'
  BY <1>1, <1>2, <1>3, <1>4 DEF Typed
<1>8. EventsTellStatus'
  <2>1. /\ trip'[q].status \in Active <=> trip[q].status \in Active
        /\ trip[q].status \notin Active => trip'[q].status = trip[q].status
        /\ trip'[q].status # "absent"
    BY <1>2, <1>4, <1>6 DEF Active
  <2> QED
    BY <1>2, <1>6, <2>1 DEF EventsTellStatus, Active
<1>9. ASSUME trip'[q].status \in Active
      PROVE  ShowsNewest(q)'
  <2>1. trip[q].status \in Active /\ ShowsNewest(q)
    BY <1>4, <1>6, <1>9 DEF ProjectionIsNewest
  <2>2. Aggregates(q)' = IF e.planner = "all" THEN Aggregates(q) \cup {h} ELSE Aggregates(q)
    BY <1>1, <1>5 DEF Aggregates
  <2>3. \A k \in Aggregates(q) : k.revision \in Nat
    BY <1>1 DEF Aggregates, Entry
  <2>4. CASE Moves(q, n, e)
    <3>1. \A k \in Aggregates(q) : k.revision <= trip[q].revision
      BY <2>1 DEF ShowsNewest
    <3>2. \A k \in Aggregates(q) : k.revision <= n
      BY <1>1, <1>4, <2>3, <2>4, <3>1 DEF Trip
    <3> QED
      BY <1>1, <1>4, <1>6, <2>2, <2>4, <3>2 DEF ShowsNewest
  <2>5. CASE ~Moves(q, n, e)
    <3>1. trip'[q] = trip[q]
      BY <1>6, <2>5
    <3>2. CASE e.planner # "all"
      BY <2>1, <2>2, <3>1, <3>2 DEF ShowsNewest
    <3>3. CASE e.planner = "all"
      <4>1. trip[q].revision \in Nat /\ n <= trip[q].revision
        BY <1>1, <2>1, <2>5, <3>3 DEF Moves, Trip
      <4>2. Aggregates(q) # {}
        BY <2>1, <4>1 DEF ShowsNewest
      <4> QED
        BY <1>1, <2>1, <2>2, <3>1, <4>1, <4>2 DEF ShowsNewest
    <3> QED
      BY <3>2, <3>3
  <2> QED
    BY <2>4, <2>5
<1>10. ProjectionIsNewest'
  <2>1. \A k \in history'[q] : k.revision > 0
    BY <1>1, <1>5 DEF ProjectionIsNewest
  <2>2. \A g, k \in history'[q] : g.revision = k.revision => g = k
    BY <1>1, <1>2, <1>5 DEF ProjectionIsNewest
  <2>3. trip'[q].status # "absent"
    BY <1>2, <1>4, <1>6 DEF Active
  <2>4. ASSUME NEW p \in Requests, p # q, ShowsNewest(p)
        PROVE  ShowsNewest(p)'
    BY <1>5, <1>6, <2>4 DEF ShowsNewest, Aggregates
  <2> QED
    BY <1>5, <1>6, <1>9, <2>1, <2>2, <2>3, <2>4 DEF ProjectionIsNewest
<1> QED
  BY <1>7, <1>8, <1>10

------------------------------------------------------------------------------
LEMMA NextInductive == Inductive /\ [Next]_vars => Inductive'
<1> SUFFICES ASSUME Inductive, [Next]_vars PROVE Inductive'
  OBVIOUS
<1>1. CASE UNCHANGED vars
  BY <1>1, OthersChange DEF vars, Inductive, Typed
<1>2. ASSUME NEW q \in Requests, Progresses(q)
      PROVE  Inductive'
  <2>1. PICK n \in DOMAIN Feed[q] : ApplyProgress(q, n, Feed[q][n])
    BY <1>2 DEF Progresses
  <2>2. Feed[q] \in Seq([planner : Planners, stage : BuildingStages])
    BY FeedAssumption
  <2>3. n \in Nat \ {0} /\ Feed[q][n] \in [planner : Planners, stage : BuildingStages]
    <3> DEFINE T == [planner : Planners, stage : BuildingStages]
               f == Feed[q]
    <3>1. f \in Seq(T) /\ n \in DOMAIN f
      BY <2>1, <2>2
    <3> HIDE DEF T, f
    <3>2. n \in 1..Len(f) /\ Len(f) \in Nat /\ f[n] \in T
      BY <3>1
    <3> QED
      BY <3>2 DEF T, f
  <2>4. Feed[q][n].planner \in Planners /\ Feed[q][n].stage \in BuildingStages
    BY <2>3
  <2> QED
    BY <2>1, <2>3, <2>4, ApplyProgressKeeps
<1> QED
  BY <1>1, <1>2, CreateTripKeeps, CancelTripKeeps, DayEndsKeeps, ExpiryKeeps DEF Next

LEMMA AlwaysInductive == Spec => []Inductive
BY InitInductive, NextInductive, PTL DEF Spec

(***************************************************************************)
(* Search is told exactly what happened to a trip, however cancellation    *)
(* and the expiry passes of several processes interleave (ExpireTrips).    *)
(***************************************************************************)
THEOREM SearchIsTold == Spec => []EventsTellStatus
<1>1. Inductive => EventsTellStatus
  BY DEF Inductive
<1> QED
  BY <1>1, AlwaysInductive, PTL

(***************************************************************************)
(* An active trip shows the newest stage received, in whatever order the   *)
(* events came and however often (ApplyProgress).                          *)
(***************************************************************************)
THEOREM OwnerSeesNewest == Spec => []ProjectionIsNewest
<1>1. Inductive => ProjectionIsNewest
  BY DEF Inductive
<1> QED
  BY <1>1, AlwaysInductive, PTL

==============================================================================
