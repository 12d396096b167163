----------------------------- MODULE PlannerProofs -----------------------------
(***************************************************************************)
(* Proofs about the graph planner, for any catalog, answers of Collector   *)
(* and budgets: what it keeps is there to be found (SchemesAreThere), and  *)
(* what it leaves out it tells of (CutsAreTold).                           *)
(*                                                                         *)
(* Lists, orders and places come first, then the tasks there may be and    *)
(* the invariant Planned, kept by each action; from "Nothing is left out   *)
(* of the lists" on, what a task still has to do, what each action does of *)
(* it, and the invariant Telling.                                          *)
(***************************************************************************)
EXTENDS GraphPlanner, FiniteSetTheorems, SequenceTheorems, TLAPS

\* A set of numbers has a smallest one.
LEMMA Smallest ==
    ASSUME NEW S \in SUBSET Nat, S # {}
    PROVE  \E m \in S : \A j \in S : m <= j
<1>1. IsWellFoundedOn(OpToRel(<, Nat), Nat)
  BY NatLessThanWellFounded
<1>2. PICK m \in S : \A j \in S : <<j, m>> \notin OpToRel(<, Nat)
  BY <1>1, WFMin
<1>3. ASSUME NEW j \in S PROVE m <= j
  <2>1. <<j, m>> \in Nat \X Nat /\ <<j, m>>[1] = j /\ <<j, m>>[2] = m
    OBVIOUS
  <2>2. ~(j < m)
    BY <1>2, <2>1 DEF OpToRel
  <2> QED  BY <2>2
<1> QED  BY <1>3

------------------------------------------------------------------------------
(* Lists *)

\* What FlattenSeq has put together after i of the lists.
Flattening(ss, f, m) ==
    \A i \in 1..m : f[i] = IF i = 1 THEN ss[i] ELSE f[i - 1] \o ss[i]

LEMMA FlatteningExists ==
    ASSUME NEW T, NEW ss \in Seq(Seq(T)), Len(ss) # 0
    PROVE  \E f \in [1..Len(ss) -> Seq(T)] : Flattening(ss, f, Len(ss))
<1> DEFINE Good(m) == \E f \in [1..m -> Seq(T)] : Flattening(ss, f, m)
           Bad == {m \in 1..Len(ss) : ~Good(m)}
<1>0. Len(ss) \in Nat /\ \A i \in 1..Len(ss) : ss[i] \in Seq(T)
  OBVIOUS
<1>1. Good(1)
  <2>1. [i \in 1..1 |-> ss[1]] \in [1..1 -> Seq(T)] /\ Flattening(ss, [i \in 1..1 |-> ss[1]], 1)
    BY <1>0 DEF Flattening
  <2> QED  BY <2>1
<1>2. ASSUME NEW m \in 1..Len(ss), m + 1 \in 1..Len(ss), Good(m)
      PROVE  Good(m + 1)
  <2>1. PICK f \in [1..m -> Seq(T)] : Flattening(ss, f, m)
    BY <1>2
  <2> DEFINE g == [i \in 1..(m + 1) |-> IF i = m + 1 THEN f[m] \o ss[m + 1] ELSE f[i]]
  <2>2. f[m] \in Seq(T) /\ ss[m + 1] \in Seq(T)
    BY <1>0, <1>2
  <2>3. f[m] \o ss[m + 1] \in Seq(T)
    BY <2>2, ConcatProperties
  <2>4. g \in [1..(m + 1) -> Seq(T)]
    BY <1>0, <2>3
  <2>5. ASSUME NEW i \in 1..(m + 1)
        PROVE  g[i] = IF i = 1 THEN ss[i] ELSE g[i - 1] \o ss[i]
    <3>1. CASE i = m + 1
      <4>1. m + 1 # 1 /\ (m + 1) - 1 = m /\ m \in 1..(m + 1) /\ m # m + 1 /\ m + 1 \in 1..(m + 1)
        BY <1>0
      <4>2. g[m + 1] = f[m] \o ss[m + 1] /\ g[m] = f[m]
        BY <4>1
      <4> QED  BY <3>1, <4>1, <4>2
    <3>2. CASE i # m + 1
      <4>1. i \in 1..m /\ g[i] = f[i] /\ (i # 1 => g[i - 1] = f[i - 1])
        BY <1>0, <3>2
      <4> QED  BY <2>1, <4>1 DEF Flattening
    <3> QED  BY <3>1, <3>2
  <2>6. Flattening(ss, g, m + 1)
    BY <2>5 DEF Flattening
  <2> QED  BY <2>4, <2>6
<1> HIDE DEF Good
<1>3. Bad = {}
  <2> SUFFICES ASSUME Bad # {} PROVE FALSE
    OBVIOUS
  <2>1. Bad \in SUBSET Nat
    BY <1>0
  <2>2. PICK m \in Bad : \A j \in Bad : m <= j
    BY <2>1, Smallest
  <2>3. m # 1
    BY <1>1
  <2>4. m - 1 \in 1..Len(ss) /\ m - 1 \notin Bad /\ m \in 1..Len(ss) /\ (m - 1) + 1 = m
    BY <1>0, <2>2, <2>3
  <2>5. Good(m - 1)
    BY <2>4
  <2>6. Good((m - 1) + 1)
    BY <1>2, <2>4, <2>5
  <2> QED  BY <2>2, <2>4, <2>6
<1>4. Len(ss) \in 1..Len(ss)
  BY <1>0
<1>5. Good(Len(ss))
  BY <1>3, <1>4
<1> QED  BY <1>5 DEF Good

\* A list of lists is put together from the first to the last.
LEMMA FlattenSeqIs ==
    ASSUME NEW T, NEW ss \in Seq(Seq(T)), Len(ss) # 0
    PROVE  \E f \in [1..Len(ss) -> Seq(T)] : Flattening(ss, f, Len(ss)) /\ FlattenSeq(ss) = f[Len(ss)]
<1> DEFINE Step1(f) == [i \in 1..Len(ss) |-> IF i = 1 THEN ss[i] ELSE f[i - 1] \o ss[i]]
           flat == CHOOSE f : f = Step1(f)
<1>1. PICK g \in [1..Len(ss) -> Seq(T)] : Flattening(ss, g, Len(ss))
  BY FlatteningExists
<1>2. g = Step1(g)
  BY <1>1 DEF Flattening
<1>3. flat = Step1(flat)
  BY <1>2
<1>4. FlattenSeq(ss) = flat[Len(ss)]
  BY DEF FlattenSeq
<1> HIDE DEF flat
<1>5. ASSUME NEW i \in 1..Len(ss) PROVE flat[i] = IF i = 1 THEN ss[i] ELSE flat[i - 1] \o ss[i]
  BY <1>3
<1> DEFINE Bad == {i \in 1..Len(ss) : flat[i] \notin Seq(T)}
<1>6. Bad = {}
  <2> SUFFICES ASSUME Bad # {} PROVE FALSE
    OBVIOUS
  <2>1. Bad \in SUBSET Nat
    OBVIOUS
  <2>2. PICK m \in Bad : \A j \in Bad : m <= j
    BY <2>1, Smallest
  <2>3. m # 1
    <3>1. 1 \in 1..Len(ss) => flat[1] = ss[1] /\ ss[1] \in Seq(T)
      BY <1>5
    <3> QED  BY <2>2, <3>1
  <2>4. m \in 1..Len(ss) /\ m - 1 \in 1..Len(ss) /\ m - 1 \notin Bad
    BY <2>2, <2>3
  <2>5. flat[m - 1] \in Seq(T) /\ ss[m] \in Seq(T)
    BY <2>4
  <2>6. flat[m] = flat[m - 1] \o ss[m]
    BY <1>5, <2>3, <2>4
  <2>7. flat[m] \in Seq(T)
    BY <2>5, <2>6, ConcatProperties
  <2> QED  BY <2>7
<1>7. flat \in [1..Len(ss) -> Seq(T)]
  BY <1>3, <1>6
<1>8. Flattening(ss, flat, Len(ss))
  BY <1>5 DEF Flattening
<1> QED  BY <1>4, <1>7, <1>8

\* A list of lists, put together, is a list of what they hold.
LEMMA FlattenSeqType ==
    ASSUME NEW T, NEW ss \in Seq(Seq(T))
    PROVE  FlattenSeq(ss) \in Seq(T)
<1>1. CASE Len(ss) = 0
  BY <1>1, EmptySeq DEF FlattenSeq
<1>2. CASE Len(ss) # 0
  <2>1. Len(ss) \in 1..Len(ss)
    BY <1>2
  <2> QED  BY <1>2, <2>1, FlattenSeqIs
<1> QED  BY <1>1, <1>2

\* What a list holds is at one of its places.
LEMMA Members ==
    ASSUME NEW T, NEW s \in Seq(T)
    PROVE  /\ \A i \in 1..Len(s) : s[i] \in ToSet(s)
           /\ \A x \in ToSet(s) : \E i \in 1..Len(s) : s[i] = x
BY DEF ToSet

\* What two lists hold is what they hold together.
LEMMA ConcatHas ==
    ASSUME NEW T, NEW s \in Seq(T), NEW t \in Seq(T)
    PROVE  s \o t \in Seq(T) /\ ToSet(s \o t) = ToSet(s) \cup ToSet(t)
<1>1. s \o t \in Seq(T) /\ Len(s \o t) = Len(s) + Len(t) /\ Len(s) \in Nat /\ Len(t) \in Nat
  BY ConcatProperties
<1>2. \A i \in 1..Len(s) : (s \o t)[i] = s[i]
  BY ConcatProperties
<1>3. \A i \in 1..Len(t) : (s \o t)[Len(s) + i] = t[i]
  <2> SUFFICES ASSUME NEW i \in 1..Len(t) PROVE (s \o t)[Len(s) + i] = t[i]
    OBVIOUS
  <2>1. Len(s) + i \in 1..(Len(s) + Len(t)) /\ ~(Len(s) + i <= Len(s)) /\ (Len(s) + i) - Len(s) = i
    BY <1>1
  <2> QED  BY <2>1, ConcatProperties
<1>4. ToSet(s) \subseteq ToSet(s \o t)
  <2> SUFFICES ASSUME NEW i \in 1..Len(s) PROVE s[i] \in ToSet(s \o t)
    BY Members
  <2>1. i \in 1..Len(s \o t)
    BY <1>1
  <2> QED  BY <1>1, <1>2, <2>1, Members
<1>5. ToSet(t) \subseteq ToSet(s \o t)
  <2> SUFFICES ASSUME NEW i \in 1..Len(t) PROVE t[i] \in ToSet(s \o t)
    BY Members
  <2>1. Len(s) + i \in 1..Len(s \o t)
    BY <1>1
  <2>2. (s \o t)[Len(s) + i] \in ToSet(s \o t)
    BY <1>1, <2>1, Members
  <2> QED  BY <1>3, <2>2
<1>6. ToSet(s \o t) \subseteq ToSet(s) \cup ToSet(t)
  <2> SUFFICES ASSUME NEW k \in 1..Len(s \o t) PROVE (s \o t)[k] \in ToSet(s) \cup ToSet(t)
    <3>1. \A x \in ToSet(s \o t) : \E k \in 1..Len(s \o t) : (s \o t)[k] = x
      BY <1>1, Members
    <3> QED  BY <3>1
  <2>1. CASE k <= Len(s)
    <3>1. k \in 1..Len(s)
      BY <1>1, <2>1
    <3> QED  BY <1>2, <3>1, Members
  <2>2. CASE ~(k <= Len(s))
    <3>1. k - Len(s) \in 1..Len(t) /\ Len(s) + (k - Len(s)) = k
      BY <1>1, <2>2
    <3>2. (s \o t)[k] = t[k - Len(s)]
      BY <1>3, <3>1
    <3> QED  BY <3>1, <3>2, Members
  <2> QED  BY <2>1, <2>2
<1> QED  BY <1>1, <1>4, <1>5, <1>6

LEMMA AppendHas ==
    ASSUME NEW T, NEW s \in Seq(T), NEW x \in T
    PROVE  Append(s, x) \in Seq(T) /\ ToSet(Append(s, x)) = ToSet(s) \cup {x}
<1>1. Len(Append(s, x)) = Len(s) + 1 /\ Len(s) \in Nat /\ Append(s, x) \in Seq(T)
      /\ Append(s, x)[Len(s) + 1] = x /\ \A i \in 1..Len(s) : Append(s, x)[i] = s[i]
  BY AppendProperties
<1>2. x \in ToSet(Append(s, x))
  BY <1>1 DEF ToSet
<1>3. ToSet(s) \subseteq ToSet(Append(s, x))
  BY <1>1 DEF ToSet
<1>4. ASSUME NEW k \in 1..(Len(s) + 1) PROVE Append(s, x)[k] \in ToSet(s) \cup {x}
  <2>1. k = Len(s) + 1 \/ k \in 1..Len(s)
    BY <1>1
  <2> QED  BY <1>1, <2>1 DEF ToSet
<1>5. ToSet(Append(s, x)) \subseteq ToSet(s) \cup {x}
  BY <1>1, <1>4 DEF ToSet
<1> QED  BY <1>1, <1>2, <1>3, <1>5

LEMMA HeadAndTailHave ==
    ASSUME NEW T, NEW s \in Seq(T), s # <<>>
    PROVE  Tail(s) \in Seq(T) /\ Head(s) \in ToSet(s) /\ ToSet(s) = {Head(s)} \cup ToSet(Tail(s))
<1>1. /\ Len(s) \in Nat /\ Len(s) # 0 /\ Head(s) = s[1] /\ Tail(s) \in Seq(T) /\ Len(Tail(s)) = Len(s) - 1
      /\ \A i \in 1..(Len(s) - 1) : Tail(s)[i] = s[i + 1]
  BY HeadTailProperties
<1>2. Head(s) \in ToSet(s)
  BY <1>1 DEF ToSet
<1>3. ToSet(Tail(s)) \subseteq ToSet(s)
  <2> SUFFICES ASSUME NEW i \in 1..(Len(s) - 1) PROVE Tail(s)[i] \in ToSet(s)
    <3>1. \A x \in ToSet(Tail(s)) : \E i \in 1..Len(Tail(s)) : Tail(s)[i] = x
      BY <1>1, Members
    <3> QED  BY <1>1, <3>1
  <2>1. i + 1 \in 1..Len(s)
    BY <1>1
  <2> QED  BY <1>1, <2>1, Members
<1>4. ASSUME NEW k \in 1..Len(s) PROVE s[k] \in {Head(s)} \cup ToSet(Tail(s))
  <2>1. CASE k = 1
    BY <1>1, <2>1
  <2>2. CASE k # 1
    <3>1. k - 1 \in 1..(Len(s) - 1) /\ (k - 1) + 1 = k
      BY <1>1, <2>2
    <3>2. Tail(s)[k - 1] = s[k]
      BY <1>1, <3>1
    <3>3. Tail(s)[k - 1] \in ToSet(Tail(s))
      BY <1>1, <3>1, Members
    <3> QED  BY <3>2, <3>3
  <2> QED  BY <2>1, <2>2
<1>5. ToSet(s) \subseteq {Head(s)} \cup ToSet(Tail(s))
  BY <1>4 DEF ToSet
<1> QED  BY <1>1, <1>2, <1>3, <1>5

\* What one of the lists holds is there when they are put together.
LEMMA FlattenSeqHas ==
    ASSUME NEW T, NEW ss \in Seq(Seq(T)), NEW i \in DOMAIN ss, NEW x \in ToSet(ss[i])
    PROVE  x \in ToSet(FlattenSeq(ss))
<1>1. Len(ss) \in Nat /\ i \in 1..Len(ss) /\ Len(ss) # 0 /\ \A m \in 1..Len(ss) : ss[m] \in Seq(T)
  OBVIOUS
<1>2. PICK f \in [1..Len(ss) -> Seq(T)] : Flattening(ss, f, Len(ss)) /\ FlattenSeq(ss) = f[Len(ss)]
  BY <1>1, FlattenSeqIs
<1> DEFINE Bad == {m \in i..Len(ss) : x \notin ToSet(f[m])}
<1>3. ASSUME NEW m \in 1..Len(ss), m # 1
      PROVE  ToSet(f[m]) = ToSet(f[m - 1]) \cup ToSet(ss[m])
  <2>1. m - 1 \in 1..Len(ss)
    BY <1>1, <1>3
  <2>2. f[m] = f[m - 1] \o ss[m] /\ f[m - 1] \in Seq(T) /\ ss[m] \in Seq(T)
    BY <1>1, <1>2, <1>3, <2>1 DEF Flattening
  <2> QED  BY <2>2, ConcatHas
<1>4. f[1] = ss[1]
  <2>1. 1 \in 1..Len(ss)
    BY <1>1
  <2> QED  BY <1>2, <2>1 DEF Flattening
<1>5. Bad = {}
  <2> SUFFICES ASSUME Bad # {} PROVE FALSE
    OBVIOUS
  <2>1. Bad \in SUBSET Nat
    BY <1>1
  <2>2. PICK m \in Bad : \A j \in Bad : m <= j
    BY <2>1, Smallest
  <2>3. m # i
    BY <1>1, <1>3, <1>4, <2>2
  <2>4. m \in 1..Len(ss) /\ m # 1 /\ m - 1 \in i..Len(ss) /\ ~(m <= m - 1)
    BY <1>1, <2>2, <2>3
  <2>5. x \in ToSet(f[m - 1])
    BY <2>2, <2>4
  <2> QED  BY <1>3, <2>2, <2>4, <2>5
<1>6. Len(ss) \in i..Len(ss)
  BY <1>1
<1> QED  BY <1>2, <1>5, <1>6

\* The members of a finite set, in some order.
LEMMA SetToSeqType ==
    ASSUME NEW S, IsFiniteSet(S)
    PROVE  SetToSeq(S) \in Seq(S) /\ ToSet(SetToSeq(S)) = S
<1>1. Cardinality(S) \in Nat /\ ExistsBijection(1..Cardinality(S), S)
  BY FS_CardinalityType
<1>2. PICK f \in [1..Cardinality(S) -> S] : IsInjective(f)
  BY <1>1 DEF ExistsBijection, Bijection, Injection, IsInjective
<1>3. SetToSeq(S) \in [1..Cardinality(S) -> S] /\ IsInjective(SetToSeq(S))
  BY <1>2 DEF SetToSeq
<1>4. IsFiniteSet(1..Cardinality(S)) /\ Cardinality(1..Cardinality(S)) = Cardinality(S)
  <2>1. 1 \in Int /\ Cardinality(S) \in Int
    BY <1>1
  <2>2. Cardinality(1..Cardinality(S)) = IF 1 > Cardinality(S) THEN 0 ELSE Cardinality(S) - 1 + 1
    BY <2>1, FS_Interval
  <2>3. IsFiniteSet(1..Cardinality(S))
    BY <2>1, FS_Interval
  <2> QED  BY <1>1, <2>2, <2>3
<1>5. SetToSeq(S) \in Injection(1..Cardinality(S), S)
  BY <1>3 DEF Injection, IsInjective
<1>6. SetToSeq(S) \in Surjection(1..Cardinality(S), S)
  BY <1>4, <1>5, FS_Injection
<1>7. ToSet(SetToSeq(S)) = S
  BY <1>6 DEF ToSet, Surjection
<1> QED  BY <1>1, <1>3, <1>7, IsASeq

\* What makes R a strict order of all of S.
Strict(S, R) ==
    /\ \A a \in S : <<a, a>> \notin R
    /\ \A a, b, c \in S : <<a, b>> \in R /\ <<b, c>> \in R => <<a, c>> \in R
    /\ \A a, b \in S : a = b \/ <<a, b>> \in R \/ <<b, a>> \in R

\* In a finite set, members of a strict order have places of their own.
LEMMA PlacesDiffer ==
    ASSUME NEW S, IsFiniteSet(S), NEW R, Strict(S, R)
    PROVE  /\ Cardinality(S) \in Nat
           /\ \A a \in S : Cardinality({b \in S : <<b, a>> \in R}) \in 0..(Cardinality(S) - 1)
           /\ \A a, c \in S : Cardinality({b \in S : <<b, a>> \in R}) = Cardinality({b \in S : <<b, c>> \in R}) => a = c
<1> DEFINE below(a) == {b \in S : <<b, a>> \in R}
<1>1. Cardinality(S) \in Nat
  BY FS_CardinalityType
<1>2. ASSUME NEW a \in S PROVE IsFiniteSet(below(a)) /\ Cardinality(below(a)) \in Nat
  BY FS_Subset, FS_CardinalityType
<1>3. ASSUME NEW a \in S PROVE Cardinality(below(a)) \in 0..(Cardinality(S) - 1)
  <2>1. below(a) \in SUBSET S /\ a \notin below(a)
    BY DEF Strict
  <2>2. Cardinality(below(a)) <= Cardinality(S) /\ Cardinality(S) # Cardinality(below(a))
    BY <2>1, FS_Subset
  <2> HIDE DEF below
  <2> QED  BY <1>1, <1>2, <2>2
<1>4. ASSUME NEW a \in S, NEW b \in S, <<a, b>> \in R PROVE Cardinality(below(a)) # Cardinality(below(b))
  <2>1. below(a) \in SUBSET below(b) /\ a \in below(b) /\ a \notin below(a)
    BY <1>4 DEF Strict
  <2>2. IsFiniteSet(below(b)) /\ Cardinality(below(b)) # Cardinality(below(a))
    BY <1>2, <2>1, FS_Subset
  <2> QED  BY <2>2
<1>5. \A a, c \in S : Cardinality(below(a)) = Cardinality(below(c)) => a = c
  <2> HIDE DEF below
  <2> QED  BY <1>4 DEF Strict
<1> QED  BY <1>1, <1>3, <1>5

\* Every place is taken.
LEMMA PlacesAreTaken ==
    ASSUME NEW S, IsFiniteSet(S), NEW R, Strict(S, R), NEW n \in 1..Cardinality(S)
    PROVE  \E a \in S : Cardinality({b \in S : <<b, a>> \in R}) = n - 1
<1> DEFINE below(a) == {b \in S : <<b, a>> \in R}
           rank == [a \in S |-> Cardinality(below(a))]
           places == 0..(Cardinality(S) - 1)
<1>1. Cardinality(S) \in Nat
  BY FS_CardinalityType
<1>5. rank \in [S -> places] /\ \A a, b \in S : rank[a] = rank[b] => a = b
  BY PlacesDiffer
<1> HIDE DEF rank, below
<1>6. IsFiniteSet(places) /\ Cardinality(places) = Cardinality(S)
  <2>1. 0 \in Int /\ Cardinality(S) - 1 \in Int
    BY <1>1
  <2>2. Cardinality(places) = IF 0 > Cardinality(S) - 1 THEN 0 ELSE (Cardinality(S) - 1) - 0 + 1
    BY <2>1, FS_Interval
  <2>3. IsFiniteSet(places)
    BY <2>1, FS_Interval
  <2> QED  BY <1>1, <2>2, <2>3
<1>7. rank \in Injection(S, places)
  BY <1>5 DEF Injection, IsInjective
<1>8. rank \in Surjection(S, places)
  BY <1>6, <1>7, FS_Injection
<1>9. n - 1 \in places
  BY <1>1
<1>10. PICK a \in S : rank[a] = n - 1
  BY <1>8, <1>9 DEF Surjection
<1>11. Cardinality(below(a)) = n - 1
  BY <1>10 DEF rank
<1> QED  BY <1>11 DEF below


\* An ordered set holds nothing but its members.
LEMMA OrderedType ==
    ASSUME NEW S, IsFiniteSet(S), NEW R, Strict(S, R)
    PROVE  Ordered(S, R) \in Seq(S)
<1>1. Cardinality(S) \in Nat
  BY FS_CardinalityType
<1>2. ASSUME NEW n \in 1..Cardinality(S)
      PROVE  (CHOOSE a \in S : Cardinality({b \in S : <<b, a>> \in R}) = n - 1) \in S
  BY PlacesAreTaken
<1>3. Ordered(S, R) \in [1..Cardinality(S) -> S]
  BY <1>2 DEF Ordered
<1> QED  BY <1>1, <1>3, IsASeq

LEMMA OrderedHas ==
    ASSUME NEW S, IsFiniteSet(S), NEW R, Strict(S, R), NEW a \in S
    PROVE  a \in ToSet(Ordered(S, R))
<1> DEFINE rank(x) == Cardinality({b \in S : <<b, x>> \in R})
           n == rank(a) + 1
<1>1. /\ Cardinality(S) \in Nat /\ rank(a) \in 0..(Cardinality(S) - 1)
      /\ \A x \in S : rank(x) = rank(a) => x = a
  BY PlacesDiffer
<1>2. DOMAIN Ordered(S, R) = 1..Cardinality(S) /\ Ordered(S, R)[n] = CHOOSE x \in S : rank(x) = n - 1
  <2>1. n \in 1..Cardinality(S)
    <3> HIDE DEF rank
    <3> QED  BY <1>1
  <2> QED  BY <2>1 DEF Ordered
<1>3. n \in 1..Cardinality(S) /\ n - 1 = rank(a)
  <2> HIDE DEF rank
  <2> QED  BY <1>1
<1> HIDE DEF n, rank
<1>4. Ordered(S, R)[n] = a
  BY <1>1, <1>2, <1>3
<1> QED  BY <1>2, <1>3, <1>4 DEF ToSet

\* A list is a list of what it holds.
LEMMA ListOfItsOwn ==
    ASSUME NEW T, NEW s \in Seq(T)
    PROVE  s \in Seq(ToSet(s)) /\ ToSet(s) \subseteq T /\ DOMAIN s = 1..Len(s) /\ Len(s) \in Nat
BY DEF ToSet

LEMMA ListOfMore ==
    ASSUME NEW S, NEW T, S \subseteq T, NEW s \in Seq(S)
    PROVE  s \in Seq(T)
BY SeqMonotonic

LEMMA EmptyList ==
    ASSUME NEW T
    PROVE  \E none \in Seq(T) : none = <<>>
<1>1. <<>> \in Seq(T)
  BY EmptySeq
<1> QED  BY <1>1

LEMMA TwoLegs ==
    ASSUME NEW x, NEW y
    PROVE  <<x>> \o <<y>> = <<x, y>>
<1>1. <<x>> \in Seq({x, y}) /\ <<y>> \in Seq({x, y})
  OBVIOUS
<1>2. /\ <<x>> \o <<y>> \in Seq({x, y}) /\ Len(<<x>> \o <<y>>) = 2
      /\ (<<x>> \o <<y>>)[1] = x /\ (<<x>> \o <<y>>)[2] = y
  BY <1>1, ConcatProperties
<1>3. <<x, y>> \in Seq({x, y}) /\ Len(<<x, y>>) = 2 /\ <<x, y>>[1] = x /\ <<x, y>>[2] = y
  OBVIOUS
<1>4. \A i \in 1..2 : (<<x>> \o <<y>>)[i] = <<x, y>>[i]
  BY <1>2, <1>3
<1> QED  BY <1>2, <1>3, <1>4, SeqEqual

LEMMA FirstType ==
    ASSUME NEW T, NEW s \in Seq(T), NEW n \in Nat
    PROVE  First(s, n) \in Seq(T)
BY DEF First

------------------------------------------------------------------------------
(* Airports *)
LEMMA AirportsAreFinite == IsFiniteSet(Airports)
<1>1. Len(Catalog) \in Nat /\ Airports = 1..Len(Catalog)
  BY CatalogAssumption DEF Airports
<1> QED  BY <1>1, FS_Interval

LEMMA AwayType ==
    ASSUME NEW x \in Int, NEW y \in Int
    PROVE  Away(x, y) \in Int
BY DEF Away

\* Large airports before the others, near ones before far ones: an order of all.
LEMMA FirstToIsStrict ==
    ASSUME NEW at \in Int
    PROVE  Strict(Airports, FirstTo(at))
<1> DEFINE large(x) == IF Catalog[x].size = "large" THEN 0 ELSE 1
           d(x) == Away(at, Catalog[x].at)
<1>1. ASSUME NEW x \in Airports PROVE x \in Int /\ d(x) \in Int /\ large(x) \in Int
  <2>1. x \in 1..Len(Catalog) /\ Len(Catalog) \in Nat
    BY CatalogAssumption DEF Airports
  <2>2. d(x) \in Int
    BY CatalogAssumption, AwayType DEF Airports
  <2> QED  BY <2>1, <2>2
<1>2. ASSUME NEW a \in Airports, NEW b \in Airports
      PROVE  <<a, b>> \in FirstTo(at) <=>
                 \/ large(a) < large(b)
                 \/ large(a) = large(b) /\ d(a) < d(b)
                 \/ large(a) = large(b) /\ d(a) = d(b) /\ a < b
  BY DEF FirstTo, Before
<1> HIDE DEF large, d
<1>3. ASSUME NEW a \in Airports PROVE <<a, a>> \notin FirstTo(at)
  BY <1>1, <1>2
<1>4. ASSUME NEW a \in Airports, NEW b \in Airports, NEW c \in Airports,
             <<a, b>> \in FirstTo(at), <<b, c>> \in FirstTo(at)
      PROVE  <<a, c>> \in FirstTo(at)
  BY <1>1, <1>2, <1>4
<1>5. ASSUME NEW a \in Airports, NEW b \in Airports
      PROVE  a = b \/ <<a, b>> \in FirstTo(at) \/ <<b, a>> \in FirstTo(at)
  BY <1>1, <1>2
<1> QED  BY <1>3, <1>4, <1>5 DEF Strict

LEMMA AroundType ==
    ASSUME NEW at \in Int, NEW radius
    PROVE  Around(at, radius) \in Seq(Airports)
<1> DEFINE S == {a \in Airports : Usable(a) /\ Catalog[a].size \in {"large", "medium"}
                                   /\ Away(at, Catalog[a].at) <= radius}
<1>1. S \in SUBSET Airports /\ IsFiniteSet(S)
  BY AirportsAreFinite, FS_Subset
<1>2. Strict(S, FirstTo(at))
  BY <1>1, FirstToIsStrict DEF Strict
<1>3. Ordered(S, FirstTo(at)) \in Seq(S)
  BY <1>1, <1>2, OrderedType
<1>4. Around(at, radius) \in Seq(S)
  BY <1>3 DEF Around
<1> QED  BY <1>1, <1>4, ListOfMore

\* Town by town is an order of all airports of a set.
LEMMA DiverseType ==
    ASSUME NEW S \in SUBSET Airports
    PROVE  Diverse(S) \in Seq(S)
<1> DEFINE town(a) == SameTown(S, a)
           at == OriginAt
           R == {p \in S \X S :
                   \/ Round(S, p[1]) < Round(S, p[2])
                   \/ Round(S, p[1]) = Round(S, p[2]) /\ Before(Leader(S, p[1]), Leader(S, p[2]), OriginAt)}
<1>1. IsFiniteSet(S) /\ OriginAt \in Int
  BY AirportsAreFinite, FS_Subset, CatalogAssumption
<1>2. ASSUME NEW a \in Airports, NEW b \in Airports
      PROVE  Before(a, b, OriginAt) <=> <<a, b>> \in FirstTo(OriginAt)
  BY DEF FirstTo
<1>3. Strict(Airports, FirstTo(OriginAt))
  BY <1>1, FirstToIsStrict
<1>4. ASSUME NEW a \in S
      PROVE  /\ a \in SameTown(S, a) /\ SameTown(S, a) \in SUBSET S /\ IsFiniteSet(SameTown(S, a))
             /\ Round(S, a) \in Nat
  <2>1. a \in SameTown(S, a) /\ SameTown(S, a) \in SUBSET S
    BY DEF SameTown
  <2>2. IsFiniteSet(SameTown(S, a))
    BY <1>1, <2>1, FS_Subset
  <2>3. {b \in SameTown(S, a) : Before(b, a, OriginAt)} \in SUBSET SameTown(S, a)
    OBVIOUS
  <2>4. IsFiniteSet({b \in SameTown(S, a) : Before(b, a, OriginAt)})
    BY <2>2, <2>3, FS_Subset
  <2> QED  BY <2>1, <2>2, <2>4, FS_CardinalityType DEF Round
<1>5. ASSUME NEW a \in S
      PROVE  Leader(S, a) \in SameTown(S, a)
  <2> DEFINE M == SameTown(S, a)
  <2>1. IsFiniteSet(M) /\ M \in SUBSET Airports /\ M # {}
    BY <1>4
  <2>2. Strict(M, FirstTo(OriginAt))
    BY <1>3, <2>1 DEF Strict
  <2> HIDE DEF M
  <2>3. Cardinality(M) \in Nat /\ Cardinality(M) # 0
    BY <2>1, FS_CardinalityType, FS_EmptySet
  <2>4. 1 \in 1..Cardinality(M) /\ 1 - 1 = 0
    BY <2>3
  <2>5. PICK b \in M : Cardinality({c \in M : <<c, b>> \in FirstTo(OriginAt)}) = 0
    BY <2>1, <2>2, <2>4, PlacesAreTaken
  <2>6. {c \in M : <<c, b>> \in FirstTo(OriginAt)} \in SUBSET M
    OBVIOUS
  <2>7. {c \in M : <<c, b>> \in FirstTo(OriginAt)} = {}
    BY <2>1, <2>5, <2>6, FS_Subset, FS_EmptySet
  <2>8. \A c \in M : b = c \/ <<b, c>> \in FirstTo(OriginAt)
    BY <2>2, <2>7 DEF Strict
  <2>9. \A c \in M : b = c \/ Before(b, c, OriginAt)
    BY <1>2, <2>1, <2>8
  <2>10. \E l \in SameTown(S, a) : \A c \in SameTown(S, a) : l = c \/ Before(l, c, OriginAt)
    BY <2>9 DEF M
  <2> QED  BY <2>10 DEF Leader
<1>6. ASSUME NEW a \in S, NEW b \in S, Leader(S, a) = Leader(S, b)
      PROVE  SameTown(S, a) = SameTown(S, b)
  BY <1>5, <1>6 DEF SameTown
<1>7. ASSUME NEW a \in S, NEW b \in S, SameTown(S, a) = SameTown(S, b), Before(a, b, OriginAt)
      PROVE  Round(S, a) # Round(S, b)
  <2> DEFINE below(x) == {c \in SameTown(S, a) : Before(c, x, OriginAt)}
  <2>1. ASSUME NEW x \in {a, b} PROVE Round(S, x) = Cardinality(below(x))
    BY <1>7 DEF Round
  <2>2. a \in Airports /\ b \in Airports /\ SameTown(S, a) \in SUBSET Airports
    BY <1>4
  <2>3. below(a) \in SUBSET below(b)
    BY <1>2, <1>3, <1>7, <2>2 DEF Strict
  <2>4. a \in below(b) /\ a \notin below(a)
    BY <1>2, <1>3, <1>4, <1>7, <2>2 DEF Strict
  <2>5. below(b) \in SUBSET SameTown(S, a)
    OBVIOUS
  <2>6. IsFiniteSet(below(b))
    BY <1>4, <2>5, FS_Subset
  <2> HIDE DEF below
  <2>7. Cardinality(below(a)) # Cardinality(below(b))
    BY <2>3, <2>4, <2>6, FS_Subset
  <2> QED  BY <2>1, <2>7
<1>8. ASSUME NEW a \in S PROVE Leader(S, a) \in Airports
  BY <1>4, <1>5
<1>9. ASSUME NEW a \in S, NEW b \in S
      PROVE  <<a, b>> \in R <=>
                 \/ Round(S, a) < Round(S, b)
                 \/ Round(S, a) = Round(S, b) /\ <<Leader(S, a), Leader(S, b)>> \in FirstTo(OriginAt)
  <2>1. Before(Leader(S, a), Leader(S, b), OriginAt) <=> <<Leader(S, a), Leader(S, b)>> \in FirstTo(OriginAt)
    BY <1>2, <1>8
  <2> QED  BY <2>1
<1> HIDE DEF R
<1>10. ASSUME NEW a \in S PROVE <<a, a>> \notin R
  <2>1. <<Leader(S, a), Leader(S, a)>> \notin FirstTo(OriginAt)
    BY <1>3, <1>8 DEF Strict
  <2> QED  BY <1>4, <1>9, <2>1
<1>11. ASSUME NEW a \in S, NEW b \in S, NEW c \in S, <<a, b>> \in R, <<b, c>> \in R
       PROVE  <<a, c>> \in R
  <2> DEFINE before(x, y) == <<Leader(S, x), Leader(S, y)>> \in FirstTo(OriginAt)
  <2>1. before(a, b) /\ before(b, c) => before(a, c)
    BY <1>3, <1>8 DEF Strict
  <2>2. /\ Round(S, a) < Round(S, b) \/ (Round(S, a) = Round(S, b) /\ before(a, b))
        /\ Round(S, b) < Round(S, c) \/ (Round(S, b) = Round(S, c) /\ before(b, c))
    BY <1>9, <1>11
  <2>3. Round(S, a) \in Nat /\ Round(S, b) \in Nat /\ Round(S, c) \in Nat
    BY <1>4
  <2> HIDE DEF before
  <2>4. Round(S, a) < Round(S, c) \/ (Round(S, a) = Round(S, c) /\ before(a, c))
    BY <2>1, <2>2, <2>3
  <2> QED  BY <1>9, <2>4 DEF before
<1>12. ASSUME NEW a \in S, NEW b \in S
       PROVE  a = b \/ <<a, b>> \in R \/ <<b, a>> \in R
  <2>0. Round(S, a) < Round(S, b) \/ Round(S, b) < Round(S, a) \/ Round(S, a) = Round(S, b)
    BY <1>4
  <2> SUFFICES ASSUME a # b, Round(S, a) = Round(S, b)
               PROVE  <<a, b>> \in R \/ <<b, a>> \in R
    BY <2>0, <1>9
  <2>1. Leader(S, a) # Leader(S, b)
    <3> SUFFICES ASSUME Leader(S, a) = Leader(S, b) PROVE FALSE
      OBVIOUS
    <3>1. SameTown(S, a) = SameTown(S, b)
      BY <1>6
    <3>2. Before(a, b, OriginAt) \/ Before(b, a, OriginAt)
      BY <1>2, <1>3 DEF Strict
    <3> QED  BY <1>7, <3>1, <3>2
  <2>2. \/ <<Leader(S, a), Leader(S, b)>> \in FirstTo(OriginAt)
        \/ <<Leader(S, b), Leader(S, a)>> \in FirstTo(OriginAt)
    BY <1>3, <1>8, <2>1 DEF Strict
  <2> QED  BY <1>9, <2>2
<1>13. Strict(S, R)
  BY <1>10, <1>11, <1>12 DEF Strict
<1>14. Ordered(S, R) \in Seq(S)
  BY <1>1, <1>13, OrderedType
<1> QED  BY <1>14 DEF Diverse, R

\* What the planner knows of the map and of its budgets.
Given == world \in Worlds /\ limits \in Settings

LEMMA PlacesType ==
    ASSUME Given
    PROVE  /\ Origins \in Seq(Airports) /\ Destinations \in Seq(Airports) /\ GeographicHubs \in Seq(Airports)
           /\ \A a \in Airports : Near(AroundHub[a]) \in Seq(Airports)
<1>1. limits.airports \in Nat /\ limits.hubs \in Nat
  BY SettingsAssumption DEF Given
<1>2. ASSUME NEW at \in Int, NEW radius PROVE Near(Around(at, radius)) \in Seq(Airports)
  BY <1>1, AroundType, FirstType DEF Near
<1>3. Origins \in Seq(Airports) /\ Destinations \in Seq(Airports)
  BY <1>2, CatalogAssumption DEF Origins, Destinations, AroundOrigin, AroundDestination
<1>4. DiverseHubs \in Seq(Airports)
  <2>1. AllHubs \in SUBSET Airports
    BY DEF AllHubs
  <2> QED  BY <2>1, DiverseType, ListOfMore DEF DiverseHubs
<1>5. GeographicHubs \in Seq(Airports)
  BY <1>1, <1>4, FirstType DEF GeographicHubs
<1>6. ASSUME NEW a \in Airports PROVE Near(AroundHub[a]) \in Seq(Airports)
  <2>1. Catalog[a].at \in Int /\ AroundHub[a] = Around(Catalog[a].at, RailRadius)
    BY CatalogAssumption DEF Airports, AroundHub
  <2> QED  BY <1>2, <2>1
<1> QED  BY <1>3, <1>5, <1>6

\* Pairs of airports, one of each list.
LEMMA PairsType ==
    ASSUME NEW A, NEW B, NEW from \in Seq(A), NEW to \in Seq(B)
    PROVE  Pairs(from, to) \in Seq(Between(A, B))
<1>1. ASSUME NEW a \in A, NEW b \in B PROVE Pair(a, b) \in Seq(Between(A, B))
  <2>1. Iata(a) # Iata(b) => <<a, b>> \in Between(A, B)
    BY DEF Between
  <2>2. Iata(a) # Iata(b) => <<<<a, b>>>> \in Seq(Between(A, B))
    BY <2>1
  <2>3. <<>> \in Seq(Between(A, B))
    OBVIOUS
  <2> QED  BY <2>2, <2>3 DEF Pair
<1>2. ASSUME NEW i \in 1..Len(to)
      PROVE  FlattenSeq([j \in DOMAIN from |-> Pair(from[j], to[i])]) \in Seq(Between(A, B))
  <2>1. [j \in DOMAIN from |-> Pair(from[j], to[i])] \in [1..Len(from) -> Seq(Between(A, B))]
    BY <1>1
  <2>2. [j \in DOMAIN from |-> Pair(from[j], to[i])] \in Seq(Seq(Between(A, B)))
    BY <2>1, IsASeq
  <2> QED  BY <2>2, FlattenSeqType
<1>3. [i \in DOMAIN to |-> FlattenSeq([j \in DOMAIN from |-> Pair(from[j], to[i])])] \in [1..Len(to) -> Seq(Between(A, B))]
  BY <1>2
<1>4. [i \in DOMAIN to |-> FlattenSeq([j \in DOMAIN from |-> Pair(from[j], to[i])])] \in Seq(Seq(Between(A, B)))
  BY <1>3, IsASeq
<1> QED  BY <1>4, FlattenSeqType DEF Pairs

LEMMA FlightPairsType ==
    ASSUME Given
    PROVE  FlightPairs \in Seq(Airports \X ToSet(Destinations))
<1> DEFINE S == ToSet(Origins) \cup ToSet(GeographicHubs)
<1>1. S \in SUBSET Airports /\ Destinations \in Seq(ToSet(Destinations))
  BY PlacesType, ListOfItsOwn
<1>2. Departures \in Seq(Airports)
  <2>1. Diverse(S) \in Seq(S)
    BY <1>1, DiverseType
  <2> QED  BY <1>1, <2>1, ListOfMore DEF Departures
<1>3. FlightPairs \in Seq(Between(Airports, ToSet(Destinations)))
  BY <1>1, <1>2, PairsType DEF FlightPairs
<1>4. Between(Airports, ToSet(Destinations)) \subseteq Airports \X ToSet(Destinations)
  BY DEF Between
<1> QED  BY <1>3, <1>4, ListOfMore

------------------------------------------------------------------------------
(***************************************************************************)
(* The tasks that may be on the agenda: what is asked for comes from the   *)
(* map, and what an answer is put to is what the map says it is.           *)
(***************************************************************************)
FlightSearches(A, B, purpose) == {FlightSearch(p, purpose) : p \in Between(A, B)}

\* Searches of trains and flights from the city to an airport.
Feeding(a, purpose) ==
    FlightSearches(ToSet(Origins), ToSet(Near(AroundHub[a])), purpose)
    \cup {Search("city", x, "train", purpose) : x \in Stops(a)}

\* Flights, and airports with paths, that must be reached by train or by air.
Distant == {leg \in Connecting : ~NearOrigin(HubOf(leg))}

Remote == {a \in Airports : ~NearOrigin(a)}

DirectSearches == FlightSearches(ToSet(Origins), ToSet(Destinations), Task("direct", 0))

IncomingSearches == FlightSearches(ToSet(GeographicHubs), ToSet(Destinations), Task("incoming", 0))

HubSearches == UNION {Feeding(HubOf(leg), Task("hub", leg)) : leg \in Distant}

AccessSearches == UNION {Feeding(a, Task("access", a)) : a \in Remote}

Begun == DirectSearches \cup IncomingSearches \cup HubSearches \cup AccessSearches

SearchTask(q, n, s) ==
    [do |-> "search", from |-> q.from, to |-> q.to, mode |-> q.mode, page |-> n, found |-> s, purpose |-> q.purpose]

SearchTasks ==
    UNION {{SearchTask(q, n, s) : n \in DOMAIN PagesOf(q.from, q.to), s \in Seq(LegsOf(q.from, q.to))} : q \in Begun}

UseTasks ==
    UNION {{[do |-> "use", leg |-> l, purpose |-> q.purpose] : l \in LegsOf(q.from, q.to)} : q \in Begun}

StationTask(a, purpose) == [do |-> "stations", hub |-> a, purpose |-> purpose]

StationTasks ==
    IF world.settlements = 1
    THEN {StationTask(HubOf(leg), Task("hub", leg)) : leg \in Distant} \cup {StationTask(a, Task("access", a)) : a \in Remote}
    ELSE {}

ArrivalTasks ==
    UNION {{[do |-> k, to |-> b, page |-> n] : k \in {"arrivals", "arrived"}, n \in DOMAIN ArrivalsOf(b)} :
           b \in ToSet(Destinations)}

ThreadTasks == UNION {{[do |-> "thread", thread |-> t, to |-> b] : t \in Threads(b)} : b \in ToSet(Destinations)}

FlightTasks == {Task("flight", leg) : leg \in Inbound}

\* The paths seen for a pair of airports on a date.
SeenOn(i, d) == ToSet(PathsOf(FlightPairs[i][1], FlightPairs[i][2], d))

CheckTasks == {[do |-> "paths", chain |-> i, date |-> d] : i \in DOMAIN chains, d \in ToSet(world.dates)}

ObserveTasks ==
    UNION {{[do |-> "observe", chain |-> i, date |-> d, legs |-> x] : x \in SeenOn(i, d)} :
           i \in DOMAIN chains, d \in ToSet(world.dates)}

ReachTasks == {Task("reach", a) : a \in Airports}

Dated(x, D) == \A d \in D : x \in SampledOn(ToSet(FlightPairs), d)

AddTasks ==
    {t \in {[do |-> "add", dates |-> D, legs |-> x] : D \in SUBSET ToSet(world.dates), x \in Sampled} :
        Dated(t.legs, t.dates)}

PlainTasks ==
    {Task("settlement", "origin"), Task("flights", "sort"), Task("google", "pairs"), Task("resolve", "access")}
    \cup {Task("combine", n) : n \in Nat \ {0}}

Tasks ==
    PlainTasks \cup SearchTasks \cup UseTasks \cup StationTasks \cup ArrivalTasks \cup ThreadTasks
    \cup FlightTasks \cup CheckTasks \cup ObserveTasks \cup ReachTasks \cup AddTasks

\* A task is one of those of its kind.
LEMMA TaskKinds ==
    ASSUME NEW t \in Tasks
    PROVE  /\ t.do = "search" => t \in SearchTasks
           /\ t.do = "use" => t \in UseTasks
           /\ t.do = "stations" => t \in StationTasks
           /\ t.do \in {"arrivals", "arrived"} => t \in ArrivalTasks
           /\ t.do = "thread" => t \in ThreadTasks
           /\ t.do = "flight" => t \in FlightTasks
           /\ t.do = "paths" => t \in CheckTasks
           /\ t.do = "observe" => t \in ObserveTasks
           /\ t.do = "reach" => t \in ReachTasks
           /\ t.do = "add" => t \in AddTasks
           /\ t.do = "combine" => t.subject \in Nat \ {0}
<1>1. CASE t \in SearchTasks
  BY <1>1 DEF SearchTasks, SearchTask
<1>2. CASE t \in UseTasks
  BY <1>2 DEF UseTasks
<1>3. CASE t \in StationTasks
  BY <1>3 DEF StationTasks, StationTask
<1>4. CASE t \in ArrivalTasks
  BY <1>4 DEF ArrivalTasks
<1>5. CASE t \in ThreadTasks
  BY <1>5 DEF ThreadTasks
<1>6. CASE t \in FlightTasks
  BY <1>6 DEF FlightTasks, Task
<1>7. CASE t \in CheckTasks
  BY <1>7 DEF CheckTasks
<1>8. CASE t \in ObserveTasks
  BY <1>8 DEF ObserveTasks
<1>9. CASE t \in ReachTasks
  BY <1>9 DEF ReachTasks, Task
<1>10. CASE t \in AddTasks
  BY <1>10 DEF AddTasks
<1>11. CASE t \in PlainTasks
  BY <1>11 DEF PlainTasks, Task
<1> QED
  BY <1>1, <1>2, <1>3, <1>4, <1>5, <1>6, <1>7, <1>8, <1>9, <1>10, <1>11 DEF Tasks

\* The pages of an answer: at least one, each with finitely many legs.
LEMMA PagesType ==
    ASSUME Given, NEW x, NEW y
    PROVE  /\ DOMAIN PagesOf(x, y) = 1..Len(PagesOf(x, y)) /\ Len(PagesOf(x, y)) \in Nat \ {0}
           /\ \A n \in DOMAIN PagesOf(x, y) : IsFiniteSet(PagesOf(x, y)[n]) /\ PagesOf(x, y)[n] \subseteq LegsOf(x, y)
<1>1. /\ PagesOf(x, y) \in Seq(ToSet(PagesOf(x, y))) /\ PagesOf(x, y) # <<>>
      /\ \A page \in ToSet(PagesOf(x, y)) : IsFiniteSet(page)
  <2>1. CASE <<x, y>> \in DOMAIN world.legs
    BY <2>1, WorldsAssumption DEF Given, PagesOf
  <2>2. CASE <<x, y>> \notin DOMAIN world.legs
    <3>1. PagesOf(x, y) = <<{}>>
      BY <2>2 DEF PagesOf
    <3>2. IsFiniteSet({}) /\ <<{}>> \in Seq({{}}) /\ <<{}>> # <<>>
      BY FS_EmptySet
    <3>3. ToSet(<<{}>>) = {{}}
      BY DEF ToSet
    <3> QED  BY <3>1, <3>2, <3>3
  <2> QED  BY <2>1, <2>2
<1>2. Len(PagesOf(x, y)) \in Nat /\ DOMAIN PagesOf(x, y) = 1..Len(PagesOf(x, y)) /\ Len(PagesOf(x, y)) # 0
  BY <1>1
<1> QED  BY <1>1, <1>2 DEF ToSet, LegsOf

\* The pages of arrivals: at least one, each a list of threads with finitely many legs.
LEMMA ArrivalsType ==
    ASSUME Given, NEW b
    PROVE  /\ DOMAIN ArrivalsOf(b) = 1..Len(ArrivalsOf(b)) /\ Len(ArrivalsOf(b)) \in Nat \ {0}
           /\ \A n \in DOMAIN ArrivalsOf(b) : ArrivalsOf(b)[n] \in Seq(Threads(b))
           /\ \A t \in Threads(b) : IsFiniteSet(t.legs)
<1>1. /\ ArrivalsOf(b) \in Seq(ToSet(ArrivalsOf(b))) /\ ArrivalsOf(b) # <<>>
      /\ \A page \in ToSet(ArrivalsOf(b)) : page \in Seq(ToSet(page)) /\ \A t \in ToSet(page) : IsFiniteSet(t.legs)
  <2>1. CASE Iata(b) \in DOMAIN world.arrivals
    BY <2>1, WorldsAssumption DEF Given, ArrivalsOf
  <2>2. CASE Iata(b) \notin DOMAIN world.arrivals
    <3>1. ArrivalsOf(b) = <<<<>>>>
      BY <2>2 DEF ArrivalsOf
    <3>2. ToSet(<<<<>>>>) = {<<>>} /\ ToSet(<<>>) = {} /\ <<<<>>>> \in Seq({<<>>}) /\ <<<<>>>> # <<>> /\ <<>> \in Seq({})
      BY DEF ToSet
    <3> QED  BY <3>1, <3>2
  <2> QED  BY <2>1, <2>2
<1>2. Len(ArrivalsOf(b)) \in Nat /\ DOMAIN ArrivalsOf(b) = 1..Len(ArrivalsOf(b)) /\ Len(ArrivalsOf(b)) # 0
  BY <1>1
<1>3. ASSUME NEW n \in DOMAIN ArrivalsOf(b) PROVE ArrivalsOf(b)[n] \in Seq(Threads(b))
  <2>1. ArrivalsOf(b)[n] \in Seq(ToSet(ArrivalsOf(b)[n]))
    BY <1>1 DEF ToSet
  <2>2. ToSet(ArrivalsOf(b)[n]) \subseteq Threads(b)
    BY DEF Threads
  <2> QED  BY <2>1, <2>2, ListOfMore
<1>4. ASSUME NEW t \in Threads(b) PROVE IsFiniteSet(t.legs)
  <2>1. PICK n \in DOMAIN ArrivalsOf(b) : t \in ToSet(ArrivalsOf(b)[n])
    BY DEF Threads
  <2>2. ArrivalsOf(b)[n] \in ToSet(ArrivalsOf(b))
    BY <2>1 DEF ToSet
  <2> QED  BY <1>1, <2>1, <2>2
<1> QED  BY <1>2, <1>3, <1>4

LEMMA StationsType ==
    ASSUME Given, NEW a
    PROVE  StationsOf(a) \in Seq(ToSet(StationsOf(a)))
<1>1. <<>> \in Seq(ToSet(<<>>))
  OBVIOUS
<1> QED  BY <1>1, WorldsAssumption DEF Given, StationsOf

\* A search begins at its first page, with nothing found.
LEMMA BegunIsSearched ==
    ASSUME Given, NEW q \in Begun
    PROVE  q \in SearchTasks /\ q = SearchTask(q, 1, <<>>)
<1>1. q = SearchTask(q, 1, <<>>)
  <2>1. ASSUME NEW A, NEW B, NEW purpose, q \in FlightSearches(A, B, purpose) PROVE q = SearchTask(q, 1, <<>>)
    BY <2>1 DEF FlightSearches, FlightSearch, Search, SearchTask
  <2>2. ASSUME NEW a, NEW purpose, q \in Feeding(a, purpose) PROVE q = SearchTask(q, 1, <<>>)
    BY <2>1, <2>2 DEF Feeding, Search, SearchTask
  <2>3. CASE q \in DirectSearches \cup IncomingSearches
    BY <2>1, <2>3 DEF DirectSearches, IncomingSearches
  <2>4. CASE q \in HubSearches
    BY <2>2, <2>4 DEF HubSearches
  <2>5. CASE q \in AccessSearches
    BY <2>2, <2>5 DEF AccessSearches
  <2> QED  BY <2>3, <2>4, <2>5 DEF Begun
<1>2. 1 \in DOMAIN PagesOf(q.from, q.to) /\ <<>> \in Seq(LegsOf(q.from, q.to))
  BY PagesType
<1>3. PICK e \in Seq(LegsOf(q.from, q.to)) : e = <<>>
  BY <1>2
<1>4. SearchTask(q, 1, e) \in SearchTasks
  BY <1>2 DEF SearchTasks
<1> QED  BY <1>1, <1>3, <1>4

\* What is found serves the purpose of the search.
LEMMA FoundServes ==
    ASSUME NEW q \in Begun, NEW l \in LegsOf(q.from, q.to)
    PROVE  LET p == q.purpose
           IN  \/ p = Task("direct", 0) /\ l \in DirectLegs
               \/ p = Task("incoming", 0) /\ l \in Inbound
               \/ \E leg \in Distant : p = Task("hub", leg) /\ l \in FeederLegs(HubOf(leg))
               \/ \E a \in Remote : p = Task("access", a) /\ l \in FeederLegs(a)
<1>1. ASSUME NEW A, NEW B, NEW purpose, q \in FlightSearches(A, B, purpose)
      PROVE  q.purpose = purpose /\ l \in LegsAcross(A, B)
  <2>1. PICK p \in Between(A, B) : q = FlightSearch(p, purpose)
    BY <1>1 DEF FlightSearches
  <2>2. q.purpose = purpose /\ q.from = Iata(p[1]) /\ q.to = Iata(p[2])
    BY <2>1 DEF FlightSearch, Search
  <2> QED  BY <2>2 DEF LegsAcross
<1>2. ASSUME NEW a, NEW purpose, q \in Feeding(a, purpose)
      PROVE  q.purpose = purpose /\ l \in FeederLegs(a)
  <2>1. CASE q \in FlightSearches(ToSet(Origins), ToSet(Near(AroundHub[a])), purpose)
    BY <1>1, <2>1 DEF FeederLegs, LocalLegs
  <2>2. CASE q \notin FlightSearches(ToSet(Origins), ToSet(Near(AroundHub[a])), purpose)
    <3>1. PICK x \in Stops(a) : q = Search("city", x, "train", purpose)
      BY <1>2, <2>2 DEF Feeding
    <3>2. q.from = "city" /\ q.to = x /\ q.purpose = purpose
      BY <3>1 DEF Search
    <3> QED  BY <3>1, <3>2 DEF FeederLegs, TrainLegs
  <2> QED  BY <2>1, <2>2
<1>3. CASE q \in FlightSearches(ToSet(Origins), ToSet(Destinations), Task("direct", 0))
  BY <1>1, <1>3 DEF DirectLegs
<1>4. CASE q \in FlightSearches(ToSet(GeographicHubs), ToSet(Destinations), Task("incoming", 0))
  BY <1>1, <1>4 DEF Inbound, Listed
<1>5. CASE \E leg \in Distant : q \in Feeding(HubOf(leg), Task("hub", leg))
  BY <1>2, <1>5
<1>6. CASE \E a \in Remote : q \in Feeding(a, Task("access", a))
  BY <1>2, <1>6
<1>7. \/ q \in FlightSearches(ToSet(Origins), ToSet(Destinations), Task("direct", 0))
      \/ q \in FlightSearches(ToSet(GeographicHubs), ToSet(Destinations), Task("incoming", 0))
      \/ \E leg \in Distant : q \in Feeding(HubOf(leg), Task("hub", leg))
      \/ \E a \in Remote : q \in Feeding(a, Task("access", a))
  <2>1. q \in HubSearches => \E leg \in Distant : q \in Feeding(HubOf(leg), Task("hub", leg))
    BY DEF HubSearches
  <2>2. q \in AccessSearches => \E a \in Remote : q \in Feeding(a, Task("access", a))
    BY DEF AccessSearches
  <2> QED  BY <2>1, <2>2 DEF Begun, DirectSearches, IncomingSearches
<1> QED  BY <1>3, <1>4, <1>5, <1>6, <1>7

LEMMA SearchesType ==
    ASSUME NEW A, NEW B, NEW ps \in Seq(Between(A, B)), NEW purpose
    PROVE  Searches(ps, purpose) \in Seq(FlightSearches(A, B, purpose))
<1>1. Searches(ps, purpose) \in [1..Len(ps) -> FlightSearches(A, B, purpose)]
  BY DEF Searches, FlightSearches
<1> QED  BY <1>1, IsASeq

\* The pairs of airports, ordered the other way round.
LEMMA PairsFromEachType ==
    ASSUME NEW A, NEW B, NEW from \in Seq(A), NEW to \in Seq(B)
    PROVE  PairsFromEach(from, to) \in Seq(Between(A, B))
<1>1. ASSUME NEW i \in 1..Len(from) PROVE Pairs(<<from[i]>>, to) \in Seq(Between(A, B))
  <2>1. <<from[i]>> \in Seq(A)
    OBVIOUS
  <2> QED  BY <2>1, PairsType
<1>2. [i \in DOMAIN from |-> Pairs(<<from[i]>>, to)] \in [1..Len(from) -> Seq(Between(A, B))]
  BY <1>1
<1>3. [i \in DOMAIN from |-> Pairs(<<from[i]>>, to)] \in Seq(Seq(Between(A, B)))
  BY <1>2, IsASeq
<1> QED  BY <1>3, FlattenSeqType DEF PairsFromEach

\* The way to a distant airport is looked for by train and by air.
LEMMA ApproachType ==
    ASSUME Given, city => world.settlements = 1, NEW a \in Airports, NEW purpose, NEW T,
           Feeding(a, purpose) \subseteq T, world.settlements = 1 => StationTask(a, purpose) \in T
    PROVE  Approach(a, purpose) \in Seq(T)
<1> DEFINE feeders == Near(AroundHub[a])
<1>1. feeders \in Seq(ToSet(feeders)) /\ Origins \in Seq(ToSet(Origins))
  BY PlacesType, ListOfItsOwn
<1>2. Pairs(Origins, feeders) \in Seq(Between(ToSet(Origins), ToSet(feeders)))
  BY <1>1, PairsType
<1>3. Searches(Pairs(Origins, feeders), purpose) \in Seq(T)
  <2>1. FlightSearches(ToSet(Origins), ToSet(feeders), purpose) \subseteq T
    BY DEF Feeding
  <2>2. Searches(Pairs(Origins, feeders), purpose) \in Seq(FlightSearches(ToSet(Origins), ToSet(feeders), purpose))
    BY <1>2, SearchesType
  <2> QED  BY <2>1, <2>2, ListOfMore
<1>4. (IF city THEN <<[do |-> "stations", hub |-> a, purpose |-> purpose]>> ELSE <<>>) \in Seq(T)
  <2>1. CASE city
    <3>1. StationTask(a, purpose) \in T
      BY <2>1
    <3> QED  BY <2>1, <3>1 DEF StationTask
  <2>2. CASE ~city
    BY <2>2
  <2> QED  BY <2>1, <2>2
<1> QED  BY <1>3, <1>4, ConcatProperties DEF Approach

------------------------------------------------------------------------------
(***************************************************************************)
(* The schemes kept, cs, when sn are the topologies seen: each is one of   *)
(* F, with dates as M has them, and none is kept twice.                    *)
(***************************************************************************)
KeptOf(cs) == UNION {Schemes(cs[i]) : i \in DOMAIN cs}

\* A candidate alone.
Proper(c, M) ==
    /\ <<c.legs, c.dates>> \in M
    /\ IsInjective(c.variants)
    /\ c.variants = <<>> <=> AccessKey(c.legs) = <<>>

Sane(cs, sn, F, M) ==
    /\ cs \in Seq([legs : F, dates : {p[2] : p \in M}, variants : Seq({x[1] : x \in F})])
    /\ \A i \in DOMAIN cs : Proper(cs[i], M)
    /\ sn = KeptOf(cs) /\ sn \subseteq F
    /\ \A i, j \in DOMAIN cs : i # j => Schemes(cs[i]) \cap Schemes(cs[j]) = {}

\* A scheme is made of its first leg and the others.
LEMMA FirstAndRest ==
    ASSUME NEW x, x \in Seq(ToSet(x)), x # <<>>
    PROVE  <<x[1]>> \o Tail(x) = x
<1> DEFINE U == ToSet(x)
<1>1. x \in Seq(U) /\ Len(x) \in Nat /\ Len(x) # 0
  OBVIOUS
<1> HIDE DEF U
<1>2. <<x[1]>> \in Seq(U) /\ Tail(x) \in Seq(U) /\ Len(<<x[1]>>) = 1 /\ Len(Tail(x)) = Len(x) - 1
  BY <1>1
<1>3. Len(<<x[1]>> \o Tail(x)) = Len(x) /\ <<x[1]>> \o Tail(x) \in Seq(U)
  BY <1>1, <1>2
<1>4. ASSUME NEW i \in 1..Len(x) PROVE (<<x[1]>> \o Tail(x))[i] = x[i]
  BY <1>1, <1>2
<1> QED  BY <1>1, <1>3, <1>4, SeqEqual

LEMMA NewCandidate ==
    ASSUME NEW cs, NEW sn, NEW F, NEW M, Sane(cs, sn, F, M),
           NEW legs \in F, legs \notin sn, legs \in Seq(ToSet(legs)), legs # <<>>,
           NEW dates, <<legs, dates>> \in M
    PROVE  Sane(Append(cs, Candidate(legs, dates)), sn \cup {legs}, F, M)
<1> DEFINE c == Candidate(legs, dates)
           T == [legs : F, dates : {p[2] : p \in M}, variants : Seq({x[1] : x \in F})]
           more == Append(cs, c)
<1>1. c.legs = legs /\ c.dates = dates /\ c.variants = IF AccessKey(legs) = <<>> THEN <<>> ELSE <<legs[1]>>
  BY DEF Candidate
<1>2. c \in T
  <2>1. dates \in {p[2] : p \in M}
    <3>1. <<legs, dates>>[2] = dates
      OBVIOUS
    <3> QED  BY <3>1
  <2>2. <<legs[1]>> \in Seq({x[1] : x \in F}) /\ <<>> \in Seq({x[1] : x \in F})
    OBVIOUS
  <2>3. (IF AccessKey(legs) = <<>> THEN <<>> ELSE <<legs[1]>>) \in Seq({x[1] : x \in F})
    BY <2>2
  <2> QED  BY <2>1, <2>3 DEF Candidate
<1>3. Schemes(c) = {legs}
  <2>1. CASE AccessKey(legs) = <<>>
    BY <1>1, <2>1 DEF Schemes
  <2>2. CASE AccessKey(legs) # <<>>
    <3>1. c.variants = <<legs[1]>> /\ c.variants # <<>> /\ DOMAIN c.variants = {1} /\ c.variants[1] = legs[1]
      BY <1>1, <2>2
    <3>2. Schemes(c) = {<<legs[1]>> \o Tail(legs)}
      BY <1>1, <3>1 DEF Schemes
    <3> QED  BY <3>2, FirstAndRest
  <2> QED  BY <2>1, <2>2
<1>4. Proper(c, M)
  <2>1. IsInjective(c.variants)
    BY <1>1 DEF IsInjective
  <2>2. c.variants = <<>> <=> AccessKey(c.legs) = <<>>
    BY <1>1
  <2> QED  BY <1>1, <2>1, <2>2 DEF Proper
<1> HIDE DEF c, T
<1>5. cs \in Seq(T) /\ Len(cs) \in Nat /\ DOMAIN cs = 1..Len(cs)
  BY DEF Sane, T
<1>6. /\ more \in Seq(T) /\ DOMAIN more = DOMAIN cs \cup {Len(cs) + 1} /\ Len(cs) + 1 \notin DOMAIN cs
      /\ more[Len(cs) + 1] = c /\ \A i \in DOMAIN cs : more[i] = cs[i]
  BY <1>2, <1>5
<1> HIDE DEF more
<1>7. KeptOf(more) = KeptOf(cs) \cup {legs}
  BY <1>3, <1>6 DEF KeptOf
<1>8. ASSUME NEW i \in DOMAIN cs PROVE legs \notin Schemes(cs[i])
  BY DEF Sane, KeptOf
<1>9. ASSUME NEW i \in DOMAIN more, NEW j \in DOMAIN more, i # j
      PROVE  Schemes(more[i]) \cap Schemes(more[j]) = {}
  <2>1. CASE i \in DOMAIN cs /\ j \in DOMAIN cs
    BY <1>6, <1>9, <2>1 DEF Sane
  <2>2. CASE i \notin DOMAIN cs \/ j \notin DOMAIN cs
    BY <1>3, <1>6, <1>8, <1>9, <2>2
  <2> QED  BY <2>1, <2>2
<1>10. \A i \in DOMAIN more : Proper(more[i], M)
  BY <1>4, <1>6 DEF Sane
<1>11. Sane(more, sn \cup {legs}, F, M)
  BY <1>6, <1>7, <1>9, <1>10 DEF Sane, T
<1> QED  BY <1>11 DEF more, c

LEMMA NewVariant ==
    ASSUME NEW cs, NEW sn, NEW F, NEW M, Sane(cs, sn, F, M),
           NEW legs \in F, legs \notin sn, legs \in Seq(ToSet(legs)), legs # <<>>,
           NEW i \in DOMAIN cs, AccessKey(legs) # <<>>, AccessKey(cs[i].legs) = AccessKey(legs)
    PROVE  Sane([cs EXCEPT ![i].variants = Append(@, legs[1])], sn \cup {legs}, F, M)
<1> DEFINE c == cs[i]
           v == Append(c.variants, legs[1])
           e == [c EXCEPT !.variants = v]
           V == {x[1] : x \in F}
           T == [legs : F, dates : {p[2] : p \in M}, variants : Seq(V)]
           more == [cs EXCEPT ![i] = e]
<1>0. more = [cs EXCEPT ![i].variants = Append(@, legs[1])]
  OBVIOUS
<1>1. cs \in Seq(T) /\ DOMAIN cs = 1..Len(cs) /\ Len(cs) \in Nat /\ c \in T
  <2>1. cs \in Seq(T)
    BY DEF Sane
  <2> HIDE DEF T
  <2> QED  BY <2>1
<1>2. c.variants \in Seq(V) /\ c.variants # <<>> /\ IsInjective(c.variants) /\ <<c.legs, c.dates>> \in M
  BY <1>1 DEF Sane, Proper
<1>3. Tail(c.legs) = Tail(legs)
  <2>1. AccessKey(legs) = <<<<legs[1].from>>, Tail(legs)>> /\ AccessKey(c.legs) = <<<<c.legs[1].from>>, Tail(c.legs)>>
    BY DEF AccessKey
  <2>2. <<<<legs[1].from>>, Tail(legs)>>[2] = Tail(legs) /\ <<<<c.legs[1].from>>, Tail(c.legs)>>[2] = Tail(c.legs)
    OBVIOUS
  <2> QED  BY <2>1, <2>2
<1>4. legs[1] \in V
  OBVIOUS
<1> HIDE DEF V
<1>5. /\ v \in Seq(V) /\ v # <<>> /\ DOMAIN v = DOMAIN c.variants \cup {Len(c.variants) + 1}
      /\ Len(c.variants) + 1 \notin DOMAIN c.variants /\ v[Len(c.variants) + 1] = legs[1]
      /\ \A k \in DOMAIN c.variants : v[k] = c.variants[k]
  BY <1>2, <1>4
<1>6. e \in T /\ e.legs = c.legs /\ e.dates = c.dates /\ e.variants = v
  BY <1>1, <1>5
<1> HIDE DEF v, e, c
<1>7. Schemes(c) = {<<c.variants[k]>> \o Tail(legs) : k \in DOMAIN c.variants}
  BY <1>2, <1>3 DEF Schemes
<1>8. Schemes(e) = {<<v[k]>> \o Tail(legs) : k \in DOMAIN v}
  <2>1. Schemes(e) = {<<e.variants[k]>> \o Tail(e.legs) : k \in DOMAIN e.variants}
    BY <1>5, <1>6 DEF Schemes
  <2>2. e.variants = v /\ Tail(e.legs) = Tail(legs)
    BY <1>3, <1>6
  <2> QED  BY <2>1, <2>2
<1>9. <<legs[1]>> \o Tail(legs) = legs
  BY FirstAndRest
<1>10. Schemes(e) = Schemes(c) \cup {legs}
  <2>1. ASSUME NEW k \in DOMAIN v PROVE <<v[k]>> \o Tail(legs) \in Schemes(c) \cup {legs}
    <3>1. CASE k \in DOMAIN c.variants
      <4>1. <<c.variants[k]>> \o Tail(legs) \in Schemes(c)
        BY <1>7, <3>1
      <4> QED  BY <1>5, <3>1, <4>1
    <3>2. CASE k = Len(c.variants) + 1
      BY <1>5, <1>9, <3>2
    <3> QED  BY <1>5, <3>1, <3>2
  <2>2. ASSUME NEW k \in DOMAIN c.variants PROVE <<c.variants[k]>> \o Tail(legs) \in Schemes(e)
    <3>1. k \in DOMAIN v /\ v[k] = c.variants[k]
      BY <1>5
    <3>2. <<v[k]>> \o Tail(legs) \in Schemes(e)
      BY <1>8, <3>1
    <3> QED  BY <3>1, <3>2
  <2>3. legs \in Schemes(e)
    <3>1. Len(c.variants) + 1 \in DOMAIN v /\ v[Len(c.variants) + 1] = legs[1]
      BY <1>5
    <3>2. <<v[Len(c.variants) + 1]>> \o Tail(legs) \in Schemes(e)
      BY <1>8, <3>1
    <3> QED  BY <1>9, <3>1, <3>2
  <2>4. Schemes(e) \subseteq Schemes(c) \cup {legs}
    BY <1>8, <2>1
  <2>5. Schemes(c) \subseteq Schemes(e)
    BY <1>7, <2>2
  <2> QED  BY <2>3, <2>4, <2>5
<1>11. ASSUME NEW j \in DOMAIN cs PROVE legs \notin Schemes(cs[j])
  BY DEF Sane, KeptOf
<1>12. legs \notin Schemes(c)
  BY <1>11 DEF c
<1>13. ASSUME NEW k \in DOMAIN c.variants PROVE c.variants[k] # legs[1]
  BY <1>7, <1>9, <1>12
<1>14. IsInjective(v)
  BY <1>2, <1>5, <1>13 DEF IsInjective
<1>15. Proper(e, M)
  <2>1. AccessKey(e.legs) # <<>>
    BY <1>6 DEF c
  <2> QED  BY <1>2, <1>5, <1>6, <1>14, <2>1 DEF Proper
<1> HIDE DEF T
<1>16. /\ more \in Seq(T) /\ DOMAIN more = DOMAIN cs
       /\ more[i] = e /\ \A j \in DOMAIN cs : j # i => more[j] = cs[j]
  BY <1>1, <1>6
<1> HIDE DEF more
<1>17. KeptOf(more) = KeptOf(cs) \cup {legs}
  BY <1>10, <1>16 DEF KeptOf, c
<1>18. ASSUME NEW j \in DOMAIN cs, NEW k \in DOMAIN cs, j # k
       PROVE  Schemes(more[j]) \cap Schemes(more[k]) = {}
  <2>1. Schemes(cs[j]) \cap Schemes(cs[k]) = {}
    BY <1>18 DEF Sane
  <2>2. CASE j # i /\ k # i
    BY <1>16, <2>1, <2>2
  <2>3. CASE j = i
    BY <1>10, <1>11, <1>16, <1>18, <2>1, <2>3 DEF c
  <2>4. CASE k = i
    BY <1>10, <1>11, <1>16, <1>18, <2>1, <2>4 DEF c
  <2> QED  BY <2>2, <2>3, <2>4
<1>19. \A j \in DOMAIN more : Proper(more[j], M)
  BY <1>15, <1>16 DEF Sane
<1>20. Sane(more, sn \cup {legs}, F, M)
  BY <1>16, <1>17, <1>18, <1>19 DEF Sane, T, V
<1> QED  BY <1>0, <1>20

------------------------------------------------------------------------------
(* Findable schemes *)
LEMMA PathsType ==
    ASSUME Given, NEW a, NEW b, NEW d
    PROVE  /\ PathsOf(a, b, d) \in Seq(ToSet(PathsOf(a, b, d)))
           /\ \A path \in ToSet(PathsOf(a, b, d)) : path \in Seq(ToSet(path)) /\ path # <<>>
<1>1. CASE <<Iata(a), Iata(b), d>> \in DOMAIN world.paths
  BY <1>1, WorldsAssumption DEF Given, PathsOf
<1>2. CASE <<Iata(a), Iata(b), d>> \notin DOMAIN world.paths
  <2>1. PathsOf(a, b, d) = <<>>
    BY <1>2 DEF PathsOf
  <2>2. ToSet(<<>>) = {} /\ <<>> \in Seq({})
    BY DEF ToSet
  <2> QED  BY <2>1, <2>2
<1> QED  BY <1>1, <1>2

\* One leg, or nothing, before a list.
LEMMA FedIsList ==
    ASSUME NEW a, NEW w \in Feeders(a), NEW s, s \in Seq(ToSet(s)), s # <<>>
    PROVE  w \o s \in Seq(ToSet(w \o s)) /\ w \o s # <<>>
<1>1. \E U : w \in Seq(U)
  <2>1. CASE w = <<>>
    BY <2>1
  <2>2. CASE w # <<>>
    <3>1. PICK leg \in FeederLegs(a) : w = <<leg>>
      BY <2>2 DEF Feeders
    <3>2. <<leg>> \in Seq({leg})
      OBVIOUS
    <3> QED  BY <3>1, <3>2
  <2> QED  BY <2>1, <2>2
<1>2. PICK U : w \in Seq(U)
  BY <1>1
<1> DEFINE W == U \cup ToSet(s)
<1>3. w \in Seq(W) /\ s \in Seq(W)
  BY <1>2, SeqMonotonic
<1> HIDE DEF W
<1>4. w \o s \in Seq(W) /\ Len(w \o s) = Len(w) + Len(s) /\ Len(s) # 0 /\ Len(w) \in Nat /\ Len(s) \in Nat
  BY <1>3, ConcatProperties
<1>5. w \o s # <<>>
  BY <1>4
<1> QED  BY <1>4, <1>5, ListOfItsOwn

LEMMA FindableAreLists ==
    ASSUME Given, NEW x \in Findable
    PROVE  x \in Seq(ToSet(x)) /\ x # <<>>
<1>1. ASSUME NEW leg PROVE <<leg>> \in Seq(ToSet(<<leg>>)) /\ <<leg>> # <<>>
  <2>1. <<leg>> \in Seq({leg}) /\ <<leg>> # <<>>
    OBVIOUS
  <2> QED  BY <2>1, ListOfItsOwn
<1>2. CASE x \in Direct
  BY <1>1, <1>2 DEF Direct
<1>3. CASE x \in Joined
  <2>1. PICK leg \in Connecting : x \in {w \o <<leg>> : w \in {v \in Feeders(HubOf(leg)) : Onward(v, leg)}}
    BY <1>3 DEF Joined
  <2>2. PICK w \in Feeders(HubOf(leg)) : x = w \o <<leg>>
    BY <2>1
  <2> QED  BY <1>1, <2>2, FedIsList
<1>4. CASE x \in Sampled
  <2>1. PICK d \in ToSet(world.dates) : x \in SampledOn(ToSet(FlightPairs), d)
    BY <1>4 DEF Sampled
  <2>2. PICK p \in ToSet(FlightPairs) : x \in UNION {{w \o path : w \in Feeders(p[1])} : path \in ToSet(PathsOf(p[1], p[2], d))}
    BY <2>1 DEF SampledOn
  <2>3. PICK path \in ToSet(PathsOf(p[1], p[2], d)) : x \in {w \o path : w \in Feeders(p[1])}
    BY <2>2
  <2>4. PICK w \in Feeders(p[1]) : x = w \o path
    BY <2>3
  <2> QED  BY <2>4, PathsType, FedIsList
<1> QED  BY <1>2, <1>3, <1>4 DEF Findable

------------------------------------------------------------------------------
(***************************************************************************)
(* The inductive invariant: the budgets and the map stay those of the      *)
(* plan, the agenda holds such tasks, the flights and paths seen are those *)
(* of the map, and the schemes kept are sane.                              *)
(***************************************************************************)
Marks == {p \in Findable \X (SUBSET ToSet(world.dates)) : Dated(p[1], p[2])}

\* Paths seen for a pair of airports, with the dates on which they were.
SeenPaths(i) ==
    {s \in [legs : UNION {SeenOn(i, d) : d \in ToSet(world.dates)}, dates : SUBSET ToSet(world.dates)] :
        s.dates # {} /\ \A d \in s.dates : s.legs \in SeenOn(i, d)}

FlightsKnown ==
    /\ Given
    /\ city => world.settlements = 1
    /\ incoming \in Seq(Inbound)

PathsKnown ==
    /\ DOMAIN chains = {} \/ (limits.flights # 0 /\ DOMAIN chains = DOMAIN FlightPairs)
    /\ \A i \in DOMAIN chains :
        /\ chains[i] = [from |-> FlightPairs[i][1], to |-> FlightPairs[i][2], paths |-> chains[i].paths]
        /\ chains[i].paths \in Seq(SeenPaths(i))

WaysKnown == \A a \in DOMAIN access : access[a] \in Seq(Feeders(a))

Planned ==
    /\ FlightsKnown /\ PathsKnown /\ WaysKnown
    /\ agenda \in Seq(Tasks)
    /\ Sane(candidates, seen, Findable, Marks)

\* The map and the budgets of a plan stay, and so does what is said of them.
LEMMA MapStays ==
    ASSUME UNCHANGED <<world, limits>>
    PROVE  /\ Origins' = Origins /\ Destinations' = Destinations /\ GeographicHubs' = GeographicHubs
           /\ FlightPairs' = FlightPairs /\ Inbound' = Inbound /\ Connecting' = Connecting
           /\ Findable' = Findable /\ Sampled' = Sampled
           /\ \A a : Feeders(a)' = Feeders(a)
           /\ \A ps, d : SampledOn(ps, d)' = SampledOn(ps, d)
           /\ \A x, y : LegsOf(x, y)' = LegsOf(x, y) /\ PagesOf(x, y)' = PagesOf(x, y)
           /\ \A a, b, d : PathsOf(a, b, d)' = PathsOf(a, b, d)
           /\ \A a : Near(AroundHub[a])' = Near(AroundHub[a]) /\ Stops(a)' = Stops(a)
           /\ \A b : ArrivalsOf(b)' = ArrivalsOf(b) /\ Threads(b)' = Threads(b)
<1>1. /\ Origins' = Origins /\ Destinations' = Destinations /\ GeographicHubs' = GeographicHubs
  BY DEF Origins, Destinations, GeographicHubs, Near
<1>2. FlightPairs' = FlightPairs
  BY <1>1 DEF FlightPairs, Departures
<1>3. \A x, y : LegsOf(x, y)' = LegsOf(x, y) /\ PagesOf(x, y)' = PagesOf(x, y)
  BY DEF LegsOf, PagesOf
<1>4. \A a, b, d : PathsOf(a, b, d)' = PathsOf(a, b, d)
  BY DEF PathsOf
<1>5. \A a : Near(AroundHub[a])' = Near(AroundHub[a]) /\ Stops(a)' = Stops(a)
  BY DEF Near, Stops, StationsOf
<1>6. \A b : ArrivalsOf(b)' = ArrivalsOf(b) /\ Threads(b)' = Threads(b)
  BY DEF ArrivalsOf, Threads
<1>7. Inbound' = Inbound
  BY DEF Inbound, Listed, LegsAcross, Arriving, Threads, ArrivalsOf, LegsOf, PagesOf, Destinations, GeographicHubs, Near
<1>8. Connecting' = Connecting
  BY <1>7 DEF Connecting
<1>9. \A a : Feeders(a)' = Feeders(a)
  BY DEF Feeders, FeederLegs, TrainLegs, LocalLegs, LegsAcross, Stops, StationsOf, LegsOf, PagesOf, Origins, Near
<1>10. \A ps, d : SampledOn(ps, d)' = SampledOn(ps, d)
  BY DEF SampledOn, Feeders, FeederLegs, TrainLegs, LocalLegs, LegsAcross, Stops, StationsOf, PathsOf, LegsOf, PagesOf, Origins, Near
<1>11. Sampled' = Sampled
  BY DEF Sampled, SampledOn, FlightPairs, Departures, Feeders, FeederLegs, TrainLegs, LocalLegs, LegsAcross, Stops, StationsOf,
         PathsOf, LegsOf, PagesOf, Origins, Destinations, GeographicHubs, Near
<1>12. Findable' = Findable
  BY DEF Findable, Direct, DirectLegs, LegsAcross, Joined, Connecting, Inbound, Listed, Arriving, Sampled, SampledOn, FlightPairs,
         Departures, Feeders, FeederLegs, TrainLegs, LocalLegs, LegsAcross, Stops, StationsOf, PathsOf, Threads, ArrivalsOf, LegsOf,
         PagesOf, Origins, Destinations, GeographicHubs, Near
<1> QED
  BY <1>1, <1>2, <1>3, <1>4, <1>5, <1>6, <1>7, <1>8, <1>9, <1>10, <1>11, <1>12

LEMMA MarksStay ==
    ASSUME UNCHANGED <<world, limits>>
    PROVE  /\ Marks' = Marks /\ Given' = Given /\ \A i : SeenPaths(i)' = SeenPaths(i)
           /\ \A x, D : Dated(x, D)' = Dated(x, D)
           /\ \A i, d : SeenOn(i, d)' = SeenOn(i, d)
<1>1. \A x, D : Dated(x, D)' = Dated(x, D)
  BY MapStays DEF Dated
<1>2. Marks' = Marks
  BY <1>1, MapStays DEF Marks
<1>3. \A i, d : SeenOn(i, d)' = SeenOn(i, d)
  BY MapStays DEF SeenOn
<1>4. \A i : SeenPaths(i)' = SeenPaths(i)
  BY <1>3 DEF SeenPaths
<1> QED  BY <1>1, <1>2, <1>3, <1>4 DEF Given

\* What may be asked stays, and more of it may once the paths are looked for.
LEMMA TasksStay ==
    ASSUME UNCHANGED <<world, limits>>, DOMAIN chains \subseteq DOMAIN chains'
    PROVE  Tasks \subseteq Tasks'
<1>1. \A A, B, purpose : FlightSearches(A, B, purpose)' = FlightSearches(A, B, purpose)
  BY DEF FlightSearches
<1>2. \A a, purpose : Feeding(a, purpose)' = Feeding(a, purpose)
  BY MapStays DEF Feeding
<1>3. Distant' = Distant
  BY MapStays DEF Distant
<1>4. DirectSearches' = DirectSearches /\ IncomingSearches' = IncomingSearches
  BY MapStays DEF DirectSearches, IncomingSearches
<1>5. HubSearches' = HubSearches /\ AccessSearches' = AccessSearches
  BY <1>2, <1>3 DEF HubSearches, AccessSearches
<1>6. Begun' = Begun
  BY <1>4, <1>5 DEF Begun
<1>7. SearchTasks' = SearchTasks /\ UseTasks' = UseTasks
  BY <1>6, MapStays DEF SearchTasks, UseTasks
<1>8. StationTasks' = StationTasks
  BY <1>3 DEF StationTasks
<1>9. ArrivalTasks' = ArrivalTasks /\ ThreadTasks' = ThreadTasks /\ FlightTasks' = FlightTasks
  BY MapStays DEF ArrivalTasks, ThreadTasks, FlightTasks
<1>10. CheckTasks \subseteq CheckTasks'
  BY DEF CheckTasks
<1>11. ObserveTasks \subseteq ObserveTasks'
  BY MarksStay DEF ObserveTasks
<1>12. AddTasks' = AddTasks
  BY MapStays, MarksStay DEF AddTasks
<1>13. ReachTasks' = ReachTasks /\ PlainTasks' = PlainTasks
  BY DEF ReachTasks, PlainTasks
<1> QED
  BY <1>7, <1>8, <1>9, <1>10, <1>11, <1>12, <1>13 DEF Tasks

\* When the map is told, what was known of it still is.
LEMMA KnownStays ==
    ASSUME Planned, UNCHANGED <<world, limits>>
    PROVE  /\ UNCHANGED <<city, incoming>> => FlightsKnown'
           /\ UNCHANGED chains => PathsKnown'
           /\ UNCHANGED access => WaysKnown'
           /\ UNCHANGED schemes => Sane(candidates, seen, Findable, Marks)'
<1>1. UNCHANGED <<city, incoming>> => FlightsKnown'
  BY MapStays, MarksStay DEF Planned, FlightsKnown
<1>2. UNCHANGED chains => PathsKnown'
  BY MapStays, MarksStay DEF Planned, PathsKnown
<1>3. UNCHANGED access => WaysKnown'
  BY MapStays DEF Planned, WaysKnown
<1>4. UNCHANGED schemes => Sane(candidates, seen, Findable, Marks)'
  <2>1. Sane(candidates, seen, Findable, Marks)' = Sane(candidates', seen', Findable', Marks')
    BY DEF Sane, KeptOf
  <2> QED  BY <2>1, MapStays, MarksStay DEF Planned, schemes
<1> QED  BY <1>1, <1>2, <1>3, <1>4

\* The head of the agenda makes room for tasks that may follow it.
LEMMA ReplaceType ==
    ASSUME Planned, agenda # <<>>, UNCHANGED <<world, limits>>, DOMAIN chains \subseteq DOMAIN chains',
           NEW tasks \in Seq(Tasks'), Replace(tasks)
    PROVE  agenda' \in (Seq(Tasks))'
<1>1. Tail(agenda) \in Seq(Tasks) /\ Tasks \subseteq Tasks'
  BY TasksStay, HeadTailProperties DEF Planned
<1>2. Tail(agenda) \in Seq(Tasks')
  BY <1>1, ListOfMore
<1> QED  BY <1>2, ConcatProperties DEF Replace

\* A scheme that may be found is added, or left out.
LEMMA AddIsSane ==
    ASSUME Planned, UNCHANGED <<world, limits>>, NEW legs, NEW dates, <<legs, dates>> \in Marks,
           NEW l, Add(legs, dates, l)
    PROVE  Sane(candidates, seen, Findable, Marks)'
<1>1. Sane(candidates, seen, Findable, Marks)' = Sane(candidates', seen', Findable', Marks')
  BY DEF Sane, KeptOf
<1> SUFFICES Sane(candidates', seen', Findable, Marks)
  BY <1>1, MapStays, MarksStay
<1>2. Sane(candidates, seen, Findable, Marks) /\ legs \in Findable
  BY DEF Planned, Marks
<1>3. legs \in Seq(ToSet(legs)) /\ legs # <<>>
  BY <1>2, FindableAreLists DEF Planned, FlightsKnown
<1>4. CASE UNCHANGED schemes
  BY <1>2, <1>4 DEF schemes
<1>5. CASE /\ legs \notin seen
           /\ candidates' = Append(candidates, Candidate(legs, dates)) /\ seen' = seen \cup {legs}
  BY <1>2, <1>3, <1>5, NewCandidate
<1>6. CASE /\ legs \notin seen
           /\ \E i \in Grouped(legs) : /\ candidates' = [candidates EXCEPT ![i].variants = Append(@, legs[1])]
                                       /\ seen' = seen \cup {legs}
  <2>1. PICK i \in Grouped(legs) : /\ candidates' = [candidates EXCEPT ![i].variants = Append(@, legs[1])]
                                   /\ seen' = seen \cup {legs}
    BY <1>6
  <2>2. i \in DOMAIN candidates /\ AccessKey(legs) # <<>> /\ AccessKey(candidates[i].legs) = AccessKey(legs)
    BY DEF Grouped
  <2>3. Sane([candidates EXCEPT ![i].variants = Append(@, legs[1])], seen \cup {legs}, Findable, Marks)
    BY <1>2, <1>3, <1>6, <2>2, NewVariant
  <2> QED  BY <2>1, <2>3
<1>7. ASSUME Grouped(legs) # {} PROVE (CHOOSE j \in Grouped(legs) : TRUE) \in Grouped(legs)
  BY <1>7
<1> QED  BY <1>4, <1>5, <1>6, <1>7 DEF Add

LEMMA TasksReplace ==
    ASSUME Planned, agenda # <<>>, UNCHANGED <<world, limits>>, DOMAIN chains \subseteq DOMAIN chains',
           NEW tasks \in Seq(Tasks), Replace(tasks)
    PROVE  agenda' \in (Seq(Tasks))'
<1>1. tasks \in Seq(Tasks')
  BY TasksStay, ListOfMore
<1> QED  BY <1>1, ReplaceType

LEMMA NoneReplaces ==
    ASSUME Planned, agenda # <<>>, UNCHANGED <<world, limits>>, DOMAIN chains \subseteq DOMAIN chains', Replace(<<>>)
    PROVE  agenda' \in (Seq(Tasks))'
<1>1. PICK none \in Seq(Tasks) : none = <<>>
  BY EmptyList
<1> QED  BY <1>1, TasksReplace

\* What is left of the agenda has such tasks.
LEMMA LeaveType ==
    ASSUME Planned, UNCHANGED <<world, limits>>, DOMAIN chains \subseteq DOMAIN chains', NEW do, Leave(do)
    PROVE  agenda' \in (Seq(Tasks))'
<1>1. PICK n \in DOMAIN agenda : agenda' = SubSeq(agenda, n, Len(agenda))
  BY DEF Leave
<1>2. agenda \in Seq(Tasks')
  BY TasksStay, ListOfMore DEF Planned
<1> HIDE DEF Planned
<1>3. SubSeq(agenda, n, Len(agenda)) \in Seq(Tasks')
  BY <1>2
<1> QED  BY <1>1, <1>3

\* The task in hand is one of the tasks.
LEMMA JobType ==
    ASSUME Planned, agenda # <<>>
    PROVE  Job \in Tasks
BY DEF Planned, Job

------------------------------------------------------------------------------
(* The plan *)
LEMMA PlanType ==
    ASSUME Given
    PROVE  Plan \in Seq(Tasks)
<1> DEFINE P1 == <<Task("settlement", "origin")>>
           P2 == Searches(PairsFromEach(Origins, Destinations), Task("direct", 0))
           P3 == Searches(PairsFromEach(GeographicHubs, Destinations), Task("incoming", 0))
           P4 == [i \in DOMAIN Destinations |-> Arrivals(Destinations[i], 1)]
           P5 == <<Task("flights", "sort"), Task("google", "pairs")>>
<1>1. P1 \in Seq(Tasks) /\ P5 \in Seq(Tasks)
  <2>1. Task("settlement", "origin") \in Tasks /\ Task("flights", "sort") \in Tasks /\ Task("google", "pairs") \in Tasks
    BY DEF Tasks, PlainTasks
  <2> QED  BY <2>1
<1>2. Begun \subseteq Tasks
  BY BegunIsSearched DEF Tasks
<1>3. /\ Origins \in Seq(ToSet(Origins)) /\ Destinations \in Seq(ToSet(Destinations))
      /\ GeographicHubs \in Seq(ToSet(GeographicHubs))
  BY PlacesType, ListOfItsOwn
<1>4. P2 \in Seq(Tasks)
  <2>1. P2 \in Seq(DirectSearches)
    BY <1>3, PairsFromEachType, SearchesType DEF DirectSearches
  <2>2. DirectSearches \subseteq Tasks
    BY <1>2 DEF Begun
  <2> QED  BY <2>1, <2>2, ListOfMore
<1>5. P3 \in Seq(Tasks)
  <2>1. P3 \in Seq(IncomingSearches)
    BY <1>3, PairsFromEachType, SearchesType DEF IncomingSearches
  <2>2. IncomingSearches \subseteq Tasks
    BY <1>2 DEF Begun
  <2> QED  BY <2>1, <2>2, ListOfMore
<1>6. P4 \in Seq(Tasks)
  <2>1. ASSUME NEW i \in 1..Len(Destinations) PROVE Arrivals(Destinations[i], 1) \in Tasks
    <3>1. Destinations[i] \in ToSet(Destinations) /\ 1 \in DOMAIN ArrivalsOf(Destinations[i])
      BY <1>3, ArrivalsType
    <3>2. Arrivals(Destinations[i], 1) \in ArrivalTasks
      BY <3>1 DEF Arrivals, ArrivalTasks
    <3> QED  BY <3>2 DEF Tasks
  <2>2. DOMAIN Destinations = 1..Len(Destinations) /\ Len(Destinations) \in Nat
    BY <1>3
  <2>3. P4 \in [1..Len(Destinations) -> Tasks]
    BY <2>1, <2>2
  <2> QED  BY <2>2, <2>3, IsASeq
<1>7. Plan = P1 \o P2 \o P3 \o P4 \o P5
  BY DEF Plan
<1> HIDE DEF P1, P2, P3, P4, P5
<1> QED  BY <1>1, <1>4, <1>5, <1>6, <1>7, ConcatProperties

LEMMA PlannedAtFirst ==
    Init => Planned
<1> SUFFICES ASSUME Init PROVE Planned
  OBVIOUS
<1>1. FlightsKnown
  BY DEF Init, FlightsKnown, Given
<1>2. PathsKnown
  <2>1. DOMAIN chains = {}
    BY DEF Init
  <2> QED  BY <2>1 DEF PathsKnown
<1>3. WaysKnown
  BY DEF Init, WaysKnown
<1>4. agenda \in Seq(Tasks)
  BY <1>1, PlanType DEF Init, FlightsKnown
<1>5. Sane(candidates, seen, Findable, Marks)
  <2>1. candidates = <<>> /\ DOMAIN candidates = {} /\ seen = {}
    BY DEF Init
  <2>2. KeptOf(candidates) = {}
    BY <2>1 DEF KeptOf
  <2>3. candidates \in Seq([legs : Findable, dates : {p[2] : p \in Marks}, variants : Seq({x[1] : x \in Findable})])
    BY <2>1
  <2> QED  BY <2>1, <2>2, <2>3 DEF Sane
<1> QED  BY <1>1, <1>2, <1>3, <1>4, <1>5 DEF Planned

------------------------------------------------------------------------------
(* The steps *)
LEMMA SettlementPlanned ==
    ASSUME Planned, Settlement, UNCHANGED <<world, limits>>
    PROVE  Planned'
<1>1. /\ agenda # <<>> /\ Replace(<<>>) /\ UNCHANGED <<incoming, flights, schemes>>
      /\ city' => world.settlements = 1
  BY DEF Settlement, Doing
<1>2. agenda' \in (Seq(Tasks))'
  BY <1>1, NoneReplaces DEF flights
<1>3. FlightsKnown'
  BY <1>1, MapStays, MarksStay DEF Planned, FlightsKnown
<1> QED  BY <1>1, <1>2, <1>3, KnownStays DEF Planned, flights

\* All that a search found is put to its purpose.
LEMMA UsesType ==
    ASSUME NEW q \in Begun, NEW n, NEW s \in Seq(LegsOf(q.from, q.to))
    PROVE  Uses(SearchTask(q, n, s)) \in Seq(Tasks)
<1> DEFINE t == SearchTask(q, n, s)
<1>1. t.found = s /\ t.purpose = q.purpose
  BY DEF SearchTask
<1> HIDE DEF t
<1>2. ASSUME NEW i \in 1..Len(s) PROVE [do |-> "use", leg |-> t.found[i], purpose |-> t.purpose] \in Tasks
  <2>1. s[i] \in LegsOf(q.from, q.to)
    OBVIOUS
  <2>2. [do |-> "use", leg |-> s[i], purpose |-> q.purpose]
            \in {[do |-> "use", leg |-> l, purpose |-> q.purpose] : l \in LegsOf(q.from, q.to)}
    BY <2>1
  <2>3. [do |-> "use", leg |-> s[i], purpose |-> q.purpose] \in UseTasks
    BY <2>2 DEF UseTasks
  <2> QED  BY <1>1, <2>3 DEF Tasks
<1>3. Uses(t) \in [1..Len(s) -> Tasks]
  BY <1>1, <1>2 DEF Uses
<1> QED  BY <1>3, IsASeq DEF t

LEMMA SearchGoesOn ==
    ASSUME NEW q, NEW n, NEW s, NEW m, NEW more
    PROVE  /\ [SearchTask(q, n, s) EXCEPT !.found = more] = SearchTask(q, n, more)
           /\ [SearchTask(q, n, s) EXCEPT !.page = m] = SearchTask(q, m, s)
           /\ SearchTask(q, n, s).found = s /\ SearchTask(q, n, s).page = n
BY DEF SearchTask

LEMMA FurtherSearch ==
    ASSUME NEW q \in Begun, NEW n \in DOMAIN PagesOf(q.from, q.to), NEW s \in Seq(LegsOf(q.from, q.to))
    PROVE  SearchTask(q, n, s) \in SearchTasks
<1>1. SearchTask(q, n, s) \in {SearchTask(q, m, f) : m \in DOMAIN PagesOf(q.from, q.to), f \in Seq(LegsOf(q.from, q.to))}
  OBVIOUS
<1> QED  BY <1>1 DEF SearchTasks

LEMMA SearchPagePlanned ==
    ASSUME Planned, SearchPage, UNCHANGED <<world, limits>>
    PROVE  Planned'
<1>1. /\ agenda # <<>> /\ Job.do = "search" /\ UNCHANGED <<graph, flights, schemes>>
  BY DEF SearchPage, Doing, Job
<1>2a. PICK q \in Begun :
           Job \in {SearchTask(q, n, s) : n \in DOMAIN PagesOf(q.from, q.to), s \in Seq(LegsOf(q.from, q.to))}
  BY <1>1, JobType, TaskKinds DEF SearchTasks
<1>2. PICK n \in DOMAIN PagesOf(q.from, q.to), s \in Seq(LegsOf(q.from, q.to)) : Job = SearchTask(q, n, s)
  BY <1>2a
<1>3. Job.from = q.from /\ Job.to = q.to /\ Job.page = n /\ Job.found = s
  BY <1>2 DEF SearchTask
<1> DEFINE pages == PagesOf(q.from, q.to)
           new == SetToSeq(pages[n] \ ToSet(s))
           task == [Job EXCEPT !.found = @ \o new]
           L == LegsOf(q.from, q.to)
<1>4. \/ Replace(Uses(Job)) \/ Replace(Uses(task))
      \/ n # Len(pages) /\ Replace(<<[task EXCEPT !.page = @ + 1]>>)
  BY <1>3 DEF SearchPage
<1>5. s \o new \in Seq(L)
  <2>1. IsFiniteSet(pages[n] \ ToSet(s)) /\ pages[n] \ ToSet(s) \subseteq L
    <3>1. IsFiniteSet(pages[n]) /\ pages[n] \subseteq L
      BY PagesType DEF Planned, FlightsKnown
    <3>2. (pages[n] \ ToSet(s)) \in SUBSET pages[n]
      OBVIOUS
    <3> QED  BY <3>1, <3>2, FS_Subset
  <2>2. new \in Seq(L)
    BY <2>1, SetToSeqType, ListOfMore
  <2> HIDE DEF new, L
  <2> QED  BY <2>2, ConcatProperties DEF L
<1>6. task = SearchTask(q, n, s \o new) /\ [task EXCEPT !.page = @ + 1] = SearchTask(q, n + 1, s \o new)
  <2>1. task = SearchTask(q, n, s \o new)
    <3> DEFINE more == s \o new
    <3>1. task = [Job EXCEPT !.found = more]
      BY <1>3
    <3> HIDE DEF more, task
    <3>2. task = SearchTask(q, n, more)
      BY <1>2, <3>1, SearchGoesOn
    <3> QED  BY <3>2 DEF more
  <2> HIDE DEF task, new
  <2> QED  BY <2>1, SearchGoesOn
<1> HIDE DEF new, task
<1>7. Uses(Job) \in Seq(Tasks) /\ Uses(task) \in Seq(Tasks)
  BY <1>2, <1>5, <1>6, UsesType DEF L
<1>8. ASSUME n # Len(pages) PROVE <<[task EXCEPT !.page = @ + 1]>> \in Seq(Tasks)
  <2>1. n + 1 \in DOMAIN pages
    BY <1>8, PagesType DEF Planned, FlightsKnown
  <2>2. SearchTask(q, n + 1, s \o new) \in SearchTasks
    BY <1>5, <2>1, FurtherSearch DEF L
  <2>3. SearchTask(q, n + 1, s \o new) \in Tasks
    BY <2>2 DEF Tasks
  <2> QED  BY <1>6, <2>3
<1>9. agenda' \in (Seq(Tasks))'
  BY <1>1, <1>4, <1>7, <1>8, TasksReplace DEF flights
<1> QED  BY <1>1, <1>9, KnownStays DEF Planned, graph, flights

\* A way on the map that needs no date.
LEMMA UndatedMarks ==
    ASSUME NEW x \in Findable
    PROVE  <<x, {}>> \in Marks
BY DEF Marks, Dated

LEMMA UseLegPlanned ==
    ASSUME Planned, UseLeg, UNCHANGED <<world, limits>>
    PROVE  Planned'
<1> DEFINE leg == Job.leg
           for == Job.purpose
<1>1. agenda # <<>> /\ Job.do = "use" /\ Replace(<<>>)
  BY DEF UseLeg, Doing, Job
<1>2a. PICK q \in Begun : Job \in {[do |-> "use", leg |-> l, purpose |-> q.purpose] : l \in LegsOf(q.from, q.to)}
  BY <1>1, JobType, TaskKinds DEF UseTasks
<1>2. PICK l \in LegsOf(q.from, q.to) : Job = [do |-> "use", leg |-> l, purpose |-> q.purpose]
  BY <1>2a
<1>3. leg = l /\ for = q.purpose
  BY <1>2
<1>4. \/ for = Task("direct", 0) /\ leg \in DirectLegs
      \/ for = Task("incoming", 0) /\ leg \in Inbound
      \/ \E flight \in Distant : for = Task("hub", flight) /\ leg \in FeederLegs(HubOf(flight))
      \/ \E a \in Remote : for = Task("access", a) /\ leg \in FeederLegs(a)
  BY <1>3, FoundServes
<1> HIDE DEF leg, for
<1>5. CASE for = Task("direct", 0) /\ leg \in DirectLegs
  <2>1. Add(<<leg>>, {}, ledger) /\ UNCHANGED <<graph, flights>>
    BY <1>5 DEF UseLeg, Task, leg, for
  <2>2. <<leg>> \in Findable
    BY <1>5 DEF Findable, Direct
  <2>3. <<<<leg>>, {}>> \in Marks
    BY <2>2, UndatedMarks
  <2>4. Sane(candidates, seen, Findable, Marks)'
    BY <2>1, <2>3, AddIsSane
  <2>5. agenda' \in (Seq(Tasks))'
    BY <1>1, <2>1, NoneReplaces DEF flights
  <2> QED  BY <2>1, <2>4, <2>5, KnownStays DEF Planned, graph, flights
<1>6. CASE for = Task("incoming", 0) /\ leg \in Inbound
  <2>1. incoming' = Append(incoming, leg) /\ UNCHANGED <<city, flights, schemes>>
    BY <1>6 DEF UseLeg, Task, leg, for
  <2>2. incoming' \in Seq(Inbound)
    <3>1. incoming \in Seq(Inbound)
      BY DEF Planned, FlightsKnown
    <3> QED  BY <1>6, <2>1, <3>1
  <2>3. FlightsKnown'
    BY <2>1, <2>2, MapStays, MarksStay DEF Planned, FlightsKnown
  <2>4. agenda' \in (Seq(Tasks))'
    BY <1>1, <2>1, NoneReplaces DEF flights
  <2> QED  BY <2>1, <2>3, <2>4, KnownStays DEF Planned, flights
<1>7. ASSUME NEW flight \in Distant, for = Task("hub", flight), leg \in FeederLegs(HubOf(flight))
      PROVE  Planned'
  <2>1. for.do = "hub" /\ for.subject = flight
    BY <1>7 DEF Task
  <2>2. /\ UNCHANGED <<graph, flights>>
        /\ \/ UNCHANGED schemes
           \/ ~(leg.mode = "plane" /\ leg.from = flight.to) /\ Add(<<leg, flight>>, {}, ledger)
    BY <2>1 DEF UseLeg, leg, for
  <2>3. ASSUME ~(leg.mode = "plane" /\ leg.from = flight.to)
        PROVE  <<leg, flight>> \in Findable
    <3>1. <<leg>> \in Feeders(HubOf(flight)) /\ flight \in Connecting
      BY <1>7 DEF Distant, Feeders
    <3>2. Onward(<<leg>>, flight)
      BY <2>3 DEF Onward
    <3>3. <<leg>> \o <<flight>> = <<leg, flight>>
      BY TwoLegs
    <3>4. <<leg>> \o <<flight>> \in {w \o <<flight>> : w \in {v \in Feeders(HubOf(flight)) : Onward(v, flight)}}
      BY <3>1, <3>2
    <3>5. <<leg>> \o <<flight>> \in Joined
      BY <3>1, <3>4 DEF Joined
    <3> QED  BY <3>3, <3>5 DEF Findable
  <2>4. Sane(candidates, seen, Findable, Marks)'
    <3>1. CASE UNCHANGED schemes
      BY <3>1, KnownStays
    <3>2. CASE ~(leg.mode = "plane" /\ leg.from = flight.to) /\ Add(<<leg, flight>>, {}, ledger)
      <4>1. <<<<leg, flight>>, {}>> \in Marks
        BY <2>3, <3>2, UndatedMarks
      <4> QED  BY <3>2, <4>1, AddIsSane
    <3> QED  BY <2>2, <3>1, <3>2
  <2>5. agenda' \in (Seq(Tasks))'
    BY <1>1, <2>2, NoneReplaces DEF flights
  <2> QED  BY <2>2, <2>4, <2>5, KnownStays DEF Planned, graph, flights
<1>8. ASSUME NEW a \in Remote, for = Task("access", a), leg \in FeederLegs(a)
      PROVE  Planned'
  <2>1. for.do = "access" /\ for.subject = a
    BY <1>8 DEF Task
  <2>2. access' = [access EXCEPT ![a] = Append(@, <<leg>>)] /\ UNCHANGED <<graph, chains, schemes>>
    BY <2>1 DEF UseLeg, leg, for
  <2>3. <<leg>> \in Feeders(a)
    BY <1>8 DEF Feeders, Remote
  <2>4. ASSUME NEW b \in DOMAIN access' PROVE access'[b] \in Seq(Feeders(b))
    <3>1. b \in DOMAIN access /\ access[b] \in Seq(Feeders(b))
      BY <2>2 DEF Planned, WaysKnown
    <3>2. CASE b = a
      <4>1. access'[b] = Append(access[b], <<leg>>)
        BY <2>2, <3>1, <3>2
      <4> QED  BY <2>3, <3>1, <3>2, <4>1
    <3>3. CASE b # a
      BY <2>2, <3>1, <3>3
    <3> QED  BY <3>2, <3>3
  <2>5. WaysKnown'
    BY <2>4, MapStays DEF WaysKnown
  <2>6. agenda' \in (Seq(Tasks))'
    BY <1>1, <2>2, NoneReplaces
  <2> QED  BY <2>2, <2>5, <2>6, KnownStays DEF Planned, graph
<1> QED  BY <1>4, <1>5, <1>6, <1>7, <1>8

\* An arrivals task is about a page of the arrivals of a destination airport.
LEMMA ArrivalJob ==
    ASSUME NEW t \in ArrivalTasks
    PROVE  /\ t.to \in ToSet(Destinations) /\ t.page \in DOMAIN ArrivalsOf(t.to)
           /\ [t EXCEPT !.do = "arrived"] \in ArrivalTasks
<1>1. PICK b \in ToSet(Destinations) :
          t \in {[do |-> k, to |-> b, page |-> n] : k \in {"arrivals", "arrived"}, n \in DOMAIN ArrivalsOf(b)}
  BY DEF ArrivalTasks
<1>2. PICK k \in {"arrivals", "arrived"}, n \in DOMAIN ArrivalsOf(b) : t = [do |-> k, to |-> b, page |-> n]
  BY <1>1
<1>3. [t EXCEPT !.do = "arrived"] = [do |-> "arrived", to |-> b, page |-> n] /\ t.to = b /\ t.page = n
  BY <1>2
<1> QED  BY <1>2, <1>3 DEF ArrivalTasks

LEMMA ArrivalsPagePlanned ==
    ASSUME Planned, ArrivalsPage, UNCHANGED <<world, limits>>
    PROVE  Planned'
<1> DEFINE page == ArrivalsOf(Job.to)[Job.page]
           threads == [i \in DOMAIN page |-> [do |-> "thread", thread |-> page[i], to |-> Job.to]]
<1>1. /\ agenda # <<>> /\ Job.do = "arrivals" /\ UNCHANGED <<city, incoming, flights, schemes>>
      /\ Replace(<<>>) \/ Replace(threads \o <<[Job EXCEPT !.do = "arrived"]>>)
  BY DEF ArrivalsPage, Doing, Job
<1>2. Job \in ArrivalTasks
  BY <1>1, JobType, TaskKinds
<1>3. Job.to \in ToSet(Destinations) /\ [Job EXCEPT !.do = "arrived"] \in Tasks
  BY <1>2, ArrivalJob DEF Tasks
<1>4. page \in Seq(Threads(Job.to))
  BY <1>2, ArrivalJob, ArrivalsType DEF Planned, FlightsKnown
<1> HIDE DEF page
<1>5. ASSUME NEW i \in 1..Len(page) PROVE [do |-> "thread", thread |-> page[i], to |-> Job.to] \in Tasks
  <2>1. page[i] \in Threads(Job.to)
    BY <1>4
  <2>2. [do |-> "thread", thread |-> page[i], to |-> Job.to] \in ThreadTasks
    BY <1>3, <2>1 DEF ThreadTasks
  <2> QED  BY <2>2 DEF Tasks
<1>6. threads \in Seq(Tasks)
  <2>1. threads \in [1..Len(page) -> Tasks] /\ Len(page) \in Nat
    BY <1>4, <1>5
  <2> QED  BY <2>1, IsASeq
<1> HIDE DEF threads
<1>7. <<[Job EXCEPT !.do = "arrived"]>> \in Seq(Tasks)
  BY <1>3
<1>8. threads \o <<[Job EXCEPT !.do = "arrived"]>> \in Seq(Tasks)
  BY <1>6, <1>7, ConcatProperties
<1>9. agenda' \in (Seq(Tasks))'
  BY <1>1, <1>8, TasksReplace, NoneReplaces DEF flights
<1> QED  BY <1>1, <1>9, KnownStays DEF Planned, flights

LEMMA ThreadKnownPlanned ==
    ASSUME Planned, ThreadKnown, UNCHANGED <<world, limits>>
    PROVE  Planned'
<1>1. agenda # <<>> /\ Replace(<<>>) /\ UNCHANGED <<graph, flights, schemes>>
  BY DEF ThreadKnown, Doing
<1>2. agenda' \in (Seq(Tasks))'
  BY <1>1, NoneReplaces DEF flights
<1> QED  BY <1>1, <1>2, KnownStays DEF Planned, graph, flights

LEMMA ThreadBeyondBudgetPlanned ==
    ASSUME Planned, ThreadBeyondBudget, UNCHANGED <<world, limits>>
    PROVE  Planned'
<1>1. Leave("thread") /\ UNCHANGED <<city, incoming, flights, schemes>>
  BY DEF ThreadBeyondBudget
<1>2. agenda' \in (Seq(Tasks))'
  BY <1>1, LeaveType DEF flights
<1> QED  BY <1>1, <1>2, KnownStays DEF Planned, flights

LEMMA ThreadPlanned ==
    ASSUME Planned, Thread, UNCHANGED <<world, limits>>
    PROVE  Planned'
<1> DEFINE fits == Landing(Job.to, Job.thread)
<1>1. /\ agenda # <<>> /\ Job.do = "thread" /\ Replace(<<>>) /\ UNCHANGED <<city, flights, schemes>>
      /\ UNCHANGED incoming \/ incoming' = incoming \o SetToSeq(fits)
  BY DEF Thread, Doing, Job
<1>2a. PICK b \in ToSet(Destinations) : Job \in {[do |-> "thread", thread |-> t, to |-> b] : t \in Threads(b)}
  BY <1>1, JobType, TaskKinds DEF ThreadTasks
<1>2. PICK t \in Threads(b) : Job = [do |-> "thread", thread |-> t, to |-> b]
  BY <1>2a
<1>3. fits = Landing(b, t)
  BY <1>2
<1>4. IsFiniteSet(fits) /\ fits \subseteq Inbound
  <2>1. IsFiniteSet(t.legs)
    BY ArrivalsType DEF Planned, FlightsKnown
  <2>2. fits \in SUBSET t.legs
    BY <1>3 DEF Landing
  <2>3. fits \subseteq Arriving
    BY <1>3 DEF Arriving
  <2> QED  BY <2>1, <2>2, <2>3, FS_Subset DEF Inbound
<1> HIDE DEF fits
<1>5. incoming' \in Seq(Inbound)
  <2>1. incoming \in Seq(Inbound)
    BY DEF Planned, FlightsKnown
  <2>2. SetToSeq(fits) \in Seq(Inbound)
    BY <1>4, SetToSeqType, ListOfMore
  <2> QED  BY <1>1, <2>1, <2>2, ConcatProperties
<1>6. FlightsKnown'
  BY <1>1, <1>5, MapStays, MarksStay DEF Planned, FlightsKnown
<1>7. agenda' \in (Seq(Tasks))'
  BY <1>1, NoneReplaces DEF flights
<1> QED  BY <1>1, <1>6, <1>7, KnownStays DEF Planned, flights

LEMMA PageArrivedPlanned ==
    ASSUME Planned, PageArrived, UNCHANGED <<world, limits>>
    PROVE  Planned'
<1>1. /\ agenda # <<>> /\ Job.do = "arrived" /\ UNCHANGED <<graph, flights, schemes>>
      /\ Replace(<<>>) \/ (~LastPage /\ Replace(<<Arrivals(Job.to, Job.page + 1)>>))
  BY DEF PageArrived, Doing, Job
<1>2. Job.to \in ToSet(Destinations) /\ Job.page \in DOMAIN ArrivalsOf(Job.to)
  BY <1>1, JobType, TaskKinds, ArrivalJob
<1>3. ASSUME ~LastPage PROVE <<Arrivals(Job.to, Job.page + 1)>> \in Seq(Tasks)
  <2>1. /\ DOMAIN ArrivalsOf(Job.to) = 1..Len(ArrivalsOf(Job.to)) /\ Len(ArrivalsOf(Job.to)) \in Nat
        /\ Job.page # Len(ArrivalsOf(Job.to))
    BY <1>3, ArrivalsType DEF Planned, FlightsKnown, LastPage
  <2>2. Job.page + 1 \in DOMAIN ArrivalsOf(Job.to)
    BY <1>2, <2>1
  <2>3. Arrivals(Job.to, Job.page + 1) \in ArrivalTasks
    BY <1>2, <2>2 DEF Arrivals, ArrivalTasks
  <2>4. Arrivals(Job.to, Job.page + 1) \in Tasks
    BY <2>3 DEF Tasks
  <2> QED  BY <2>4
<1>4. agenda' \in (Seq(Tasks))'
  BY <1>1, <1>3, TasksReplace, NoneReplaces DEF flights
<1> QED  BY <1>1, <1>4, KnownStays DEF Planned, graph, flights

------------------------------------------------------------------------------
(* The flights found, nearest first *)
LEMMA HubOfType ==
    ASSUME NEW leg, Cardinality(Mapped(leg.from)) = 1
    PROVE  HubOf(leg) \in Airports
<1>1. Mapped(leg.from) # {}
  BY FS_EmptySet
<1> QED  BY <1>1 DEF HubOf, Mapped

LEMMA DistanceType ==
    ASSUME NEW leg
    PROVE  Distance(leg) \in Int
<1>1. CASE Cardinality(Mapped(leg.from)) = 1
  <2>1. HubOf(leg) \in Airports
    BY <1>1, HubOfType
  <2>2. Away(OriginAt, Catalog[HubOf(leg)].at) \in Int
    BY <2>1, CatalogAssumption, AwayType DEF Airports
  <2> QED  BY <1>1, <2>2 DEF Distance, HubOf
<1>2. CASE Cardinality(Mapped(leg.from)) # 1
  BY <1>2 DEF Distance
<1> QED  BY <1>1, <1>2

LEMMA NearestFirstIsStrict ==
    ASSUME NEW T, incoming \in Seq(T)
    PROVE  Strict(DOMAIN incoming, NearestFirst)
<1> DEFINE D == DOMAIN incoming
           d(i) == Distance(incoming[i])
<1>1. ASSUME NEW i \in D PROVE i \in Int /\ d(i) \in Int
  BY DistanceType
<1>2. ASSUME NEW i \in D, NEW j \in D
      PROVE  <<i, j>> \in NearestFirst <=> d(i) < d(j) \/ (d(i) = d(j) /\ i < j)
  BY DEF NearestFirst
<1> HIDE DEF d, D
<1>3. ASSUME NEW i \in D PROVE <<i, i>> \notin NearestFirst
  BY <1>1, <1>2
<1>4. ASSUME NEW i \in D, NEW j \in D, NEW k \in D, <<i, j>> \in NearestFirst, <<j, k>> \in NearestFirst
      PROVE  <<i, k>> \in NearestFirst
  BY <1>1, <1>2, <1>4
<1>5. ASSUME NEW i \in D, NEW j \in D
      PROVE  i = j \/ <<i, j>> \in NearestFirst \/ <<j, i>> \in NearestFirst
  BY <1>1, <1>2
<1> QED  BY <1>3, <1>4, <1>5 DEF Strict, D

LEMMA SortFlightsPlanned ==
    ASSUME Planned, SortFlights, UNCHANGED <<world, limits>>
    PROVE  Planned'
<1> DEFINE order == Ordered(DOMAIN incoming, NearestFirst)
           tasks == [i \in DOMAIN order |-> Task("flight", incoming[order[i]])]
<1>1. agenda # <<>> /\ Replace(tasks) /\ UNCHANGED <<graph, flights, schemes>>
  BY DEF SortFlights, Doing
<1>2. incoming \in Seq(Inbound)
  BY DEF Planned, FlightsKnown
<1>3. order \in Seq(DOMAIN incoming)
  <2>1. DOMAIN incoming = 1..Len(incoming) /\ Len(incoming) \in Nat
    BY <1>2
  <2>2. IsFiniteSet(DOMAIN incoming)
    BY <2>1, FS_Interval
  <2> QED  BY <1>2, <2>2, NearestFirstIsStrict, OrderedType
<1> HIDE DEF order
<1>4. ASSUME NEW i \in 1..Len(order) PROVE Task("flight", incoming[order[i]]) \in Tasks
  <2>1. order[i] \in DOMAIN incoming
    BY <1>3
  <2>2. incoming[order[i]] \in Inbound
    BY <1>2, <2>1
  <2> QED  BY <2>2 DEF Tasks, FlightTasks
<1>5. tasks \in Seq(Tasks)
  <2>1. tasks \in [1..Len(order) -> Tasks] /\ Len(order) \in Nat
    BY <1>3, <1>4
  <2> QED  BY <2>1, IsASeq
<1>6. agenda' \in (Seq(Tasks))'
  BY <1>1, <1>5, TasksReplace DEF flights
<1> QED  BY <1>1, <1>6, KnownStays DEF Planned, graph, flights

LEMMA FlightPlanned ==
    ASSUME Planned, Flight, UNCHANGED <<world, limits>>
    PROVE  Planned'
<1> DEFINE flight == Job.subject
           hub == HubOf(flight)
<1>1. /\ agenda # <<>> /\ Job.do = "flight" /\ UNCHANGED <<city, incoming, flights>>
      /\ \/ Replace(<<>>) /\ UNCHANGED schemes
         \/ ~Unclear(flight) /\ NearOrigin(hub) /\ Replace(<<>>) /\ Add(<<flight>>, {}, ledger)
         \/ ~Unclear(flight) /\ ~NearOrigin(hub) /\ Replace(Approach(hub, Task("hub", flight))) /\ UNCHANGED schemes
  BY DEF Flight, Doing, Job, HubOf, NearOrigin
<1>2. flight \in Inbound
  <2>1. Job \in FlightTasks
    BY <1>1, JobType, TaskKinds
  <2> QED  BY <2>1 DEF FlightTasks, Task
<1>3. ASSUME ~Unclear(flight) PROVE flight \in Connecting /\ hub \in Airports
  BY <1>2, <1>3, HubOfType DEF Unclear, Connecting
<1> HIDE DEF flight, hub
<1>4. CASE Replace(<<>>) /\ UNCHANGED schemes
  <2>1. agenda' \in (Seq(Tasks))'
    BY <1>1, <1>4, NoneReplaces DEF flights
  <2> QED  BY <1>1, <1>4, <2>1, KnownStays DEF Planned, flights
<1>5. CASE ~Unclear(flight) /\ NearOrigin(hub) /\ Replace(<<>>) /\ Add(<<flight>>, {}, ledger)
  <2>1. <<flight>> \in Joined
    <3>1. PICK none \in Seq({flight}) : none = <<>>
      BY EmptyList
    <3>2. none \in Feeders(hub) /\ Onward(none, flight)
      BY <1>5, <3>1 DEF Feeders, Onward
    <3>3. none \o <<flight>> = <<flight>>
      <4>1. <<flight>> \in Seq({flight})
        OBVIOUS
      <4> QED  BY <3>1, <4>1, ConcatEmptySeq
    <3>4. <<flight>> \in {w \o <<flight>> : w \in {v \in Feeders(HubOf(flight)) : Onward(v, flight)}}
      BY <3>2, <3>3 DEF hub
    <3> QED  BY <1>3, <1>5, <3>4 DEF Joined
  <2>2. <<<<flight>>, {}>> \in Marks
    BY <2>1, UndatedMarks DEF Findable
  <2>3. Sane(candidates, seen, Findable, Marks)'
    BY <1>5, <2>2, AddIsSane
  <2>4. agenda' \in (Seq(Tasks))'
    BY <1>1, <1>5, NoneReplaces DEF flights
  <2> QED  BY <1>1, <2>3, <2>4, KnownStays DEF Planned, flights
<1>6. CASE ~Unclear(flight) /\ ~NearOrigin(hub) /\ Replace(Approach(hub, Task("hub", flight))) /\ UNCHANGED schemes
  <2>1. flight \in Distant /\ hub \in Airports
    BY <1>3, <1>6 DEF Distant, hub
  <2>2. Feeding(hub, Task("hub", flight)) \subseteq Tasks
    <3>1. Feeding(hub, Task("hub", flight)) \subseteq Begun
      BY <2>1 DEF Begun, HubSearches, hub
    <3> QED  BY <3>1, BegunIsSearched DEF Tasks, Planned, FlightsKnown
  <2>3. world.settlements = 1 => StationTask(hub, Task("hub", flight)) \in Tasks
    BY <2>1 DEF Tasks, StationTasks, hub
  <2>4. Approach(hub, Task("hub", flight)) \in Seq(Tasks)
    BY <2>1, <2>2, <2>3, ApproachType DEF Planned, FlightsKnown
  <2>5. agenda' \in (Seq(Tasks))'
    BY <1>1, <1>6, <2>4, TasksReplace DEF flights
  <2> QED  BY <1>1, <1>6, <2>5, KnownStays DEF Planned, flights
<1> QED  BY <1>1, <1>4, <1>5, <1>6 DEF flight, hub

LEMMA StationsPlanned ==
    ASSUME Planned, Stations, UNCHANGED <<world, limits>>
    PROVE  Planned'
<1> DEFINE near == StationsOf(Job.hub)
           tasks == [i \in DOMAIN near |-> Search("city", near[i], "train", Job.purpose)]
<1>1. /\ agenda # <<>> /\ Job.do = "stations" /\ UNCHANGED <<graph, flights, schemes>>
      /\ Replace(<<>>) \/ Replace(tasks)
  BY DEF Stations, Doing, Job
<1>2. Job \in StationTasks
  BY <1>1, JobType, TaskKinds
<1>3. world.settlements = 1 /\ Feeding(Job.hub, Job.purpose) \subseteq Begun
  <2>1. /\ world.settlements = 1
        /\ \/ \E leg \in Distant : Job = StationTask(HubOf(leg), Task("hub", leg))
           \/ \E a \in Remote : Job = StationTask(a, Task("access", a))
    BY <1>2 DEF StationTasks
  <2>2. CASE \E leg \in Distant : Job = StationTask(HubOf(leg), Task("hub", leg))
    <3>1. PICK leg \in Distant : Job = StationTask(HubOf(leg), Task("hub", leg))
      BY <2>2
    <3>2. Job.hub = HubOf(leg) /\ Job.purpose = Task("hub", leg)
      BY <3>1 DEF StationTask
    <3> QED  BY <2>1, <3>2 DEF Begun, HubSearches
  <2>3. CASE \E a \in Remote : Job = StationTask(a, Task("access", a))
    <3>1. PICK a \in Remote : Job = StationTask(a, Task("access", a))
      BY <2>3
    <3>2. Job.hub = a /\ Job.purpose = Task("access", a)
      BY <3>1 DEF StationTask
    <3> QED  BY <2>1, <3>2 DEF Begun, AccessSearches
  <2> QED  BY <2>1, <2>2, <2>3
<1>4. near \in Seq(ToSet(near)) /\ ToSet(near) = Stops(Job.hub)
  BY <1>3, StationsType DEF Stops, Planned, FlightsKnown
<1> HIDE DEF near
<1>5. ASSUME NEW i \in 1..Len(near) PROVE Search("city", near[i], "train", Job.purpose) \in Tasks
  <2>1. near[i] \in Stops(Job.hub)
    BY <1>4
  <2>2. Search("city", near[i], "train", Job.purpose) \in Begun
    BY <1>3, <2>1 DEF Feeding
  <2> QED  BY <2>2, BegunIsSearched DEF Tasks, Planned, FlightsKnown
<1>6. tasks \in Seq(Tasks)
  <2>1. tasks \in [1..Len(near) -> Tasks] /\ Len(near) \in Nat
    BY <1>4, <1>5
  <2> QED  BY <2>1, IsASeq
<1>7. agenda' \in (Seq(Tasks))'
  BY <1>1, <1>6, TasksReplace, NoneReplaces DEF flights
<1> QED  BY <1>1, <1>7, KnownStays DEF Planned, graph, flights

------------------------------------------------------------------------------
(* Flight paths *)

\* The pairs asked for are a list.
LEMMA ChainsAreList ==
    ASSUME Planned
    PROVE  \E n \in Nat : DOMAIN chains = 1..n
<1>1. FlightPairs \in Seq(Airports \X ToSet(Destinations))
  BY FlightPairsType DEF Planned, FlightsKnown
<1>2. DOMAIN FlightPairs = 1..Len(FlightPairs) /\ Len(FlightPairs) \in Nat
  BY <1>1
<1>3. {} = 1..0 /\ 0 \in Nat
  OBVIOUS
<1> QED  BY <1>2, <1>3 DEF Planned, PathsKnown

LEMMA PairOfList ==
    ASSUME NEW A, NEW B, NEW ps \in Seq(A \X B), NEW i \in DOMAIN ps
    PROVE  ps[i] \in ToSet(ps) /\ ps[i][1] \in A
<1>1. ps[i] \in A \X B
  OBVIOUS
<1>2. ps[i] \in ToSet(ps)
  BY DEF ToSet
<1> QED  BY <1>1, <1>2

\* A pair asked for is one of the flight pairs, and the flights may be asked for.
LEMMA ChainType ==
    ASSUME Planned, NEW i \in DOMAIN chains
    PROVE  /\ i \in DOMAIN FlightPairs /\ limits.flights # 0 /\ FlightPairs[i] \in ToSet(FlightPairs)
           /\ chains[i].from = FlightPairs[i][1] /\ chains[i].to = FlightPairs[i][2] /\ chains[i].from \in Airports
           /\ chains[i].paths \in Seq(SeenPaths(i))
<1>1. i \in DOMAIN FlightPairs /\ limits.flights # 0 /\ chains[i].paths \in Seq(SeenPaths(i))
  BY DEF Planned, PathsKnown
<1>2. chains[i] = [from |-> FlightPairs[i][1], to |-> FlightPairs[i][2], paths |-> chains[i].paths]
  BY DEF Planned, PathsKnown
<1>3. chains[i].from = FlightPairs[i][1] /\ chains[i].to = FlightPairs[i][2]
  BY <1>2
<1>4. FlightPairs \in Seq(Airports \X ToSet(Destinations))
  BY FlightPairsType DEF Planned, FlightsKnown
<1>5. FlightPairs[i] \in ToSet(FlightPairs) /\ FlightPairs[i][1] \in Airports
  BY <1>1, <1>4, PairOfList
<1> QED  BY <1>1, <1>3, <1>5

LEMMA GooglePlanned ==
    ASSUME Planned, Google, UNCHANGED <<world, limits>>
    PROVE  Planned'
<1>1. agenda # <<>> /\ UNCHANGED <<graph, access, schemes>>
  BY DEF Google, Doing
<1>2. CASE Replace(<<>>) /\ UNCHANGED chains
  <2>1. agenda' \in (Seq(Tasks))'
    BY <1>1, <1>2, NoneReplaces
  <2> QED  BY <1>1, <1>2, <2>1, KnownStays DEF Planned, graph
<1>3. ASSUME limits.flights # 0, Replace(Checks \o <<Task("resolve", "access")>>),
             chains' = LET ps == FlightPairs IN
                       [i \in DOMAIN ps |-> [from |-> ps[i][1], to |-> ps[i][2], paths |-> <<>>]]
      PROVE  Planned'
  <2>1. /\ DOMAIN chains' = DOMAIN FlightPairs /\ DOMAIN chains \subseteq DOMAIN chains'
        /\ \A i \in DOMAIN chains' : chains'[i] = [from |-> FlightPairs[i][1], to |-> FlightPairs[i][2], paths |-> <<>>]
    BY <1>3 DEF Planned, PathsKnown
  <2>2. PathsKnown'
    <3>1. FlightPairs' = FlightPairs /\ limits' = limits
      BY MapStays
    <3>2. ASSUME NEW i \in DOMAIN chains'
          PROVE  /\ chains'[i] = [from |-> FlightPairs[i][1], to |-> FlightPairs[i][2], paths |-> chains'[i].paths]
                 /\ chains'[i].paths \in Seq(SeenPaths(i)')
      <4>1. chains'[i].paths = <<>>
        BY <2>1
      <4>2. \E none \in Seq(SeenPaths(i)') : none = <<>>
        BY EmptyList
      <4> QED  BY <2>1, <4>1, <4>2
    <3> QED  BY <1>3, <2>1, <3>1, <3>2 DEF PathsKnown
  <2>3. world.dates \in Seq(ToSet(world.dates)) /\ world' = world
    BY WorldsAssumption DEF Planned, FlightsKnown, Given
  <2>4. PICK n \in Nat : DOMAIN chains' = 1..n
    <3>1. FlightPairs \in Seq(Airports \X ToSet(Destinations))
      BY FlightPairsType DEF Planned, FlightsKnown
    <3>2. DOMAIN FlightPairs = 1..Len(FlightPairs) /\ Len(FlightPairs) \in Nat
      BY <3>1
    <3> QED  BY <2>1, <3>2
  <2> DEFINE row(d) == [i \in DOMAIN chains' |-> [do |-> "paths", chain |-> i, date |-> world.dates[d]]]
  <2>5. ASSUME NEW d \in 1..Len(world.dates) PROVE row(d) \in Seq(Tasks')
    <3>1. world.dates[d] \in ToSet(world'.dates)
      BY <2>3 DEF ToSet
    <3>2. ASSUME NEW i \in DOMAIN chains'
          PROVE  [do |-> "paths", chain |-> i, date |-> world.dates[d]] \in Tasks'
      <4>1. PICK e \in ToSet(world'.dates) : e = world.dates[d]
        BY <3>1
      <4>2. [do |-> "paths", chain |-> i, date |-> e] \in CheckTasks'
        BY DEF CheckTasks
      <4> QED  BY <4>1, <4>2 DEF Tasks
    <3>3. row(d) \in [1..n -> Tasks']
      BY <2>4, <3>2
    <3> QED  BY <3>3, IsASeq
  <2>6. Checks \in Seq(Tasks')
    <3>1. DOMAIN world.dates = 1..Len(world.dates) /\ Len(world.dates) \in Nat
      BY <2>3
    <3>2. Checks = FlattenSeq([d \in DOMAIN world.dates |-> row(d)])
      BY DEF Checks
    <3> HIDE DEF row
    <3>3. [d \in DOMAIN world.dates |-> row(d)] \in [1..Len(world.dates) -> Seq(Tasks')]
      BY <2>5, <3>1
    <3>4. [d \in DOMAIN world.dates |-> row(d)] \in Seq(Seq(Tasks'))
      BY <3>1, <3>3, IsASeq
    <3> QED  BY <3>2, <3>4, FlattenSeqType
  <2>7. <<Task("resolve", "access")>> \in Seq(Tasks')
    <3>1. Task("resolve", "access") \in Tasks'
      BY DEF Tasks, PlainTasks
    <3> QED  BY <3>1
  <2>8. Checks \o <<Task("resolve", "access")>> \in Seq(Tasks')
    BY <2>6, <2>7, ConcatProperties
  <2>9. agenda' \in (Seq(Tasks))'
    BY <1>1, <1>3, <2>1, <2>8, ReplaceType
  <2> QED  BY <1>1, <2>2, <2>9, KnownStays DEF Planned, graph
<1> QED  BY <1>2, <1>3 DEF Google

LEMMA FlightPathsPlanned ==
    ASSUME Planned, FlightPaths, UNCHANGED <<world, limits>>
    PROVE  Planned'
<1> DEFINE paths == PathsOf(chains[Job.chain].from, chains[Job.chain].to, Job.date)
<1>1. /\ agenda # <<>> /\ Job.do = "paths" /\ UNCHANGED <<graph, chains, access, schemes>>
      /\ Leave("paths") \/ Replace(<<>>) \/ Replace(Observed(paths))
  BY DEF FlightPaths, Doing, Job
<1>2. PICK i \in DOMAIN chains, d \in ToSet(world.dates) : Job = [do |-> "paths", chain |-> i, date |-> d]
  BY <1>1, JobType, TaskKinds DEF CheckTasks
<1>3. Job.chain = i /\ Job.date = d
  BY <1>2
<1>4. paths = PathsOf(FlightPairs[i][1], FlightPairs[i][2], d) /\ ToSet(paths) = SeenOn(i, d)
  BY <1>3, ChainType DEF SeenOn
<1>5. paths \in Seq(SeenOn(i, d))
  BY <1>4, PathsType DEF Planned, FlightsKnown
<1> HIDE DEF paths
<1>6. ASSUME NEW j \in 1..Len(paths)
      PROVE  [do |-> "observe", chain |-> Job.chain, date |-> Job.date, legs |-> paths[j]] \in Tasks
  <2>1. paths[j] \in SeenOn(i, d)
    BY <1>5
  <2> DEFINE T == {[do |-> "observe", chain |-> i, date |-> d, legs |-> x] : x \in SeenOn(i, d)}
  <2>2. [do |-> "observe", chain |-> i, date |-> d, legs |-> paths[j]] \in T
    BY <2>1
  <2>3. [do |-> "observe", chain |-> i, date |-> d, legs |-> paths[j]] \in ObserveTasks
    <3> DEFINE G == {{[do |-> "observe", chain |-> k, date |-> e, legs |-> x] : x \in SeenOn(k, e)} :
                       k \in DOMAIN chains, e \in ToSet(world.dates)}
    <3>1. T \in G
      OBVIOUS
    <3>2. ObserveTasks = UNION G
      BY DEF ObserveTasks
    <3> HIDE DEF T, G
    <3> QED  BY <2>2, <3>1, <3>2
  <2> QED  BY <1>3, <2>3 DEF Tasks
<1>7. Observed(paths) \in Seq(Tasks)
  <2>1. DOMAIN paths = 1..Len(paths) /\ Len(paths) \in Nat
    BY <1>5
  <2>2. Observed(paths) \in [1..Len(paths) -> Tasks]
    BY <1>6, <2>1 DEF Observed
  <2> QED  BY <2>1, <2>2, IsASeq
<1>8. agenda' \in (Seq(Tasks))'
  BY <1>1, <1>7, TasksReplace, NoneReplaces, LeaveType
<1> QED  BY <1>1, <1>8, KnownStays DEF Planned, graph

\* A path noted is among the paths seen, on every date it is noted for.
LEMMA ObserveType ==
    ASSUME NEW i, NEW d \in ToSet(world.dates), NEW x \in SeenOn(i, d), NEW known \in Seq(SeenPaths(i))
    PROVE  Observe(known, x, d) \in Seq(SeenPaths(i))
<1> DEFINE S == SeenPaths(i)
           D == ToSet(world.dates)
           L == UNION {SeenOn(i, e) : e \in D}
           noted(s) == IF s.legs = x THEN [s EXCEPT !.dates = @ \cup {d}] ELSE s
<1>1. ASSUME NEW s \in S PROVE noted(s) \in S
  <2>1. s \in [legs : L, dates : SUBSET D] /\ s.dates # {} /\ \A e \in s.dates : s.legs \in SeenOn(i, e)
    BY DEF SeenPaths
  <2> HIDE DEF L, D, S
  <2>2. CASE s.legs = x
    <3> DEFINE t == [s EXCEPT !.dates = s.dates \cup {d}]
    <3>1. s.dates \cup {d} \in SUBSET D
      BY <2>1 DEF D
    <3>2. t \in [legs : L, dates : SUBSET D] /\ t.dates = s.dates \cup {d} /\ t.legs = x
      BY <2>1, <2>2, <3>1
    <3> HIDE DEF t
    <3>3. t.dates # {} /\ \A e \in t.dates : t.legs \in SeenOn(i, e)
      BY <2>1, <2>2, <3>2
    <3>4. t \in S
      BY <3>2, <3>3 DEF S, SeenPaths, L, D
    <3> QED  BY <2>2, <3>4 DEF t
  <2>3. CASE s.legs # x
    BY <2>3
  <2> QED  BY <2>2, <2>3
<1>2. [legs |-> x, dates |-> {d}] \in S
  <2>1. x \in L /\ {d} \in SUBSET D /\ {d} # {}
    OBVIOUS
  <2> HIDE DEF L, D
  <2>2. [legs |-> x, dates |-> {d}] \in [legs : L, dates : SUBSET D]
    BY <2>1
  <2> QED  BY <2>2 DEF SeenPaths, L, D
<1> HIDE DEF S
<1>3. known \in Seq(S) /\ DOMAIN known = 1..Len(known) /\ Len(known) \in Nat
  BY DEF S
<1>4. [k \in DOMAIN known |-> noted(known[k])] \in Seq(S)
  <2> HIDE DEF noted
  <2>1. [k \in DOMAIN known |-> noted(known[k])] \in [1..Len(known) -> S]
    BY <1>1, <1>3
  <2> QED  BY <1>3, <2>1, IsASeq
<1>5. Append(known, [legs |-> x, dates |-> {d}]) \in Seq(S)
  BY <1>2, <1>3
<1> QED  BY <1>4, <1>5 DEF Observe, S

LEMMA ObservePathPlanned ==
    ASSUME Planned, ObservePath, UNCHANGED <<world, limits>>
    PROVE  Planned'
<1>1. /\ agenda # <<>> /\ Job.do = "observe" /\ Replace(<<>>) /\ UNCHANGED <<graph, access, schemes>>
      /\ chains' = [chains EXCEPT ![Job.chain].paths = Observe(@, Job.legs, Job.date)]
  BY DEF ObservePath, Doing, Job
<1>2a. PICK i \in DOMAIN chains, d \in ToSet(world.dates) :
           Job \in {[do |-> "observe", chain |-> i, date |-> d, legs |-> x] : x \in SeenOn(i, d)}
  BY <1>1, JobType, TaskKinds DEF ObserveTasks
<1>2. PICK x \in SeenOn(i, d) : Job = [do |-> "observe", chain |-> i, date |-> d, legs |-> x]
  BY <1>2a
<1> DEFINE more == Observe(chains[i].paths, x, d)
<1>3. more \in Seq(SeenPaths(i))
  BY ChainType, ObserveType
<1> HIDE DEF more
<1>4. chains' = [chains EXCEPT ![i].paths = more]
  BY <1>1, <1>2 DEF more
<1>5. DOMAIN chains' = DOMAIN chains /\ \A j \in DOMAIN chains : j # i => chains'[j] = chains[j]
  BY <1>4
<1>6. chains'[i] = [chains[i] EXCEPT !.paths = more]
  BY <1>4
<1>7. chains'[i] = [from |-> FlightPairs[i][1], to |-> FlightPairs[i][2], paths |-> more]
  <2>1. chains[i] = [from |-> FlightPairs[i][1], to |-> FlightPairs[i][2], paths |-> chains[i].paths]
    BY DEF Planned, PathsKnown
  <2> QED  BY <1>6, <2>1
<1>8. ASSUME NEW j \in DOMAIN chains
      PROVE  /\ chains'[j] = [from |-> FlightPairs[j][1], to |-> FlightPairs[j][2], paths |-> chains'[j].paths]
             /\ chains'[j].paths \in Seq(SeenPaths(j))
  <2>1. CASE j = i
    BY <1>3, <1>7, <2>1
  <2>2. CASE j # i
    BY <1>5, <2>2 DEF Planned, PathsKnown
  <2> QED  BY <2>1, <2>2
<1>9. PathsKnown'
  <2>1. DOMAIN chains = {} \/ (limits.flights # 0 /\ DOMAIN chains = DOMAIN FlightPairs)
    BY DEF Planned, PathsKnown
  <2> QED  BY <1>5, <1>8, <2>1, MapStays, MarksStay DEF PathsKnown
<1>10. agenda' \in (Seq(Tasks))'
  BY <1>1, <1>5, NoneReplaces
<1> QED  BY <1>1, <1>9, <1>10, KnownStays DEF Planned, graph

LEMMA ResolvePlanned ==
    ASSUME Planned, Resolve, UNCHANGED <<world, limits>>
    PROVE  Planned'
<1> DEFINE flown == {i \in DOMAIN chains : chains[i].paths # <<>>}
           first == {i \in flown : \A j \in flown : chains[j].from = chains[i].from => i <= j}
           reach(i) == IF i \in first THEN <<Task("reach", chains[i].from)>> ELSE <<>>
           tasks == FlattenSeq([i \in DOMAIN chains |-> reach(i)])
<1>1. /\ agenda # <<>> /\ UNCHANGED <<graph, chains, schemes>>
      /\ access' = [a \in {chains[i].from : i \in flown} |-> <<>>]
      /\ Replace(tasks \o <<Task("combine", 1)>>)
  BY DEF Resolve, Doing
<1>2. WaysKnown'
  <2>1. ASSUME NEW a \in DOMAIN access' PROVE access'[a] \in Seq(Feeders(a)')
    <3>1. access'[a] = <<>>
      BY <1>1
    <3>2. \E none \in Seq(Feeders(a)') : none = <<>>
      BY EmptyList
    <3> QED  BY <3>1, <3>2
  <2> QED  BY <2>1 DEF WaysKnown
<1>3. ASSUME NEW i \in DOMAIN chains PROVE reach(i) \in Seq(Tasks)
  <2>1. Task("reach", chains[i].from) \in Tasks
    BY ChainType DEF Tasks, ReachTasks
  <2>2. <<Task("reach", chains[i].from)>> \in Seq(Tasks)
    BY <2>1
  <2>3. \E none \in Seq(Tasks) : none = <<>>
    BY EmptyList
  <2> HIDE DEF first
  <2> QED  BY <2>2, <2>3
<1> HIDE DEF reach
<1>4. tasks \in Seq(Tasks)
  <2>1. PICK n \in Nat : DOMAIN chains = 1..n
    BY ChainsAreList
  <2>2. [i \in DOMAIN chains |-> reach(i)] \in [1..n -> Seq(Tasks)]
    BY <1>3, <2>1
  <2>3. [i \in DOMAIN chains |-> reach(i)] \in Seq(Seq(Tasks))
    BY <2>2, IsASeq
  <2> QED  BY <2>3, FlattenSeqType
<1> HIDE DEF tasks
<1>5. <<Task("combine", 1)>> \in Seq(Tasks)
  <2>1. Task("combine", 1) \in Tasks
    BY DEF Tasks, PlainTasks
  <2> QED  BY <2>1
<1>6. tasks \o <<Task("combine", 1)>> \in Seq(Tasks)
  BY <1>4, <1>5, ConcatProperties
<1>7. agenda' \in (Seq(Tasks))'
  BY <1>1, <1>6, TasksReplace
<1> QED  BY <1>1, <1>2, <1>7, KnownStays DEF Planned, graph

LEMMA ReachPlanned ==
    ASSUME Planned, Reach, UNCHANGED <<world, limits>>
    PROVE  Planned'
<1> DEFINE a == Job.subject
<1>1. /\ agenda # <<>> /\ Job.do = "reach" /\ UNCHANGED <<graph, chains, schemes>>
      /\ \/ NearOrigin(a) /\ Replace(<<>>) /\ access' = [access EXCEPT ![a] = << <<>> >>]
         \/ ~NearOrigin(a) /\ Replace(Approach(a, Task("access", a))) /\ UNCHANGED access
  BY DEF Reach, Doing, Job, NearOrigin
<1>2. a \in Airports
  <2>1. Job \in ReachTasks
    BY <1>1, JobType, TaskKinds
  <2> QED  BY <2>1 DEF ReachTasks, Task
<1> HIDE DEF a
<1>3. CASE NearOrigin(a) /\ Replace(<<>>) /\ access' = [access EXCEPT ![a] = << <<>> >>]
  <2>1. << <<>> >> \in Seq(Feeders(a))
    <3>1. <<>> \in Feeders(a)
      BY <1>3 DEF Feeders
    <3> QED  BY <3>1
  <2>2. ASSUME NEW b \in DOMAIN access' PROVE access'[b] \in Seq(Feeders(b))
    <3>1. b \in DOMAIN access /\ access[b] \in Seq(Feeders(b))
      BY <1>3 DEF Planned, WaysKnown
    <3>2. CASE b = a
      <4>1. access'[b] = << <<>> >>
        BY <1>3, <3>1, <3>2
      <4> QED  BY <2>1, <3>2, <4>1
    <3>3. CASE b # a
      BY <1>3, <3>1, <3>3
    <3> QED  BY <3>2, <3>3
  <2>3. WaysKnown'
    BY <2>2, MapStays DEF WaysKnown
  <2>4. agenda' \in (Seq(Tasks))'
    BY <1>1, <1>3, NoneReplaces
  <2> QED  BY <1>1, <2>3, <2>4, KnownStays DEF Planned, graph
<1>4. CASE ~NearOrigin(a) /\ Replace(Approach(a, Task("access", a))) /\ UNCHANGED access
  <2>1. a \in Remote
    BY <1>2, <1>4 DEF Remote
  <2>2. Feeding(a, Task("access", a)) \subseteq Tasks
    <3>1. Feeding(a, Task("access", a)) \subseteq Begun
      BY <2>1 DEF Begun, AccessSearches
    <3> QED  BY <3>1, BegunIsSearched DEF Tasks, Planned, FlightsKnown
  <2>3. world.settlements = 1 => StationTask(a, Task("access", a)) \in Tasks
    BY <2>1 DEF Tasks, StationTasks
  <2>4. Approach(a, Task("access", a)) \in Seq(Tasks)
    BY <1>2, <2>2, <2>3, ApproachType DEF Planned, FlightsKnown
  <2>5. agenda' \in (Seq(Tasks))'
    BY <1>1, <1>4, <2>4, TasksReplace
  <2> QED  BY <1>1, <1>4, <2>5, KnownStays DEF Planned, graph
<1> QED  BY <1>1, <1>3, <1>4 DEF a

\* A path seen, after a way to where it starts, may be found on every date it was seen.
LEMMA ReachedType ==
    ASSUME Planned, NEW i \in DOMAIN chains, NEW path \in SeenPaths(i)
    PROVE  Reached(chains[i].from, path) \in Seq(Tasks)
<1> DEFINE a == chains[i].from
           p == FlightPairs[i]
<1>1. a = p[1] /\ p \in ToSet(FlightPairs) /\ limits.flights # 0
  BY ChainType
<1>2. path.dates \in SUBSET ToSet(world.dates) /\ path.dates # {} /\ \A d \in path.dates : path.legs \in SeenOn(i, d)
  BY DEF SeenPaths
<1>3. Ways(a) \in Seq(Feeders(a))
  <2>1. \E none \in Seq(Feeders(a)) : none = <<>>
    BY EmptyList
  <2> QED  BY <2>1 DEF Ways, Planned, WaysKnown
<1> HIDE DEF a
<1>4. ASSUME NEW w \in Feeders(a), NEW d \in path.dates
      PROVE  w \o path.legs \in SampledOn(ToSet(FlightPairs), d)
  <2> DEFINE ways(q, f) == {v \o f : v \in Feeders(q[1])}
             all(q) == UNION {ways(q, f) : f \in ToSet(PathsOf(q[1], q[2], d))}
  <2>1. w \o path.legs \in ways(p, path.legs)
    BY <1>1
  <2>2. path.legs \in ToSet(PathsOf(p[1], p[2], d))
    BY <1>2 DEF SeenOn
  <2>3. w \o path.legs \in all(p)
    <3> HIDE DEF ways, p
    <3> QED  BY <2>1, <2>2
  <2>4. SampledOn(ToSet(FlightPairs), d) = UNION {all(q) : q \in ToSet(FlightPairs)}
    BY DEF SampledOn
  <2> HIDE DEF all, p
  <2> QED  BY <1>1, <2>3, <2>4
<1>5. ASSUME NEW w \in Feeders(a)
      PROVE  [do |-> "add", dates |-> path.dates, legs |-> w \o path.legs] \in Tasks
  <2> DEFINE x == w \o path.legs
  <2>1. Dated(x, path.dates)
    BY <1>4 DEF Dated
  <2>2. x \in Sampled
    <3>1. PICK d \in path.dates : TRUE
      BY <1>2
    <3>2. x \in SampledOn(ToSet(FlightPairs), d) /\ d \in ToSet(world.dates)
      BY <1>2, <1>4
    <3> HIDE DEF x
    <3> QED  BY <1>1, <3>2 DEF Sampled
  <2> HIDE DEF x
  <2>3. [do |-> "add", dates |-> path.dates, legs |-> x] \in AddTasks
    BY <1>2, <2>1, <2>2 DEF AddTasks
  <2> QED  BY <2>3 DEF Tasks, x
<1>6. Reached(a, path) \in Seq(Tasks)
  <2>1. DOMAIN Ways(a) = 1..Len(Ways(a)) /\ Len(Ways(a)) \in Nat
    BY <1>3
  <2>2. ASSUME NEW k \in 1..Len(Ways(a))
        PROVE  [do |-> "add", dates |-> path.dates, legs |-> Ways(a)[k] \o path.legs] \in Tasks
    <3>1. Ways(a)[k] \in Feeders(a)
      BY <1>3
    <3> QED  BY <1>5, <3>1
  <2>3. Reached(a, path) \in [1..Len(Ways(a)) -> Tasks]
    BY <2>1, <2>2 DEF Reached
  <2> QED  BY <2>1, <2>3, IsASeq
<1> QED  BY <1>6 DEF a

LEMMA CombinePlanned ==
    ASSUME Planned, Combine, UNCHANGED <<world, limits>>
    PROVE  Planned'
<1> DEFINE round == Job.subject
           left(c) == Len(c.paths) >= round
           next(c) == IF left(c) THEN Reached(c.from, c.paths[round]) ELSE <<>>
           more == FlattenSeq([i \in DOMAIN chains |-> next(chains[i])])
           again == IF \E i \in DOMAIN chains : left(chains[i]) THEN <<Task("combine", round + 1)>> ELSE <<>>
<1>1. agenda # <<>> /\ Job.do = "combine" /\ UNCHANGED <<graph, flights, schemes>> /\ Replace(more \o again)
  BY DEF Combine, Doing, Job
<1>2. round \in Nat \ {0}
  BY <1>1, JobType, TaskKinds
<1> HIDE DEF round
<1>3. ASSUME NEW i \in DOMAIN chains PROVE next(chains[i]) \in Seq(Tasks)
  <2>1. CASE left(chains[i])
    <3>1. chains[i].paths \in Seq(SeenPaths(i))
      BY ChainType
    <3>2. chains[i].paths[round] \in SeenPaths(i)
      BY <1>2, <2>1, <3>1
    <3> QED  BY <2>1, <3>2, ReachedType
  <2>2. CASE ~left(chains[i])
    <3>1. \E none \in Seq(Tasks) : none = <<>>
      BY EmptyList
    <3> QED  BY <2>2, <3>1
  <2> QED  BY <2>1, <2>2
<1>4. again \in Seq(Tasks)
  <2>1. round + 1 \in Nat \ {0}
    BY <1>2
  <2>2. Task("combine", round + 1) \in Tasks
    BY <2>1 DEF Tasks, PlainTasks
  <2>3. <<Task("combine", round + 1)>> \in Seq(Tasks)
    BY <2>2
  <2>4. \E none \in Seq(Tasks) : none = <<>>
    BY EmptyList
  <2> HIDE DEF left
  <2> QED  BY <2>3, <2>4
<1> HIDE DEF next, again
<1>5. more \in Seq(Tasks)
  <2>1. PICK n \in Nat : DOMAIN chains = 1..n
    BY ChainsAreList
  <2>2. [i \in DOMAIN chains |-> next(chains[i])] \in [1..n -> Seq(Tasks)]
    BY <1>3, <2>1
  <2>3. [i \in DOMAIN chains |-> next(chains[i])] \in Seq(Seq(Tasks))
    BY <2>2, IsASeq
  <2> QED  BY <2>3, FlattenSeqType
<1> HIDE DEF more
<1>6. more \o again \in Seq(Tasks)
  BY <1>4, <1>5, ConcatProperties
<1>7. agenda' \in (Seq(Tasks))'
  BY <1>1, <1>6, TasksReplace DEF flights
<1> QED  BY <1>1, <1>7, KnownStays DEF Planned, graph, flights

LEMMA AddPathPlanned ==
    ASSUME Planned, AddPath, UNCHANGED <<world, limits>>
    PROVE  Planned'
<1>1. /\ agenda # <<>> /\ Job.do = "add" /\ Replace(<<>>) /\ UNCHANGED <<graph, flights>>
      /\ Add(Job.legs, Job.dates, ledger)
  BY DEF AddPath, Doing, Job
<1>2. <<Job.legs, Job.dates>> \in Marks
  <2>1. Job \in AddTasks
    BY <1>1, JobType, TaskKinds
  <2>2. Job.legs \in Sampled /\ Job.dates \in SUBSET ToSet(world.dates) /\ Dated(Job.legs, Job.dates)
    BY <2>1 DEF AddTasks
  <2> QED  BY <2>2 DEF Marks, Findable
<1>3. Sane(candidates, seen, Findable, Marks)'
  BY <1>1, <1>2, AddIsSane
<1>4. agenda' \in (Seq(Tasks))'
  BY <1>1, NoneReplaces DEF flights
<1> QED  BY <1>1, <1>3, <1>4, KnownStays DEF Planned, graph, flights

LEMMA IdlePlanned ==
    ASSUME Planned, UNCHANGED <<world, limits, agenda, graph, flights, schemes>>
    PROVE  Planned'
<1>1. agenda' \in (Seq(Tasks))'
  <2>1. Tasks \subseteq Tasks' /\ agenda' \in Seq(Tasks)
    BY TasksStay DEF Planned, flights
  <2> QED  BY <2>1, ListOfMore
<1> QED  BY <1>1, KnownStays DEF Planned, graph, flights

------------------------------------------------------------------------------
(* What holds of every plan *)
LEMMA PlannedStays ==
    Planned /\ [Next]_vars => Planned'
<1> SUFFICES ASSUME Planned, [Next]_vars PROVE Planned'
  OBVIOUS
<1>1. CASE Step
  <2> SUFFICES ASSUME UNCHANGED <<world, limits>> PROVE Planned'
    BY <1>1 DEF Step
  <2>1. CASE Settlement          BY <2>1, SettlementPlanned
  <2>2. CASE SearchPage          BY <2>2, SearchPagePlanned
  <2>3. CASE UseLeg              BY <2>3, UseLegPlanned
  <2>4. CASE ArrivalsPage        BY <2>4, ArrivalsPagePlanned
  <2>5. CASE ThreadKnown         BY <2>5, ThreadKnownPlanned
  <2>6. CASE ThreadBeyondBudget  BY <2>6, ThreadBeyondBudgetPlanned
  <2>7. CASE Thread              BY <2>7, ThreadPlanned
  <2>8. CASE PageArrived         BY <2>8, PageArrivedPlanned
  <2>9. CASE SortFlights         BY <2>9, SortFlightsPlanned
  <2>10. CASE Flight             BY <2>10, FlightPlanned
  <2>11. CASE Stations           BY <2>11, StationsPlanned
  <2>12. CASE Google             BY <2>12, GooglePlanned
  <2>13. CASE FlightPaths        BY <2>13, FlightPathsPlanned
  <2>14. CASE ObservePath        BY <2>14, ObservePathPlanned
  <2>15. CASE Resolve            BY <2>15, ResolvePlanned
  <2>16. CASE Reach              BY <2>16, ReachPlanned
  <2>17. CASE Combine            BY <2>17, CombinePlanned
  <2>18. CASE AddPath            BY <2>18, AddPathPlanned
  <2> QED
    BY <1>1, <2>1, <2>2, <2>3, <2>4, <2>5, <2>6, <2>7, <2>8, <2>9, <2>10, <2>11, <2>12, <2>13, <2>14, <2>15,
       <2>16, <2>17, <2>18 DEF Step
<1>2. CASE Expire
  BY <1>2, IdlePlanned DEF Expire
<1>3. CASE UNCHANGED vars
  BY <1>3, IdlePlanned DEF vars
<1> QED  BY <1>1, <1>2, <1>3 DEF Next

\* The agenda, the flights and paths seen and the schemes kept are those of the map.
THEOREM PlansAreSound == Spec => []Planned
BY PlannedAtFirst, PlannedStays, PTL DEF Spec

LEMMA PlannedSchemes ==
    ASSUME Planned
    PROVE  SchemesHold
<1>1. Sane(candidates, seen, Findable, Marks)
  BY DEF Planned
<1>2. Kept \subseteq Findable
  <2>1. Kept = KeptOf(candidates)
    BY DEF Kept, KeptOf
  <2> QED  BY <1>1, <2>1 DEF Sane
<1>3. \A i, j \in DOMAIN candidates : i # j => Schemes(candidates[i]) \cap Schemes(candidates[j]) = {}
  BY <1>1 DEF Sane
<1>4. ASSUME NEW i \in DOMAIN candidates
      PROVE  /\ IsInjective(candidates[i].variants)
             /\ \A d \in candidates[i].dates : candidates[i].legs \in SampledOn(ToSet(FlightPairs), d)
  <2>1. Proper(candidates[i], Marks)
    BY <1>1 DEF Sane
  <2> QED  BY <2>1 DEF Proper, Marks, Dated
<1> QED  BY <1>2, <1>3, <1>4 DEF SchemesHold

(***************************************************************************)
(* Whatever was cut, failed or answered late (realroutes.Planner.Plan),    *)
(* every scheme kept can be pieced together on the map, is kept once, and  *)
(* names only dates on which its flights were seen: for any catalog,       *)
(* answers of Collector and budgets.                                       *)
(***************************************************************************)
THEOREM SchemesAreThere == Spec => []SchemesHold
<1>1. Planned => SchemesHold
  BY PlannedSchemes
<1> QED  BY <1>1, PlansAreSound, PTL

------------------------------------------------------------------------------
(* Nothing is left out of the lists *)
LEMMA PairsHave ==
    ASSUME NEW A, NEW B, NEW from \in Seq(A), NEW to \in Seq(B), NEW p \in Between(ToSet(from), ToSet(to))
    PROVE  p \in ToSet(Pairs(from, to))
<1> DEFINE row(i) == [j \in DOMAIN from |-> Pair(from[j], to[i])]
           rows == [i \in DOMAIN to |-> FlattenSeq(row(i))]
<1>1. ASSUME NEW a \in A, NEW b \in B PROVE Pair(a, b) \in Seq(A \X B)
  BY DEF Pair
<1>2. ASSUME NEW i \in 1..Len(to) PROVE row(i) \in Seq(Seq(A \X B)) /\ FlattenSeq(row(i)) \in Seq(A \X B)
  <2>1. row(i) \in [1..Len(from) -> Seq(A \X B)]
    BY <1>1
  <2>2. row(i) \in Seq(Seq(A \X B))
    BY <2>1, IsASeq
  <2> QED  BY <2>2, FlattenSeqType
<1>3. rows \in Seq(Seq(A \X B))
  <2>1. rows \in [1..Len(to) -> Seq(A \X B)]
    BY <1>2
  <2> QED  BY <2>1, IsASeq
<1>4. PICK j \in 1..Len(from), i \in 1..Len(to) : p = <<from[j], to[i]>> /\ Iata(from[j]) # Iata(to[i])
  <2>1. p[1] \in ToSet(from) /\ p[2] \in ToSet(to) /\ p = <<p[1], p[2]>> /\ Iata(p[1]) # Iata(p[2])
    BY DEF Between
  <2> QED  BY <2>1, Members
<1>5. row(i)[j] = <<p>> /\ j \in DOMAIN row(i)
  BY <1>4 DEF Pair
<1>6. p \in ToSet(row(i)[j])
  <2>1. p \in ToSet(<<p>>)
    BY DEF ToSet
  <2> QED  BY <1>5, <2>1
<1>7. i \in DOMAIN rows /\ rows[i] = FlattenSeq(row(i))
  OBVIOUS
<1>8. Pairs(from, to) = FlattenSeq(rows)
  BY DEF Pairs
<1> HIDE DEF row, rows
<1>9. p \in ToSet(rows[i])
  BY <1>2, <1>5, <1>6, <1>7, FlattenSeqHas
<1> QED  BY <1>3, <1>7, <1>8, <1>9, FlattenSeqHas

LEMMA PairsFromEachHave ==
    ASSUME NEW A, NEW B, NEW from \in Seq(A), NEW to \in Seq(B), NEW p \in Between(ToSet(from), ToSet(to))
    PROVE  p \in ToSet(PairsFromEach(from, to))
<1> DEFINE rows == [i \in DOMAIN from |-> Pairs(<<from[i]>>, to)]
<1>1. rows \in Seq(Seq(Between(A, B)))
  <2>1. ASSUME NEW i \in 1..Len(from) PROVE Pairs(<<from[i]>>, to) \in Seq(Between(A, B))
    <3>1. <<from[i]>> \in Seq(A)
      OBVIOUS
    <3> QED  BY <3>1, PairsType
  <2>2. rows \in [1..Len(from) -> Seq(Between(A, B))]
    BY <2>1
  <2> QED  BY <2>2, IsASeq
<1>2. p[1] \in ToSet(from) /\ p[2] \in ToSet(to) /\ p = <<p[1], p[2]>> /\ Iata(p[1]) # Iata(p[2])
  BY DEF Between
<1>3. PICK i \in 1..Len(from) : from[i] = p[1]
  BY <1>2, Members
<1>4. p \in ToSet(Pairs(<<from[i]>>, to))
  <2>1. <<from[i]>> \in Seq(A) /\ from[i] \in ToSet(<<from[i]>>)
    BY DEF ToSet
  <2>2. p \in Between(ToSet(<<from[i]>>), ToSet(to))
    BY <1>2, <1>3, <2>1 DEF Between
  <2> QED  BY <2>1, <2>2, PairsHave
<1>5. i \in DOMAIN rows /\ rows[i] = Pairs(<<from[i]>>, to)
  OBVIOUS
<1>6. PairsFromEach(from, to) = FlattenSeq(rows)
  BY DEF PairsFromEach
<1> HIDE DEF rows
<1> QED  BY <1>1, <1>4, <1>5, <1>6, FlattenSeqHas

LEMMA SearchesHave ==
    ASSUME NEW T, NEW ps \in Seq(T), NEW p \in ToSet(ps), NEW purpose
    PROVE  FlightSearch(p, purpose) \in ToSet(Searches(ps, purpose))
<1>1. PICK i \in 1..Len(ps) : ps[i] = p
  BY Members
<1>2. i \in DOMAIN Searches(ps, purpose) /\ Searches(ps, purpose)[i] = FlightSearch(p, purpose)
  BY <1>1 DEF Searches
<1> QED  BY <1>2 DEF ToSet

------------------------------------------------------------------------------
(***************************************************************************)
(* The order of the agenda: flights are sorted after the last was looked   *)
(* for, ways are looked for after the last path was noted, and paths are   *)
(* joined after the last way was looked for. The city is asked for first,  *)
(* and one destination airport is looked at at a time.                     *)
(***************************************************************************)
Asks(t) == t.do \in {"search", "use", "stations"}

Closers == {Task("flights", "sort"), Task("resolve", "access"), Task("combine", 1)}

Arrives(t) == t.do \in {"arrivals", "thread", "arrived"}

\* Task c is to come after t.
Needs(t, c) ==
    \/ c = Task("flights", "sort") /\ (Arrives(t) \/ (Asks(t) /\ t.purpose.do = "incoming"))
    \/ c = Task("resolve", "access") /\ t.do \in {"paths", "observe"}
    \/ c = Task("combine", 1) /\ (t.do = "reach" \/ (Asks(t) /\ t.purpose.do = "access"))

\* The arrivals of an airport that are being looked at.
Underway(t) == t.do \in {"thread", "arrived"} \/ (t.do = "arrivals" /\ t.page > 1)

Closed(s) ==
    \A n \in DOMAIN s : \A c \in Closers : Needs(s[n], c) => \E m \in DOMAIN s : n < m /\ s[m] = c

CityFirst(s) == \A n \in DOMAIN s : s[n].do = "settlement" => n = 1

OneAirport(s) == \A m, n \in DOMAIN s : m < n /\ Underway(s[n]) => Underway(s[m]) /\ s[m].to = s[n].to

Orderly(s) == Closed(s) /\ CityFirst(s) /\ OneAirport(s)

\* Tasks that may take the place of the one in hand.
Fits(tasks) ==
    /\ \A n \in DOMAIN tasks : \A c \in Closers :
           Needs(tasks[n], c) => Needs(Job, c) \/ \E m \in DOMAIN tasks : n < m /\ tasks[m] = c
    /\ \A n \in DOMAIN tasks : tasks[n].do # "settlement"
    /\ \/ Arrives(Job) /\ \A n \in DOMAIN tasks : Underway(tasks[n]) /\ tasks[n].to = Job.to
       \/ ~Underway(Job) /\ \A n \in DOMAIN tasks : ~Underway(tasks[n])

\* What a step leaves of the agenda.
Advanced ==
    /\ Orderly(agenda')
    /\ ToSet(Tail(agenda)) \subseteq ToSet(agenda')
    /\ \A u \in ToSet(agenda') : Underway(u) => u \in ToSet(agenda) \/ (Arrives(Job) /\ u.to = Job.to)

LEMMA Moves ==
    ASSUME Planned, agenda # <<>>, Orderly(agenda), NEW T, NEW tasks \in Seq(T), Replace(tasks), Fits(tasks)
    PROVE  Advanced /\ ToSet(tasks) \subseteq ToSet(agenda')
<1> DEFINE rest == Tail(agenda)
           U == T \cup Tasks
           L == Len(tasks)
<1>1. /\ agenda \in Seq(U) /\ tasks \in Seq(U) /\ rest \in Seq(U)
      /\ Len(agenda) \in Nat \ {0} /\ Len(rest) = Len(agenda) - 1 /\ L \in Nat
      /\ DOMAIN agenda = 1..Len(agenda) /\ DOMAIN tasks = 1..L /\ Job = agenda[1]
      /\ \A i \in 1..Len(rest) : rest[i] = agenda[i + 1]
  <2>1. agenda \in Seq(Tasks)
    BY DEF Planned
  <2>2. agenda \in Seq(U) /\ tasks \in Seq(U)
    BY <2>1, ListOfMore
  <2> HIDE DEF U
  <2> QED  BY <2>2, HeadTailProperties DEF Job
<1>2. agenda' = tasks \o rest
  BY DEF Replace
<1> HIDE DEF U, rest
<1>3. /\ agenda' \in Seq(U) /\ Len(agenda') = L + Len(rest) /\ ToSet(agenda') = ToSet(tasks) \cup ToSet(rest)
      /\ DOMAIN agenda' = 1..(L + Len(rest))
  <2>1. agenda' \in Seq(U) /\ Len(agenda') = L + Len(rest)
    BY <1>1, <1>2, ConcatProperties
  <2> QED  BY <1>1, <1>2, <2>1, ConcatHas
<1>4. /\ \A n \in 1..L : agenda'[n] = tasks[n]
      /\ \A n \in 2..Len(agenda) : L + n - 1 \in DOMAIN agenda' /\ agenda'[L + n - 1] = agenda[n]
      /\ \A k \in DOMAIN agenda' : k \in 1..L \/ \E n \in 2..Len(agenda) : k = L + n - 1
  <2>1. ASSUME NEW n \in 2..Len(agenda) PROVE L + n - 1 \in DOMAIN agenda' /\ agenda'[L + n - 1] = agenda[n]
    <3>1. n - 1 \in 1..Len(rest) /\ L + n - 1 \in 1..(L + Len(rest)) /\ ~(L + n - 1 <= L) /\ (L + n - 1) - L = n - 1 /\ (n - 1) + 1 = n
      BY <1>1
    <3>2. agenda'[L + n - 1] = rest[n - 1]
      BY <1>1, <1>2, <3>1, ConcatProperties
    <3> QED  BY <1>1, <1>3, <3>1, <3>2
  <2>2. ASSUME NEW k \in DOMAIN agenda', k \notin 1..L PROVE \E n \in 2..Len(agenda) : k = L + n - 1
    <3>1. k - L + 1 \in 2..Len(agenda) /\ k = L + (k - L + 1) - 1
      BY <1>1, <1>3, <2>2
    <3> QED  BY <3>1
  <2>3. \A n \in 1..L : agenda'[n] = tasks[n]
    BY <1>1, <1>2, <1>3, ConcatProperties
  <2> QED  BY <2>1, <2>2, <2>3
<1>5. Closed(agenda')
  <2> SUFFICES ASSUME NEW k \in DOMAIN agenda', NEW c \in Closers, Needs(agenda'[k], c)
               PROVE  \E m \in DOMAIN agenda' : k < m /\ agenda'[m] = c
    BY DEF Closed
  <2>1. ASSUME NEW n \in 1..Len(agenda), Needs(agenda[n], c)
        PROVE  \E m \in 2..Len(agenda) : n < m /\ agenda[m] = c
    <3>1. PICK m \in 1..Len(agenda) : n < m /\ agenda[m] = c
      BY <1>1, <2>1 DEF Orderly, Closed
    <3> QED  BY <1>1, <3>1
  <2>2. CASE k \in 1..L
    <3>1. Needs(tasks[k], c)
      BY <1>4, <2>2
    <3>2. CASE \E m \in DOMAIN tasks : k < m /\ tasks[m] = c
      <4>1. PICK m \in 1..L : k < m /\ tasks[m] = c
        BY <1>1, <3>2
      <4>2. m \in DOMAIN agenda'
        BY <1>1, <1>3, <4>1
      <4> QED  BY <1>4, <4>1, <4>2
    <3>3. CASE Needs(Job, c)
      <4>1. 1 \in 1..Len(agenda)
        BY <1>1
      <4>2. PICK m \in 2..Len(agenda) : 1 < m /\ agenda[m] = c
        BY <1>1, <2>1, <3>3, <4>1
      <4>3. k < L + m - 1
        BY <1>1, <2>2, <4>2
      <4> QED  BY <1>4, <4>2, <4>3
    <3> QED  BY <1>1, <2>2, <3>1, <3>2, <3>3 DEF Fits
  <2>3. CASE \E n \in 2..Len(agenda) : k = L + n - 1
    <3>1. PICK n \in 2..Len(agenda) : k = L + n - 1
      BY <2>3
    <3>2. Needs(agenda[n], c) /\ n \in 1..Len(agenda)
      BY <1>1, <1>4, <3>1
    <3>3. PICK m \in 2..Len(agenda) : n < m /\ agenda[m] = c
      BY <2>1, <3>2
    <3>4. k < L + m - 1
      BY <1>1, <3>1, <3>3
    <3> QED  BY <1>4, <3>3, <3>4
  <2> QED  BY <1>4, <2>2, <2>3
<1>6. CityFirst(agenda')
  <2>1. ASSUME NEW n \in 2..Len(agenda) PROVE agenda[n].do # "settlement"
    BY <1>1 DEF Orderly, CityFirst
  <2>2. ASSUME NEW n \in 1..L PROVE tasks[n].do # "settlement"
    BY <1>1 DEF Fits
  <2>3. ASSUME NEW k \in DOMAIN agenda' PROVE agenda'[k].do # "settlement"
    BY <1>4, <2>1, <2>2
  <2> QED  BY <2>3 DEF CityFirst
<1>7. OneAirport(agenda')
  <2>1. ASSUME NEW n \in 2..Len(agenda), Underway(agenda[n])
        PROVE  /\ Underway(Job) /\ Job.to = agenda[n].to
               /\ \A m \in 2..Len(agenda) : m < n => Underway(agenda[m]) /\ agenda[m].to = agenda[n].to
    <3>1. 1 \in DOMAIN agenda /\ n \in DOMAIN agenda /\ 1 < n /\ \A m \in 2..Len(agenda) : m \in DOMAIN agenda
      BY <1>1
    <3> QED  BY <1>1, <2>1, <3>1 DEF Orderly, OneAirport
  <2>2. ASSUME NEW n \in 1..L, Underway(tasks[n])
        PROVE  \A m \in 1..L : Underway(tasks[m]) /\ tasks[m].to = Job.to
    BY <1>1, <2>2 DEF Fits
  <2>3. ASSUME Underway(Job), NEW m \in 1..L PROVE Underway(tasks[m]) /\ tasks[m].to = Job.to
    BY <1>1, <2>3 DEF Fits
  <2> SUFFICES ASSUME NEW j \in DOMAIN agenda', NEW k \in DOMAIN agenda', j < k, Underway(agenda'[k])
               PROVE  Underway(agenda'[j]) /\ agenda'[j].to = agenda'[k].to
    BY DEF OneAirport
  <2>4. CASE k \in 1..L
    <3>1. j \in 1..L
      BY <1>1, <1>3, <2>4
    <3> QED  BY <1>4, <2>2, <2>4, <3>1
  <2>5. CASE \E n \in 2..Len(agenda) : k = L + n - 1
    <3>1. PICK n \in 2..Len(agenda) : k = L + n - 1
      BY <2>5
    <3>2. agenda'[k] = agenda[n] /\ Underway(Job) /\ Job.to = agenda[n].to
      BY <1>4, <2>1, <3>1
    <3>3. CASE j \in 1..L
      BY <1>4, <2>3, <3>2, <3>3
    <3>4. CASE \E m \in 2..Len(agenda) : j = L + m - 1
      <4>1. PICK m \in 2..Len(agenda) : j = L + m - 1
        BY <3>4
      <4>2. m < n
        BY <1>1, <3>1, <4>1
      <4> QED  BY <1>4, <2>1, <3>1, <3>2, <4>1, <4>2
    <3> QED  BY <1>4, <3>3, <3>4
  <2> QED  BY <1>4, <2>4, <2>5
<1>8. ASSUME NEW u \in ToSet(agenda'), Underway(u) PROVE u \in ToSet(agenda) \/ (Arrives(Job) /\ u.to = Job.to)
  <2>1. u \in ToSet(tasks) \/ u \in ToSet(agenda)
    <3>1. agenda \in Seq(Tasks)
      BY DEF Planned
    <3>2. ToSet(rest) \subseteq ToSet(agenda)
      BY <3>1, HeadAndTailHave DEF rest
    <3> QED  BY <1>3, <3>2
  <2>2. CASE u \in ToSet(tasks)
    <3>1. PICK n \in 1..L : tasks[n] = u
      BY <2>2, Members
    <3> QED  BY <1>1, <1>8, <3>1 DEF Fits
  <2> QED  BY <2>1, <2>2
<1> QED  BY <1>3, <1>5, <1>6, <1>7, <1>8 DEF Advanced, Orderly, rest

\* Tasks that need nothing new to come after them.
LEMMA FitsPlain ==
    ASSUME NEW T, NEW tasks \in Seq(T), ~Underway(Job),
           \A t \in T : ~Underway(t) /\ t.do # "settlement" /\ \A c \in Closers : Needs(t, c) => Needs(Job, c)
    PROVE  Fits(tasks)
<1>1. \A n \in DOMAIN tasks : tasks[n] \in T
  OBVIOUS
<1> QED  BY <1>1 DEF Fits

\* Tasks that need nothing to come after them but the one that does.
LEMMA FitsClosed ==
    ASSUME NEW T, NEW tasks \in Seq(T), ~Underway(Job), NEW e, e.do \in {"resolve", "combine"},
           \A t \in T : ~Underway(t) /\ t.do # "settlement" /\ \A c \in Closers : Needs(t, c) => c = e
    PROVE  /\ Fits(tasks \o <<e>>) /\ tasks \o <<e>> \in Seq(T \cup {e})
           /\ ToSet(tasks \o <<e>>) = ToSet(tasks) \cup {e}
<1> DEFINE all == tasks \o <<e>>
           U == T \cup {e}
<1>1. tasks \in Seq(U) /\ <<e>> \in Seq(U) /\ Len(<<e>>) = 1 /\ <<e>>[1] = e /\ ToSet(<<e>>) = {e}
  <2>1. tasks \in Seq(U) /\ <<e>> \in Seq(U)
    BY ListOfMore
  <2> QED  BY <2>1 DEF ToSet
<1>2. \A c \in Closers : ~Needs(e, c)
  BY DEF Needs, Asks, Arrives, Closers
<1>3. ~Underway(e) /\ e.do # "settlement"
  BY DEF Underway
<1> HIDE DEF U
<1>4. /\ all \in Seq(U) /\ Len(all) = Len(tasks) + 1 /\ Len(tasks) \in Nat
      /\ all[Len(tasks) + 1] = e /\ \A n \in 1..Len(tasks) : all[n] = tasks[n] /\ tasks[n] \in T
  <2>1. /\ all \in Seq(U) /\ Len(all) = Len(tasks) + 1 /\ Len(tasks) \in Nat
        /\ \A n \in 1..Len(tasks) : all[n] = tasks[n]
    BY <1>1, ConcatProperties
  <2>2. Len(tasks) + 1 \in 1..(Len(tasks) + 1) /\ ~(Len(tasks) + 1 <= Len(tasks)) /\ (Len(tasks) + 1) - Len(tasks) = 1
    BY <2>1
  <2>3. all[Len(tasks) + 1] = <<e>>[1]
    BY <1>1, <2>1, <2>2, ConcatProperties
  <2> QED  BY <1>1, <2>1, <2>3
<1>5. DOMAIN all = 1..(Len(tasks) + 1)
  BY <1>4
<1>6. ToSet(all) = ToSet(tasks) \cup {e}
  <2> DEFINE one == <<e>>
  <2>1. one \in Seq(U) /\ ToSet(one) = {e}
    BY <1>1
  <2> HIDE DEF one
  <2>2. ToSet(tasks \o one) = ToSet(tasks) \cup ToSet(one)
    BY <1>1, <2>1, ConcatHas
  <2> QED  BY <2>1, <2>2 DEF one
<1> HIDE DEF all
<1>7. ASSUME NEW n \in DOMAIN all
      PROVE  /\ ~Underway(all[n]) /\ all[n].do # "settlement"
             /\ \A c \in Closers : Needs(all[n], c) => n < Len(tasks) + 1 /\ c = e
  <2>1. CASE n \in 1..Len(tasks)
    BY <1>4, <2>1
  <2>2. CASE n = Len(tasks) + 1
    BY <1>2, <1>3, <1>4, <2>2
  <2> QED  BY <1>4, <1>5, <2>1, <2>2
<1>8. Len(tasks) + 1 \in DOMAIN all
  BY <1>4, <1>5
<1>9. Fits(all)
  BY <1>4, <1>7, <1>8 DEF Fits
<1> QED  BY <1>4, <1>6, <1>9 DEF all, U

------------------------------------------------------------------------------
(***************************************************************************)
(* What the ledger tells is never taken back.                              *)
(***************************************************************************)
Headings == {"cache", "failures", "requests", "flights", "failed", "limit", "issues"}

Told(l) == l = [h \in Headings |-> l[h]] /\ l.failed \in Nat

Clear(l) == ~l.limit /\ l.failed = 0 /\ "empty page" \notin l.issues

Worse(l, k) ==
    /\ Told(k) /\ l.cache \subseteq k.cache
    /\ Clear(k) => Clear(l) /\ (l.failures = {} => k.failures = {})

LEMMA WorseAgain ==
    ASSUME NEW l, NEW k, NEW m, Worse(l, k), Worse(k, m)
    PROVE  Worse(l, m)
BY DEF Worse

LEMMA NotWorse ==
    ASSUME NEW l, Told(l)
    PROVE  Worse(l, l)
BY DEF Worse

\* What is written under one heading leaves the others.
LEMMA Written ==
    ASSUME NEW l, l = [h \in Headings |-> l[h]], NEW h \in Headings, NEW x
    PROVE  LET k == [l EXCEPT ![h] = x]
           IN  k = [i \in Headings |-> k[i]] /\ k[h] = x /\ \A i \in Headings : i # h => k[i] = l[i]
OBVIOUS

LEMMA CutTells ==
    ASSUME NEW l, Told(l)
    PROVE  Worse(l, Cut(l)) /\ ~Clear(Cut(l)) /\ \A condition : Worse(l, CutIf(l, condition))
<1> DEFINE k == [l EXCEPT !["limit"] = TRUE]
<1>1. Cut(l) = k
  BY DEF Cut
<1>2. Told(k) /\ k.cache = l.cache /\ k.limit
  BY Written DEF Told, Headings
<1> HIDE DEF k
<1>3. Worse(l, Cut(l)) /\ ~Clear(Cut(l))
  BY <1>1, <1>2 DEF Worse, Clear
<1>4. \A condition : CutIf(l, condition) = Cut(l) \/ CutIf(l, condition) = l
  BY DEF CutIf
<1> QED  BY <1>3, <1>4, NotWorse

LEMMA IssueTells ==
    ASSUME NEW l, Told(l), NEW what
    PROVE  Worse(l, Issue(l, what)) /\ (what = "empty page" => ~Clear(Issue(l, what)))
<1> DEFINE k == [l EXCEPT !["issues"] = l.issues \cup {what}]
<1>1. Issue(l, what) = k
  BY DEF Issue
<1>2. /\ Told(k) /\ k.cache = l.cache /\ k.limit = l.limit /\ k.failed = l.failed /\ k.failures = l.failures
      /\ k.issues = l.issues \cup {what}
  BY Written DEF Told, Headings
<1> HIDE DEF k
<1> QED  BY <1>1, <1>2 DEF Worse, Clear

\* A failure is told of for good.
LEMMA FailureTells ==
    ASSUME NEW l, Told(l), NEW f, NEW n
    PROVE  /\ Worse(l, [Fails(l) EXCEPT !.failures = f]) /\ ~Clear([Fails(l) EXCEPT !.failures = f])
           /\ Worse(l, [Fails(l) EXCEPT !.flights = n]) /\ ~Clear([Fails(l) EXCEPT !.flights = n])
<1> DEFINE i == Issue(l, "failed")
           j == [i EXCEPT !["requests"] = i.requests + 1]
           k == [j EXCEPT !["failed"] = i.failed + 1]
           g == [k EXCEPT !["failures"] = f]
           h == [k EXCEPT !["flights"] = n]
<1>1. i = [x \in Headings |-> i[x]] /\ i.cache = l.cache /\ i.failed = l.failed
  BY Written DEF Issue, Told, Headings
<1>2. Fails(l) = k
  BY DEF Fails
<1> HIDE DEF i
<1>3. j = [x \in Headings |-> j[x]] /\ j.cache = l.cache
  BY <1>1, Written DEF Headings
<1> HIDE DEF j
<1>4. k = [x \in Headings |-> k[x]] /\ k.cache = l.cache /\ k.failed = l.failed + 1
  BY <1>1, <1>3, Written DEF Headings
<1> HIDE DEF k
<1>5. g = [x \in Headings |-> g[x]] /\ g.cache = l.cache /\ g.failed = l.failed + 1
  BY <1>4, Written DEF Headings
<1>6. h = [x \in Headings |-> h[x]] /\ h.cache = l.cache /\ h.failed = l.failed + 1
  BY <1>4, Written DEF Headings
<1>7. g = [k EXCEPT !.failures = f] /\ h = [k EXCEPT !.flights = n]
  OBVIOUS
<1> HIDE DEF g, h
<1>8. l.failed + 1 \in Nat /\ l.failed + 1 # 0
  BY DEF Told
<1>9. Worse(l, g) /\ ~Clear(g) /\ Worse(l, h) /\ ~Clear(h)
  BY <1>5, <1>6, <1>8 DEF Worse, Clear, Told
<1> QED  BY <1>2, <1>7, <1>9

\* A call that leaves the ledger clear brought its answer.
LEMMA AnswersTell ==
    ASSUME Told(ledger), NEW q, NEW r \in Answers(q)
    PROVE  /\ Worse(ledger, r.ledger)
           /\ ~expired /\ ledger.failures = {} /\ Clear(r.ledger)
                => r.ok /\ r.ledger.cache = ledger.cache \cup {q}
<1> DEFINE hit == [ledger EXCEPT !.requests = @ + 1, !.cache = @ \cup {q}]
           miss == [Fails(ledger) EXCEPT !.failures = @ \cup {q}]
<1>1. \/ q \in ledger.cache /\ r = Reply(TRUE, ledger)
      \/ (q \in ledger.failures \/ expired) /\ r = Reply(FALSE, ledger)
      \/ r = Reply(FALSE, Cut(ledger))
      \/ r = Reply(TRUE, hit)
      \/ r = Reply(FALSE, miss)
  BY DEF Answers
<1>2. \A b, l : Reply(b, l).ok = b /\ Reply(b, l).ledger = l
  BY DEF Reply
<1>3. Worse(ledger, hit) /\ hit.cache = ledger.cache \cup {q}
  <2> DEFINE j == [ledger EXCEPT !["requests"] = ledger.requests + 1]
             k == [j EXCEPT !["cache"] = ledger.cache \cup {q}]
  <2>1. hit = k
    OBVIOUS
  <2>2. /\ j = [x \in Headings |-> j[x]] /\ j.limit = ledger.limit /\ j.failed = ledger.failed
        /\ j.failures = ledger.failures /\ j.issues = ledger.issues
    BY Written DEF Told, Headings
  <2> HIDE DEF j, hit
  <2>3. /\ k = [x \in Headings |-> k[x]] /\ k.cache = ledger.cache \cup {q} /\ k.limit = ledger.limit
        /\ k.failed = ledger.failed /\ k.failures = ledger.failures /\ k.issues = ledger.issues
    BY <2>2, Written DEF Headings
  <2> HIDE DEF k
  <2> QED  BY <2>1, <2>3 DEF Worse, Clear, Told
<1>4. Worse(ledger, miss) /\ ~Clear(miss)
  BY FailureTells
<1> HIDE DEF hit, miss
<1>5. Worse(ledger, ledger) /\ Worse(ledger, Cut(ledger)) /\ ~Clear(Cut(ledger))
  BY NotWorse, CutTells
<1>6. CASE q \in ledger.cache /\ r = Reply(TRUE, ledger)
  <2>1. r.ok /\ r.ledger = ledger
    BY <1>2, <1>6
  <2>2. ledger.cache = ledger.cache \cup {q}
    BY <1>6
  <2> QED  BY <1>5, <2>1, <2>2
<1>7. CASE (q \in ledger.failures \/ expired) /\ r = Reply(FALSE, ledger)
  <2>1. r.ledger = ledger
    BY <1>2, <1>7
  <2> QED  BY <1>5, <1>7, <2>1
<1>8. CASE r = Reply(FALSE, Cut(ledger))
  BY <1>2, <1>5, <1>8
<1>9. CASE r = Reply(TRUE, hit)
  BY <1>2, <1>3, <1>9
<1>10. CASE r = Reply(FALSE, miss)
  BY <1>2, <1>4, <1>10
<1> QED  BY <1>1, <1>6, <1>7, <1>8, <1>9, <1>10

\* A scheme is added, unless the ledger tells that it is not.
LEMMA AddTells ==
    ASSUME Told(ledger), NEW legs, NEW dates, Add(legs, dates, ledger)
    PROVE  /\ Worse(ledger, ledger') /\ seen \subseteq seen'
           /\ Clear(ledger') => legs \in seen'
<1>1. \A what : Worse(ledger, Cut(Issue(ledger, what))) /\ ~Clear(Cut(Issue(ledger, what)))
  <2> SUFFICES ASSUME NEW what PROVE Worse(ledger, Cut(Issue(ledger, what))) /\ ~Clear(Cut(Issue(ledger, what)))
    OBVIOUS
  <2>1. Worse(ledger, Issue(ledger, what)) /\ Told(Issue(ledger, what))
    BY IssueTells DEF Worse
  <2> QED  BY <2>1, CutTells, WorseAgain
<1>2. Worse(ledger, ledger)
  BY NotWorse
<1>3. \/ legs \in seen /\ seen' = seen /\ ledger' = ledger
      \/ seen' = seen \cup {legs} /\ ledger' = ledger
      \/ seen' = seen /\ ledger' = Cut(Issue(ledger, "variants"))
      \/ seen' = seen /\ ledger' = Cut(Issue(ledger, "schemes"))
  BY DEF Add, schemes
<1> QED  BY <1>1, <1>2, <1>3

LEMMA StepTells ==
    ASSUME Told(ledger), Step
    PROVE  Worse(ledger, ledger')
<1>1. Worse(ledger, ledger)
  BY NotWorse
<1>2. ASSUME NEW q, NEW r \in Answers(q)
      PROVE  Worse(ledger, r.ledger) /\ Worse(ledger, Cut(r.ledger)) /\ \A what : Worse(ledger, Issue(r.ledger, what))
  <2>1. Worse(ledger, r.ledger) /\ Told(r.ledger)
    BY AnswersTell DEF Worse
  <2> QED  BY <2>1, CutTells, IssueTells, WorseAgain
<1>3. \A what : Worse(ledger, Issue(ledger, what)) /\ Worse(ledger, Cut(Issue(ledger, what)))
  <2> SUFFICES ASSUME NEW what PROVE Worse(ledger, Issue(ledger, what)) /\ Worse(ledger, Cut(Issue(ledger, what)))
    OBVIOUS
  <2>1. Worse(ledger, Issue(ledger, what)) /\ Told(Issue(ledger, what))
    BY IssueTells DEF Worse
  <2> QED  BY <2>1, CutTells, WorseAgain
<1>4. Worse(ledger, Cut(ledger)) /\ \A condition : Worse(ledger, CutIf(ledger, condition))
  BY CutTells
<1>5. CASE Settlement
  BY <1>2, <1>5 DEF Settlement
<1>6. CASE SearchPage
  <2>1. PICK r \in Answers(<<"search", Job.from, Job.to, Job.page>>) :
            ledger' = r.ledger \/ ledger' = Issue(r.ledger, "empty page") \/ ledger' = Cut(r.ledger)
    BY <1>6 DEF SearchPage
  <2> QED  BY <1>2, <2>1
<1>7. CASE UseLeg
  <2>1. ledger' = ledger \/ \E legs : Add(legs, {}, ledger)
    BY <1>7 DEF UseLeg
  <2> QED  BY <1>1, <2>1, AddTells
<1>8. CASE ArrivalsPage
  BY <1>2, <1>8 DEF ArrivalsPage
<1>9. CASE ThreadKnown
  BY <1>1, <1>9 DEF ThreadKnown
<1>10. CASE ThreadBeyondBudget
  BY <1>4, <1>10 DEF ThreadBeyondBudget
<1>11. CASE Thread
  <2>1. PICK r \in Answers(<<"thread", Job.thread.number>>) :
            ledger' = r.ledger \/ ledger' = Issue(r.ledger, "mismatch")
    BY <1>11 DEF Thread
  <2> QED  BY <1>2, <2>1
<1>12. CASE PageArrived
  BY <1>4, <1>12 DEF PageArrived
<1>13. CASE SortFlights
  BY <1>1, <1>13 DEF SortFlights
<1>14. CASE Flight
  <2>1. \/ ledger' = ledger \/ ledger' = Cut(ledger) \/ ledger' = Issue(ledger, "unmapped")
        \/ (\E condition : ledger' = CutIf(ledger, condition)) \/ \E legs : Add(legs, {}, ledger)
    BY <1>14 DEF Flight
  <2> QED  BY <1>1, <1>3, <1>4, <2>1, AddTells
<1>15. CASE Stations
  BY <1>2, <1>15 DEF Stations
<1>16. CASE Google
  BY <1>1, <1>3, <1>16 DEF Google
<1>17. CASE FlightPaths
  <2>1. Worse(ledger, [ledger EXCEPT !.requests = @ + 1, !.flights = @ + 1])
    <3> DEFINE j == [ledger EXCEPT !["requests"] = ledger.requests + 1]
               k == [j EXCEPT !["flights"] = ledger.flights + 1]
    <3>1. [ledger EXCEPT !.requests = @ + 1, !.flights = @ + 1] = k
      OBVIOUS
    <3>2. /\ j = [x \in Headings |-> j[x]] /\ j.limit = ledger.limit /\ j.failed = ledger.failed
          /\ j.cache = ledger.cache /\ j.failures = ledger.failures /\ j.issues = ledger.issues
      BY Written DEF Told, Headings
    <3> HIDE DEF j
    <3>3. /\ k = [x \in Headings |-> k[x]] /\ k.cache = ledger.cache /\ k.limit = ledger.limit
          /\ k.failed = ledger.failed /\ k.failures = ledger.failures /\ k.issues = ledger.issues
      BY <3>2, Written DEF Headings
    <3> HIDE DEF k
    <3>4. Worse(ledger, k)
      BY <3>3 DEF Worse, Clear, Told
    <3> QED  BY <3>1, <3>4
  <2>2. Worse(ledger, [Fails(ledger) EXCEPT !.flights = @ + 1])
    BY FailureTells
  <2> QED  BY <1>1, <1>3, <1>17, <2>1, <2>2 DEF FlightPaths
<1>18. CASE ObservePath \/ Resolve \/ Combine
  BY <1>1, <1>18 DEF ObservePath, Resolve, Combine
<1>19. CASE Reach
  BY <1>1, <1>4, <1>19 DEF Reach
<1>20. CASE AddPath
  BY <1>20, AddTells DEF AddPath
<1> QED
  BY <1>5, <1>6, <1>7, <1>8, <1>9, <1>10, <1>11, <1>12, <1>13, <1>14, <1>15, <1>16, <1>17, <1>18, <1>19, <1>20 DEF Step

------------------------------------------------------------------------------
(***************************************************************************)
(* What a plan that tells of nothing cut still has to do: until all that   *)
(* there is to find is kept, a task on the agenda leads to it.             *)
(***************************************************************************)
Due(t) == t \in ToSet(agenda)

Awaits(do) == \E t \in ToSet(agenda) : t.do = do

\* The task puts this leg to this purpose, unless a call fails or a list is cut.
Brings(t, leg, purpose) ==
    /\ Asks(t) /\ t.purpose = purpose
    /\ \/ t.do = "use" /\ t.leg = leg
       \/ /\ t.do = "search"
          /\ \/ leg \in ToSet(t.found)
             \/ \E i \in t.page..Len(PagesOf(t.from, t.to)) : leg \in PagesOf(t.from, t.to)[i]
       \/ t.do = "stations" /\ leg \in TrainLegs(t.hub)

Brought(leg, purpose) == \E t \in ToSet(agenda) : Brings(t, leg, purpose)

CityKnown == Awaits("settlement") \/ (world.settlements = 1 => city)

DirectComes == \A leg \in DirectLegs : Brought(leg, Task("direct", 0)) \/ <<leg>> \in seen

ListedComes == \A leg \in Listed : Brought(leg, Task("incoming", 0)) \/ leg \in ToSet(incoming)

\* What of a page of arrivals was answered lands, or is to be looked at.
ArrivingComes ==
    \A b \in ToSet(Destinations) : \A i \in DOMAIN ArrivalsOf(b) :
        <<"arrivals", Iata(b), i>> \in ledger.cache =>
            \A t \in ToSet(ArrivalsOf(b)[i]) :
                \/ \E u \in ToSet(agenda) : u.do = "thread" /\ u.thread = t /\ Iata(u.to) = Iata(b)
                \/ Landing(b, t) \subseteq ToSet(incoming)

LookedUpLands ==
    \A u \in ToSet(agenda) : Underway(u) =>
        \A t \in Threads(u.to) : t.number \in discovery.numbers => Landing(u.to, t) \subseteq ToSet(incoming)

FlightsTaken ==
    Awaits("flights") \/ \A leg \in ToSet(incoming) : Due(Task("flight", leg)) \/ <<leg.from, leg.to>> \in pairs

TakenJoined ==
    \A leg \in Connecting : <<leg.from, leg.to>> \in pairs =>
        \A w \in Feeders(HubOf(leg)) : Onward(w, leg) =>
            w \o <<leg>> \in seen \/ (w # <<>> /\ Brought(w[1], Task("hub", leg)))

PairsAsked == Awaits("google") \/ limits.flights = 0 \/ world.dates = <<>> \/ DOMAIN chains = DOMAIN FlightPairs

PathsNoted ==
    \A i \in DOMAIN chains : \A d \in ToSet(world.dates) :
        \/ Due([do |-> "paths", chain |-> i, date |-> d])
        \/ \A x \in SeenOn(i, d) : \/ Due([do |-> "observe", chain |-> i, date |-> d, legs |-> x])
                                   \/ \E k \in DOMAIN chains[i].paths : chains[i].paths[k].legs = x

\* The way w to airport a is known, or is looked for.
Sought(a, w) == w \in ToSet(access[a]) \/ Due(Task("reach", a)) \/ (w # <<>> /\ Brought(w[1], Task("access", a)))

WaysSought ==
    \A i \in DOMAIN chains : chains[i].paths # <<>> /\ ~Awaits("resolve") =>
        chains[i].from \in DOMAIN access /\ \A w \in Feeders(chains[i].from) : Sought(chains[i].from, w)

PathsJoined ==
    \A i \in DOMAIN chains : ~Awaits("resolve") =>
        \A k \in DOMAIN chains[i].paths : \A w \in ToSet(Ways(chains[i].from)) :
            \/ \E t \in ToSet(agenda) : t.do = "combine" /\ t.subject <= k
            \/ \E t \in ToSet(agenda) : t.do = "add" /\ t.legs = w \o chains[i].paths[k].legs
            \/ w \o chains[i].paths[k].legs \in seen

Covered ==
    /\ Orderly(agenda) /\ ledger.failures = {}
    /\ CityKnown /\ DirectComes /\ ListedComes /\ ArrivingComes /\ LookedUpLands /\ FlightsTaken /\ TakenJoined
    /\ PairsAsked /\ PathsNoted /\ WaysSought /\ PathsJoined

\* The inductive invariant of what is told.
Telling == Told(ledger) /\ (Clean /\ NamesTell => Covered)

\* A step of such a plan.
Going == Planned /\ Told(ledger) /\ Step /\ Clean /\ Clear(ledger') /\ NamesTell /\ Covered

LEMMA MapStaysToo ==
    ASSUME UNCHANGED <<world, limits>>
    PROVE  /\ DirectLegs' = DirectLegs /\ Listed' = Listed /\ NamesTell' = NamesTell
           /\ \A t, leg, purpose : Brings(t, leg, purpose)' = Brings(t, leg, purpose)
           /\ \A b, t : Landing(b, t)' = Landing(b, t)
<1>1. DirectLegs' = DirectLegs
  BY MapStays DEF DirectLegs, LegsAcross
<1>2. Listed' = Listed
  BY MapStays DEF Listed, LegsAcross
<1>3. NamesTell' = NamesTell
  BY MapStays DEF NamesTell
<1>4. \A a : TrainLegs(a)' = TrainLegs(a)
  BY MapStays DEF TrainLegs
<1>5. \A t, leg, purpose : Brings(t, leg, purpose)' = Brings(t, leg, purpose)
  BY <1>4, MapStays DEF Brings
<1> QED  BY <1>1, <1>2, <1>3, <1>5 DEF Landing

LEMMA GoingFacts ==
    ASSUME Going
    PROVE  /\ UNCHANGED <<world, limits, expired>> /\ ~expired /\ Clear(ledger) /\ Given /\ Orderly(agenda)
           /\ agenda # <<>> /\ Job \in Tasks /\ Job \in ToSet(agenda)
           /\ ToSet(agenda) = {Job} \cup ToSet(Tail(agenda))
           /\ DOMAIN agenda = 1..Len(agenda) /\ Len(agenda) \in Nat \ {0} /\ agenda[1] = Job
<1>1. UNCHANGED <<world, limits, expired>>
  BY DEF Going, Step
<1>2. agenda # <<>>
  BY DEF Going, Step, Settlement, SearchPage, UseLeg, ArrivalsPage, ThreadKnown, ThreadBeyondBudget, Thread, PageArrived,
     SortFlights, Flight, Stations, Google, FlightPaths, ObservePath, Resolve, Reach, Combine, AddPath, Doing
<1>3. ~expired /\ Clear(ledger)
  BY DEF Going, Clean, Clear
<1>4. agenda \in Seq(Tasks) /\ Given
  BY DEF Going, Planned, FlightsKnown
<1>5. Job \in ToSet(agenda) /\ ToSet(agenda) = {Job} \cup ToSet(Tail(agenda)) /\ agenda[1] = Job
  BY <1>2, <1>4, HeadAndTailHave, HeadTailProperties DEF Job
<1>6. DOMAIN agenda = 1..Len(agenda) /\ Len(agenda) \in Nat \ {0}
  BY <1>2, <1>4
<1> QED  BY <1>1, <1>2, <1>3, <1>4, <1>5, <1>6, JobType DEF Going, Covered

\* A task that is not replaced by anything.
LEMMA NoneMoves ==
    ASSUME Going, Replace(<<>>)
    PROVE  Advanced
<1>1. PICK none \in Seq(Tasks) : none = <<>>
  BY EmptyList
<1>2. Fits(none)
  <2>1. Underway(Job) => Arrives(Job)
    BY DEF Underway, Arrives
  <2> QED  BY <1>1, <2>1 DEF Fits
<1> QED  BY <1>1, <1>2, GoingFacts, Moves DEF Going

\* A fresh search brings what is on its pages.
LEMMA SearchBrings ==
    ASSUME Given, NEW from, NEW to, NEW mode, NEW purpose, NEW leg \in LegsOf(from, to)
    PROVE  Brings(Search(from, to, mode, purpose), leg, purpose)
<1> DEFINE t == Search(from, to, mode, purpose)
<1>1. t.do = "search" /\ t.purpose = purpose /\ t.from = from /\ t.to = to /\ t.page = 1
  BY DEF Search
<1>2. \E i \in 1..Len(PagesOf(from, to)) : leg \in PagesOf(from, to)[i]
  BY PagesType DEF LegsOf
<1> HIDE DEF t
<1>3. Brings(t, leg, purpose)
  BY <1>1, <1>2 DEF Brings, Asks
<1> QED  BY <1>3 DEF t

LEMMA ApproachBrings ==
    ASSUME Given, world.settlements = 1 => city, city => world.settlements = 1, NEW a \in Airports, NEW purpose,
           NEW leg \in FeederLegs(a)
    PROVE  \E t \in ToSet(Approach(a, purpose)) : Brings(t, leg, purpose)
<1> DEFINE near == Near(AroundHub[a])
           rail == IF city THEN <<[do |-> "stations", hub |-> a, purpose |-> purpose]>> ELSE <<>>
           air == Searches(Pairs(Origins, near), purpose)
           T == FlightSearches(ToSet(Origins), ToSet(near), purpose) \cup {StationTask(a, purpose)}
<1>1. near \in Seq(ToSet(near)) /\ Origins \in Seq(ToSet(Origins))
  BY PlacesType, ListOfItsOwn
<1>2. Pairs(Origins, near) \in Seq(Between(ToSet(Origins), ToSet(near)))
  BY <1>1, PairsType
<1>3. air \in Seq(T)
  BY <1>2, SearchesType, ListOfMore
<1>4. rail \in Seq(T)
  <2>1. rail = IF city THEN <<StationTask(a, purpose)>> ELSE <<>>
    BY DEF StationTask
  <2>2. StationTask(a, purpose) \in T
    OBVIOUS
  <2> HIDE DEF rail, T
  <2>3. <<StationTask(a, purpose)>> \in Seq(T)
    BY <2>2
  <2>4. \E none \in Seq(T) : none = <<>>
    BY EmptyList
  <2> QED  BY <2>1, <2>3, <2>4
<1>5. ToSet(Approach(a, purpose)) = ToSet(rail) \cup ToSet(air)
  <2>1. Approach(a, purpose) = rail \o air
    BY DEF Approach
  <2> HIDE DEF rail, air, T
  <2> QED  BY <1>3, <1>4, <2>1, ConcatHas
<1>6. CASE leg \in TrainLegs(a)
  <2>1. city
    BY <1>6 DEF TrainLegs, Stops
  <2>2. StationTask(a, purpose) \in ToSet(rail)
    BY <2>1 DEF ToSet, StationTask
  <2>3. Brings(StationTask(a, purpose), leg, purpose)
    BY <1>6 DEF Brings, Asks, StationTask
  <2> QED  BY <1>5, <2>2, <2>3
<1>7. CASE leg \in LocalLegs(a)
  <2>1. PICK p \in Between(ToSet(Origins), ToSet(near)) : leg \in LegsOf(Iata(p[1]), Iata(p[2]))
    BY <1>7 DEF LocalLegs, LegsAcross
  <2>2. p \in ToSet(Pairs(Origins, near))
    BY <1>1, <2>1, PairsHave
  <2>3. FlightSearch(p, purpose) \in ToSet(air)
    BY <1>2, <2>2, SearchesHave
  <2>4. Brings(FlightSearch(p, purpose), leg, purpose)
    BY <2>1, SearchBrings DEF FlightSearch
  <2> QED  BY <1>5, <2>3, <2>4
<1> QED  BY <1>6, <1>7 DEF FeederLegs

------------------------------------------------------------------------------
(* What the steps do when nothing is cut *)
LEMMA SettlementDoes ==
    ASSUME Going, Settlement
    PROVE  Advanced /\ (world.settlements = 1 => city')
<1>1. Replace(<<>>)
  BY DEF Settlement
<1>2. PICK r \in Answers(<<"settlement">>) : ledger' = r.ledger /\ city' = (r.ok /\ world.settlements = 1)
  BY DEF Settlement
<1>3. r.ok
  BY <1>2, AnswersTell, GoingFacts DEF Going, Covered
<1> QED  BY <1>1, <1>2, <1>3, NoneMoves

LEMMA UsesHave ==
    ASSUME NEW q, NEW n, NEW s \in Seq(LegsOf(q.from, q.to))
    PROVE  LET U == {[do |-> "use", leg |-> l, purpose |-> q.purpose] : l \in LegsOf(q.from, q.to)}
           IN  /\ Uses(SearchTask(q, n, s)) \in Seq(U)
               /\ \A l \in ToSet(s) : [do |-> "use", leg |-> l, purpose |-> q.purpose] \in ToSet(Uses(SearchTask(q, n, s)))
<1> DEFINE t == SearchTask(q, n, s)
           U == {[do |-> "use", leg |-> l, purpose |-> q.purpose] : l \in LegsOf(q.from, q.to)}
<1>1. t.found = s /\ t.purpose = q.purpose
  BY DEF SearchTask
<1> HIDE DEF t
<1>2. Uses(t) = [i \in 1..Len(s) |-> [do |-> "use", leg |-> s[i], purpose |-> q.purpose]] /\ Len(s) \in Nat
  BY <1>1 DEF Uses
<1>3. Uses(t) \in Seq(U)
  <2>1. Uses(t) \in [1..Len(s) -> U]
    BY <1>2
  <2> QED  BY <1>2, <2>1, IsASeq
<1>4. ASSUME NEW l \in ToSet(s) PROVE [do |-> "use", leg |-> l, purpose |-> q.purpose] \in ToSet(Uses(t))
  <2>1. PICK i \in 1..Len(s) : s[i] = l
    BY Members
  <2>2. i \in DOMAIN Uses(t) /\ Uses(t)[i] = [do |-> "use", leg |-> l, purpose |-> q.purpose]
    BY <1>2, <2>1
  <2> QED  BY <2>2 DEF ToSet
<1> QED  BY <1>3, <1>4 DEF t

\* A search that goes on, or ends, brings what it was to bring.
LEMMA SearchPageDoes ==
    ASSUME Going, SearchPage
    PROVE  Advanced /\ \A leg, purpose : Brings(Job, leg, purpose) => Brought(leg, purpose)'
<1>1. agenda # <<>> /\ Job.do = "search" /\ Given /\ Planned /\ Orderly(agenda)
  BY GoingFacts DEF SearchPage, Doing, Job, Going
<1>2a. PICK q \in Begun :
           Job \in {SearchTask(q, n, s) : n \in DOMAIN PagesOf(q.from, q.to), s \in Seq(LegsOf(q.from, q.to))}
  BY <1>1, JobType, TaskKinds DEF SearchTasks
<1>2. PICK n \in DOMAIN PagesOf(q.from, q.to), s \in Seq(LegsOf(q.from, q.to)) : Job = SearchTask(q, n, s)
  BY <1>2a
<1>3. Job.from = q.from /\ Job.to = q.to /\ Job.page = n /\ Job.found = s /\ Job.purpose = q.purpose
  BY <1>2 DEF SearchTask
<1> DEFINE pages == PagesOf(q.from, q.to)
           L == LegsOf(q.from, q.to)
           new == SetToSeq(pages[n] \ ToSet(s))
           found == s \o new
           task == [Job EXCEPT !.found = @ \o new]
           U == {[do |-> "use", leg |-> l, purpose |-> q.purpose] : l \in L}
           P == {SearchTask(q, n + 1, found)}
<1>4. /\ DOMAIN pages = 1..Len(pages) /\ Len(pages) \in Nat /\ n \in DOMAIN pages
      /\ IsFiniteSet(pages[n]) /\ pages[n] \subseteq L
  BY <1>1, PagesType
<1>5. found \in Seq(L) /\ ToSet(found) = ToSet(s) \cup pages[n]
  <2>1. IsFiniteSet(pages[n] \ ToSet(s))
    <3>1. (pages[n] \ ToSet(s)) \in SUBSET pages[n]
      OBVIOUS
    <3> QED  BY <1>4, <3>1, FS_Subset
  <2>2. new \in Seq(pages[n] \ ToSet(s)) /\ ToSet(new) = pages[n] \ ToSet(s)
    BY <2>1, SetToSeqType
  <2>3. new \in Seq(L)
    BY <1>4, <2>2, ListOfMore
  <2>4. s \in Seq(L)
    OBVIOUS
  <2> HIDE DEF new, L
  <2>5. found \in Seq(L) /\ ToSet(found) = ToSet(s) \cup ToSet(new)
    BY <2>3, <2>4, ConcatHas
  <2> QED  BY <2>2, <2>5
<1>6. task = SearchTask(q, n, found) /\ [task EXCEPT !.page = @ + 1] = SearchTask(q, n + 1, found)
  <2>1. task = [Job EXCEPT !.found = found]
    BY <1>3
  <2> HIDE DEF task, found
  <2>2. task = SearchTask(q, n, found)
    BY <1>2, <2>1, SearchGoesOn
  <2> QED  BY <2>2, SearchGoesOn
<1>7. \/ Replace(Uses(SearchTask(q, n, found))) /\ n = Len(pages)
      \/ Replace(<<SearchTask(q, n + 1, found)>>)
  <2>1. PICK r \in Answers(<<"search", Job.from, Job.to, Job.page>>) :
            \/ ~r.ok /\ ledger' = r.ledger
            \/ n = Len(pages) /\ Replace(Uses(task)) /\ ledger' = r.ledger
            \/ ledger' = Issue(r.ledger, "empty page")
            \/ ledger' = Cut(r.ledger)
            \/ Replace(<<[task EXCEPT !.page = @ + 1]>>)
    BY <1>3 DEF SearchPage
  <2>2. Told(r.ledger) /\ (ledger' = r.ledger => r.ok)
    BY AnswersTell, GoingFacts DEF Going, Covered, Worse
  <2>3. ledger' # Issue(r.ledger, "empty page") /\ ledger' # Cut(r.ledger)
    BY <2>2, IssueTells, CutTells DEF Going
  <2> HIDE DEF task
  <2> QED  BY <1>6, <2>1, <2>2, <2>3
<1> HIDE DEF task, found, new, pages
<1>8. ASSUME NEW t, Asks(t), t.purpose = q.purpose
      PROVE  ~Underway(t) /\ t.do # "settlement" /\ \A c \in Closers : Needs(t, c) => Needs(Job, c)
  BY <1>1, <1>3, <1>8 DEF Asks, Needs, Underway, Arrives
<1>9. ~Underway(Job)
  BY <1>1 DEF Underway
<1>10. ASSUME NEW leg, NEW purpose, Brings(Job, leg, purpose)
       PROVE  purpose = q.purpose /\ (leg \in ToSet(s) \/ \E i \in n..Len(pages) : leg \in pages[i])
  BY <1>1, <1>3, <1>10 DEF Brings, pages
<1>11. \A t, leg, purpose : t \in ToSet(agenda') /\ Brings(t, leg, purpose) => Brought(leg, purpose)'
  BY MapStaysToo, GoingFacts DEF Brought
<1>12. CASE Replace(Uses(SearchTask(q, n, found))) /\ n = Len(pages)
  <2> DEFINE tasks == Uses(SearchTask(q, n, found))
  <2>1. tasks \in Seq(U) /\ \A l \in ToSet(found) : [do |-> "use", leg |-> l, purpose |-> q.purpose] \in ToSet(tasks)
    BY <1>5, UsesHave
  <2>2. \A t \in U : Asks(t) /\ t.purpose = q.purpose
    BY DEF Asks
  <2> HIDE DEF U, tasks
  <2>3. Fits(tasks)
    BY <1>8, <1>9, <2>1, <2>2, FitsPlain
  <2>4. Advanced /\ ToSet(tasks) \subseteq ToSet(agenda')
    BY <1>1, <1>12, <2>1, <2>3, Moves DEF tasks
  <2>5. ASSUME NEW leg, NEW purpose, Brings(Job, leg, purpose) PROVE Brought(leg, purpose)'
    <3>1. leg \in ToSet(found) /\ purpose = q.purpose
      BY <1>4, <1>5, <1>10, <1>12, <2>5
    <3> DEFINE u == [do |-> "use", leg |-> leg, purpose |-> purpose]
    <3>2. u \in ToSet(agenda')
      BY <2>1, <2>4, <3>1
    <3>3. Brings(u, leg, purpose)
      BY DEF Brings, Asks
    <3> QED  BY <1>11, <3>2, <3>3
  <2> QED  BY <2>4, <2>5
<1>13. CASE Replace(<<SearchTask(q, n + 1, found)>>)
  <2> DEFINE t == SearchTask(q, n + 1, found)
             tasks == <<t>>
  <2>1. t.do = "search" /\ t.purpose = q.purpose /\ t.found = found /\ t.page = n + 1 /\ t.from = q.from /\ t.to = q.to
    BY DEF SearchTask
  <2> HIDE DEF t
  <2>2. tasks \in Seq({t}) /\ ToSet(tasks) = {t}
    BY DEF ToSet
  <2>4. Replace(tasks)
    BY <1>13 DEF t
  <2> HIDE DEF tasks
  <2>3. Fits(tasks)
    <3>1. \A x \in {t} : ~Underway(x) /\ x.do # "settlement" /\ \A c \in Closers : Needs(x, c) => Needs(Job, c)
      BY <1>8, <2>1 DEF Asks
    <3> QED  BY <1>9, <2>2, <3>1, FitsPlain
  <2>5. Advanced /\ ToSet(tasks) \subseteq ToSet(agenda')
    BY <1>1, <2>2, <2>3, <2>4, Moves
  <2>6. ASSUME NEW leg, NEW purpose, Brings(Job, leg, purpose) PROVE Brought(leg, purpose)'
    <3>1. purpose = q.purpose /\ (leg \in ToSet(found) \/ \E i \in (n + 1)..Len(pages) : leg \in pages[i])
      <4>1. \A i \in n..Len(pages) : i = n \/ i \in (n + 1)..Len(pages)
        BY <1>4
      <4> QED  BY <1>5, <1>10, <2>6, <4>1
    <3>2. Brings(t, leg, purpose)
      BY <2>1, <3>1 DEF Brings, Asks, pages
    <3> QED  BY <1>11, <2>2, <2>5, <3>2
  <2> QED  BY <2>5, <2>6
<1> QED  BY <1>7, <1>12, <1>13

LEMMA StationsDoes ==
    ASSUME Going, Stations
    PROVE  Advanced /\ \A leg, purpose : Brings(Job, leg, purpose) => Brought(leg, purpose)'
<1> DEFINE near == StationsOf(Job.hub)
           tasks == [i \in DOMAIN near |-> Search("city", near[i], "train", Job.purpose)]
           T == {Search("city", x, "train", Job.purpose) : x \in ToSet(near)}
<1>1. agenda # <<>> /\ Job.do = "stations" /\ Given /\ Planned /\ Orderly(agenda)
  BY GoingFacts DEF Stations, Doing, Job, Going
<1>2. Replace(tasks)
  <2>1. PICK r \in Answers(<<"stations", Iata(Job.hub)>>) :
            ledger' = r.ledger /\ (r.ok => Replace(tasks))
    BY DEF Stations
  <2>2. r.ok
    BY <2>1, AnswersTell, GoingFacts DEF Going, Covered
  <2> QED  BY <2>1, <2>2
<1>3. near \in Seq(ToSet(near)) /\ DOMAIN near = 1..Len(near) /\ Len(near) \in Nat
  <2>1. near \in Seq(ToSet(near))
    BY <1>1, StationsType
  <2> HIDE DEF near
  <2> QED  BY <2>1
<1>4. ToSet(near) = Stops(Job.hub)
  <2>1. world.settlements = 1
    BY <1>1, JobType, TaskKinds DEF StationTasks
  <2> QED  BY <2>1 DEF Stops
<1> HIDE DEF near
<1>5. tasks \in Seq(T)
  <2>1. ASSUME NEW i \in 1..Len(near) PROVE tasks[i] \in T
    BY <1>3 DEF ToSet
  <2>2. tasks \in [1..Len(near) -> T]
    BY <1>3, <2>1
  <2> QED  BY <1>3, <2>2, IsASeq
<1>6. \A t \in T : t.do = "search" /\ t.purpose = Job.purpose
  BY DEF Search
<1>7. ASSUME NEW x \in ToSet(near) PROVE Search("city", x, "train", Job.purpose) \in ToSet(tasks)
  <2>1. PICK i \in 1..Len(near) : near[i] = x
    BY <1>3, Members
  <2>2. i \in DOMAIN tasks /\ tasks[i] = Search("city", x, "train", Job.purpose)
    BY <1>3, <2>1
  <2> QED  BY <2>2 DEF ToSet
<1> HIDE DEF tasks, T
<1>8. Fits(tasks)
  <2>1. ASSUME NEW t \in T PROVE ~Underway(t) /\ t.do # "settlement" /\ \A c \in Closers : Needs(t, c) => Needs(Job, c)
    BY <1>1, <1>6 DEF Asks, Needs, Underway, Arrives
  <2>2. ~Underway(Job)
    BY <1>1 DEF Underway
  <2> QED  BY <1>5, <2>1, <2>2, FitsPlain
<1>9. Advanced /\ ToSet(tasks) \subseteq ToSet(agenda')
  BY <1>1, <1>2, <1>5, <1>8, Moves
<1>10. ASSUME NEW leg, NEW purpose, Brings(Job, leg, purpose) PROVE Brought(leg, purpose)'
  <2>1. purpose = Job.purpose /\ leg \in TrainLegs(Job.hub)
    BY <1>1, <1>10 DEF Brings
  <2>2. PICK x \in ToSet(near) : leg \in LegsOf("city", x)
    BY <1>4, <2>1 DEF TrainLegs
  <2>3. Search("city", x, "train", Job.purpose) \in ToSet(agenda')
    BY <1>7, <1>9
  <2>4. Brings(Search("city", x, "train", Job.purpose), leg, purpose)
    BY <1>1, <2>1, <2>2, SearchBrings
  <2> QED  BY <2>3, <2>4, MapStaysToo, GoingFacts DEF Brought
<1> QED  BY <1>9, <1>10

LEMMA UseLegDoes ==
    ASSUME Going, UseLeg
    PROVE  /\ Advanced
           /\ \A leg, purpose : Brings(Job, leg, purpose) =>
                /\ purpose = Task("direct", 0) => <<leg>> \in seen'
                /\ purpose = Task("incoming", 0) => leg \in ToSet(incoming')
                /\ \A f : purpose = Task("hub", f) /\ Onward(<<leg>>, f) => <<leg>> \o <<f>> \in seen'
                /\ \A a : purpose = Task("access", a) /\ a \in DOMAIN access => <<leg>> \in ToSet(access'[a])
<1>1. agenda # <<>> /\ Job.do = "use" /\ Replace(<<>>)
  BY DEF UseLeg, Doing, Job
<1>2. Advanced
  BY <1>1, NoneMoves
<1>3. Told(ledger) /\ Clear(ledger')
  BY DEF Going
<1> SUFFICES ASSUME NEW leg, NEW purpose, Brings(Job, leg, purpose)
             PROVE  /\ purpose = Task("direct", 0) => <<leg>> \in seen'
                    /\ purpose = Task("incoming", 0) => leg \in ToSet(incoming')
                    /\ \A f : purpose = Task("hub", f) /\ Onward(<<leg>>, f) => <<leg>> \o <<f>> \in seen'
                    /\ \A a : purpose = Task("access", a) /\ a \in DOMAIN access => <<leg>> \in ToSet(access'[a])
  BY <1>2
<1>4. Job.leg = leg /\ Job.purpose = purpose
  BY <1>1 DEF Brings
<1>5. ASSUME purpose = Task("direct", 0) PROVE <<leg>> \in seen'
  <2>1. purpose.do = "direct"
    BY <1>5 DEF Task
  <2>2. Add(<<leg>>, {}, ledger)
    BY <1>4, <2>1 DEF UseLeg
  <2> QED  BY <1>3, <2>2, AddTells
<1>6. ASSUME purpose = Task("incoming", 0) PROVE leg \in ToSet(incoming')
  <2>1. purpose.do = "incoming"
    BY <1>6 DEF Task
  <2>2. incoming' = Append(incoming, leg)
    BY <1>4, <2>1 DEF UseLeg
  <2>3. incoming \in Seq(Inbound \cup {leg})
    <3>1. incoming \in Seq(Inbound)
      BY DEF Going, Planned, FlightsKnown
    <3> QED  BY <3>1, ListOfMore
  <2>4. leg \in Inbound \cup {leg}
    OBVIOUS
  <2> QED  BY <2>2, <2>3, <2>4, AppendHas
<1>7. ASSUME NEW f, purpose = Task("hub", f), Onward(<<leg>>, f) PROVE <<leg>> \o <<f>> \in seen'
  <2>1. purpose.do = "hub" /\ purpose.subject = f
    BY <1>7 DEF Task
  <2>2. ~(leg.mode = "plane" /\ leg.from = f.to)
    BY <1>7 DEF Onward
  <2>3. Add(<<leg, f>>, {}, ledger)
    BY <1>4, <2>1, <2>2 DEF UseLeg
  <2> QED  BY <1>3, <2>3, AddTells, TwoLegs
<1>8. ASSUME NEW a, purpose = Task("access", a), a \in DOMAIN access PROVE <<leg>> \in ToSet(access'[a])
  <2>1. purpose.do = "access" /\ purpose.subject = a
    BY <1>8 DEF Task
  <2>2. access' = [access EXCEPT ![a] = Append(@, <<leg>>)]
    BY <1>4, <2>1 DEF UseLeg
  <2>3. access'[a] = Append(access[a], <<leg>>)
    BY <1>8, <2>2
  <2> DEFINE F == Feeders(a) \cup {<<leg>>}
  <2>4. access[a] \in Seq(F)
    <3>1. access[a] \in Seq(Feeders(a))
      BY <1>8 DEF Going, Planned, WaysKnown
    <3> QED  BY <3>1, ListOfMore
  <2>5. <<leg>> \in F
    OBVIOUS
  <2> HIDE DEF F
  <2> QED  BY <2>3, <2>4, <2>5, AppendHas
<1> QED  BY <1>5, <1>6, <1>7, <1>8

\* Tasks of the arrivals that are looked at.
LEMMA FitsUnderway ==
    ASSUME NEW T, NEW tasks \in Seq(T), Arrives(Job),
           \A t \in T : Underway(t) /\ t.to = Job.to
    PROVE  Fits(tasks)
<1>1. ASSUME NEW t \in T PROVE t.do # "settlement" /\ \A c \in Closers : Needs(t, c) => c = Task("flights", "sort")
  BY <1>1 DEF Underway, Needs, Asks, Arrives
<1>2. \A n \in DOMAIN tasks : tasks[n] \in T
  OBVIOUS
<1>3. Needs(Job, Task("flights", "sort"))
  BY DEF Needs
<1> QED  BY <1>1, <1>2, <1>3 DEF Fits

LEMMA ArrivalsPageDoes ==
    ASSUME Going, ArrivalsPage
    PROVE  /\ Advanced
           /\ Job.to \in ToSet(Destinations) /\ Job.page \in DOMAIN ArrivalsOf(Job.to)
           /\ ledger'.cache = ledger.cache \cup {<<"arrivals", Iata(Job.to), Job.page>>}
           /\ \A t \in ToSet(ArrivalsOf(Job.to)[Job.page]) :
                [do |-> "thread", thread |-> t, to |-> Job.to] \in ToSet(agenda')
           /\ IF Job.page = 1 THEN discovery'.numbers = {} ELSE Underway(Job) /\ discovery' = discovery
<1> DEFINE page == ArrivalsOf(Job.to)[Job.page]
           threads == [i \in DOMAIN page |-> [do |-> "thread", thread |-> page[i], to |-> Job.to]]
           arrived == [Job EXCEPT !.do = "arrived"]
           T == {[do |-> "thread", thread |-> t, to |-> Job.to] : t \in ToSet(page)}
           all == threads \o <<arrived>>
           U == T \cup {arrived}
<1>1. agenda # <<>> /\ Job.do = "arrivals" /\ Given /\ Planned /\ Orderly(agenda)
  BY GoingFacts DEF ArrivalsPage, Doing, Job, Going
<1>2. Replace(all) /\ ledger'.cache = ledger.cache \cup {<<"arrivals", Iata(Job.to), Job.page>>}
  <2>1. PICK r \in Answers(<<"arrivals", Iata(Job.to), Job.page>>) : ledger' = r.ledger /\ (r.ok => Replace(all))
    BY DEF ArrivalsPage
  <2>2. r.ok /\ ledger'.cache = ledger.cache \cup {<<"arrivals", Iata(Job.to), Job.page>>}
    BY <2>1, AnswersTell, GoingFacts DEF Going, Covered
  <2> QED  BY <2>1, <2>2
<1>3. Job \in ArrivalTasks
  BY <1>1, JobType, TaskKinds
<1>4. Job.to \in ToSet(Destinations) /\ Job.page \in DOMAIN ArrivalsOf(Job.to)
  BY <1>3, ArrivalJob
<1>5. page \in Seq(Threads(Job.to))
  BY <1>1, <1>4, ArrivalsType
<1>6. Underway(arrived) /\ arrived.to = Job.to
  <2>1. PICK b \in ToSet(Destinations) :
            Job \in {[do |-> k, to |-> b, page |-> n] : k \in {"arrivals", "arrived"}, n \in DOMAIN ArrivalsOf(b)}
    BY <1>3 DEF ArrivalTasks
  <2>2. PICK k \in {"arrivals", "arrived"}, n \in DOMAIN ArrivalsOf(b) : Job = [do |-> k, to |-> b, page |-> n]
    BY <2>1
  <2>3. arrived = [do |-> "arrived", to |-> b, page |-> n] /\ Job.to = b
    BY <2>2
  <2> QED  BY <2>3 DEF Underway
<1>7. IF Job.page = 1 THEN discovery'.numbers = {} ELSE Underway(Job) /\ discovery' = discovery
  <2>1. DOMAIN ArrivalsOf(Job.to) = 1..Len(ArrivalsOf(Job.to)) /\ Len(ArrivalsOf(Job.to)) \in Nat
    BY <1>1, ArrivalsType
  <2>2. Job.page = 1 \/ Job.page > 1
    BY <1>4, <2>1
  <2> QED  BY <1>1, <2>2 DEF ArrivalsPage, Underway
<1> HIDE DEF page, arrived
<1>8. threads \in Seq(T)
  <2>1. DOMAIN page = 1..Len(page) /\ Len(page) \in Nat
    BY <1>5
  <2>2. ASSUME NEW i \in 1..Len(page) PROVE [do |-> "thread", thread |-> page[i], to |-> Job.to] \in T
    BY <2>1 DEF ToSet
  <2>3. threads \in [1..Len(page) -> T]
    BY <2>1, <2>2
  <2> QED  BY <2>1, <2>3, IsASeq
<1>9. ASSUME NEW t \in ToSet(page) PROVE [do |-> "thread", thread |-> t, to |-> Job.to] \in ToSet(threads)
  <2>1. PICK i \in 1..Len(page) : page[i] = t
    BY <1>5, Members
  <2>2. i \in DOMAIN threads /\ threads[i] = [do |-> "thread", thread |-> t, to |-> Job.to]
    BY <1>5, <2>1
  <2> QED  BY <2>2 DEF ToSet
<1>10. \A t \in U : Underway(t) /\ t.to = Job.to
  BY <1>6 DEF Underway
<1> HIDE DEF threads, T
<1>11. all \in Seq(U) /\ ToSet(threads) \subseteq ToSet(all)
  <2> DEFINE one == <<arrived>>
  <2>1. threads \in Seq(U) /\ one \in Seq(U)
    BY <1>8, ListOfMore
  <2> HIDE DEF one, U
  <2>2. threads \o one \in Seq(U) /\ ToSet(threads \o one) = ToSet(threads) \cup ToSet(one)
    BY <2>1, ConcatHas
  <2> QED  BY <2>2 DEF one
<1> HIDE DEF U, all
<1>12. Fits(all)
  <2>1. Arrives(Job)
    BY <1>1 DEF Arrives
  <2> QED  BY <1>10, <1>11, <2>1, FitsUnderway
<1>13. Advanced /\ ToSet(all) \subseteq ToSet(agenda')
  BY <1>1, <1>2, <1>11, <1>12, Moves
<1> QED  BY <1>2, <1>4, <1>7, <1>9, <1>11, <1>13 DEF page

LEMMA PageArrivedDoes ==
    ASSUME Going, PageArrived
    PROVE  Advanced
<1> DEFINE next == Arrivals(Job.to, Job.page + 1)
<1>1. /\ agenda # <<>> /\ Job.do = "arrived" /\ Given /\ Planned /\ Orderly(agenda)
      /\ Replace(<<>>) \/ Replace(<<next>>)
  BY GoingFacts DEF PageArrived, Doing, Job, Going
<1>2. Job.page \in DOMAIN ArrivalsOf(Job.to) /\ DOMAIN ArrivalsOf(Job.to) = 1..Len(ArrivalsOf(Job.to))
  BY <1>1, JobType, TaskKinds, ArrivalJob, ArrivalsType
<1>3. Underway(next) /\ next.to = Job.to
  <2>1. Job.page + 1 > 1
    BY <1>2
  <2> QED  BY <2>1 DEF Underway, Arrivals
<1> DEFINE tasks == <<next>>
<1> HIDE DEF next
<1>4. tasks \in Seq({next})
  OBVIOUS
<1>5. Arrives(Job) /\ \A t \in {next} : Underway(t) /\ t.to = Job.to
  BY <1>1, <1>3 DEF Arrives
<1>6. Replace(<<next>>) => Replace(tasks)
  OBVIOUS
<1> HIDE DEF tasks
<1>7. CASE Replace(<<next>>)
  <2>1. Fits(tasks)
    BY <1>4, <1>5, FitsUnderway
  <2> QED  BY <1>1, <1>4, <1>6, <1>7, <2>1, Moves
<1>8. CASE Replace(<<>>)
  BY <1>8, NoneMoves
<1> QED  BY <1>1, <1>7, <1>8

LEMMA ThreadDoes ==
    ASSUME Going, Thread
    PROVE  /\ Advanced
           /\ Job.to \in ToSet(Destinations) /\ Job.thread \in Threads(Job.to)
           /\ ToSet(incoming) \cup Landing(Job.to, Job.thread) \subseteq ToSet(incoming')
<1> DEFINE fits == Landing(Job.to, Job.thread)
<1>1. agenda # <<>> /\ Job.do = "thread" /\ Replace(<<>>) /\ Given
  BY GoingFacts DEF Thread, Doing, Job
<1>2. incoming' = incoming \o SetToSeq(fits)
  <2>1. PICK r \in Answers(<<"thread", Job.thread.number>>) :
            /\ r.ok => incoming' = incoming \o SetToSeq(fits)
            /\ ledger' = r.ledger \/ (r.ok /\ ledger' = Issue(r.ledger, "mismatch"))
    BY DEF Thread
  <2>2. ledger' = r.ledger => r.ok
    BY AnswersTell, GoingFacts DEF Going, Covered
  <2> QED  BY <2>1, <2>2
<1>3a. PICK b \in ToSet(Destinations) : Job \in {[do |-> "thread", thread |-> t, to |-> b] : t \in Threads(b)}
  BY <1>1, JobType, TaskKinds DEF ThreadTasks, Going
<1>3. Job.to \in ToSet(Destinations) /\ Job.thread \in Threads(Job.to)
  BY <1>3a
<1>4. IsFiniteSet(fits)
  <2>1. IsFiniteSet(Job.thread.legs)
    BY <1>1, <1>3, ArrivalsType
  <2>2. fits \in SUBSET Job.thread.legs
    BY DEF Landing
  <2> QED  BY <2>1, <2>2, FS_Subset
<1> HIDE DEF fits
<1>5. SetToSeq(fits) \in Seq(fits) /\ ToSet(SetToSeq(fits)) = fits
  BY <1>4, SetToSeqType
<1>6. ToSet(incoming') = ToSet(incoming) \cup fits
  <2> DEFINE T == Inbound \cup fits
  <2>1. incoming \in Seq(Inbound)
    BY DEF Going, Planned, FlightsKnown
  <2>2. incoming \in Seq(T) /\ SetToSeq(fits) \in Seq(T)
    BY <1>5, <2>1, ListOfMore
  <2> HIDE DEF T
  <2> QED  BY <1>2, <1>5, <2>2, ConcatHas
<1>7. Advanced
  BY <1>1, NoneMoves
<1> QED  BY <1>3, <1>6, <1>7 DEF fits

LEMMA SortFlightsDoes ==
    ASSUME Going, SortFlights
    PROVE  Advanced /\ \A leg \in ToSet(incoming) : Task("flight", leg) \in ToSet(agenda')
<1> DEFINE order == Ordered(DOMAIN incoming, NearestFirst)
           tasks == [i \in DOMAIN order |-> Task("flight", incoming[order[i]])]
           T == {Task("flight", leg) : leg \in Inbound}
<1>1. agenda # <<>> /\ Job.do = "flights" /\ Planned /\ Orderly(agenda) /\ Replace(tasks)
  BY GoingFacts DEF SortFlights, Doing, Job, Going
<1>2. incoming \in Seq(Inbound) /\ DOMAIN incoming = 1..Len(incoming) /\ Len(incoming) \in Nat
  <2>1. incoming \in Seq(Inbound)
    BY DEF Going, Planned, FlightsKnown
  <2> QED  BY <2>1
<1>3. IsFiniteSet(DOMAIN incoming) /\ Strict(DOMAIN incoming, NearestFirst)
  BY <1>2, FS_Interval, NearestFirstIsStrict
<1>4. order \in Seq(DOMAIN incoming) /\ \A k \in DOMAIN incoming : k \in ToSet(order)
  BY <1>3, OrderedType, OrderedHas
<1> HIDE DEF order
<1>5. tasks \in Seq(T)
  <2>1. ASSUME NEW i \in 1..Len(order) PROVE Task("flight", incoming[order[i]]) \in T
    BY <1>2, <1>4
  <2>2. tasks \in [1..Len(order) -> T] /\ Len(order) \in Nat
    BY <1>4, <2>1
  <2> QED  BY <2>2, IsASeq
<1>6. ASSUME NEW leg \in ToSet(incoming) PROVE Task("flight", leg) \in ToSet(tasks)
  <2>1. PICK k \in DOMAIN incoming : incoming[k] = leg
    BY <1>2, Members
  <2>2. PICK i \in 1..Len(order) : order[i] = k
    BY <1>4, Members
  <2>3. i \in DOMAIN tasks /\ tasks[i] = Task("flight", leg)
    BY <1>4, <2>1, <2>2
  <2> QED  BY <2>3 DEF ToSet
<1>7. \A t \in T : ~Underway(t) /\ t.do # "settlement" /\ \A c \in Closers : Needs(t, c) => Needs(Job, c)
  BY DEF Task, Underway, Needs, Asks, Arrives
<1> HIDE DEF tasks, T
<1>8. Fits(tasks)
  <2>1. ~Underway(Job)
    BY <1>1 DEF Underway
  <2> QED  BY <1>5, <1>7, <2>1, FitsPlain
<1>9. Advanced /\ ToSet(tasks) \subseteq ToSet(agenda')
  BY <1>1, <1>5, <1>8, Moves
<1> QED  BY <1>6, <1>9

\* Once the city was asked for, it is known if there is one.
LEMMA CityIsKnown ==
    ASSUME Going, Job.do # "settlement"
    PROVE  world.settlements = 1 => city
<1>1. ASSUME Awaits("settlement") PROVE FALSE
  <2>1. PICK t \in ToSet(agenda) : t.do = "settlement"
    BY <1>1 DEF Awaits
  <2>2. agenda \in Seq(Tasks)
    BY DEF Going, Planned
  <2>3. PICK n \in 1..Len(agenda) : agenda[n] = t
    BY <2>2, Members
  <2>4. n = 1
    BY <2>1, <2>3, GoingFacts DEF Orderly, CityFirst
  <2> QED  BY <2>1, <2>3, <2>4, GoingFacts
<1> QED  BY <1>1 DEF Going, Covered, CityKnown

\* A way to an airport is looked for.
LEMMA ApproachDoes ==
    ASSUME Going, NEW a \in Airports, NEW purpose, Replace(Approach(a, purpose)),
           \/ Job.do = "flight" /\ purpose.do = "hub"
           \/ Job.do = "reach" /\ purpose.do = "access"
    PROVE  Advanced /\ \A leg \in FeederLegs(a) : Brought(leg, purpose)'
<1> DEFINE T == {t \in Feeding(a, purpose) \cup {StationTask(a, purpose)} : TRUE}
           tasks == Approach(a, purpose)
<1>1. agenda # <<>> /\ Given /\ Planned /\ Orderly(agenda) /\ (city => world.settlements = 1)
  BY GoingFacts DEF Going, Planned, FlightsKnown
<1>2. tasks \in Seq(T)
  <2>1. Feeding(a, purpose) \subseteq T /\ StationTask(a, purpose) \in T
    OBVIOUS
  <2> HIDE DEF T
  <2> QED  BY <1>1, <2>1, ApproachType
<1>3. ASSUME NEW t \in T PROVE t.do \in {"search", "stations"} /\ t.purpose = purpose
  <2>1. CASE t \in FlightSearches(ToSet(Origins), ToSet(Near(AroundHub[a])), purpose)
    BY <2>1 DEF FlightSearches, FlightSearch, Search
  <2>2. CASE t \in {Search("city", x, "train", purpose) : x \in Stops(a)}
    BY <2>2 DEF Search
  <2>3. CASE t = StationTask(a, purpose)
    BY <2>3 DEF StationTask
  <2> QED  BY <2>1, <2>2, <2>3 DEF Feeding
<1>4. ASSUME NEW t \in T PROVE ~Underway(t) /\ t.do # "settlement" /\ \A c \in Closers : Needs(t, c) => Needs(Job, c)
  BY <1>3 DEF Underway, Needs, Asks, Arrives
<1>5. ~Underway(Job) /\ Replace(tasks)
  BY DEF Underway
<1> HIDE DEF T, tasks
<1>6. Fits(tasks)
  BY <1>2, <1>4, <1>5, FitsPlain
<1>7. Advanced /\ ToSet(tasks) \subseteq ToSet(agenda')
  BY <1>1, <1>2, <1>5, <1>6, Moves
<1>8. ASSUME NEW leg \in FeederLegs(a) PROVE Brought(leg, purpose)'
  <2>1. world.settlements = 1 => city
    BY CityIsKnown
  <2>2. PICK t \in ToSet(tasks) : Brings(t, leg, purpose)
    BY <1>1, <2>1, ApproachBrings DEF tasks
  <2> QED  BY <1>7, <2>2, MapStaysToo, GoingFacts DEF Brought
<1> QED  BY <1>7, <1>8

\* A flight taken is joined, or what leads to where it starts is looked for.
LEMMA FlightDoes ==
    ASSUME Going, Flight, NEW flight, flight = Job.subject
    PROVE  /\ Advanced /\ flight \in Inbound /\ Job = Task("flight", flight)
           /\ pairs' = pairs \cup {<<flight.from, flight.to>>}
           /\ \/ <<flight.from, flight.to>> \in pairs
              \/ flight \in Connecting =>
                     \A w \in Feeders(HubOf(flight)) : Onward(w, flight) =>
                         w \o <<flight>> \in seen' \/ (w # <<>> /\ Brought(w[1], Task("hub", flight))')
<1> DEFINE pair == <<flight.from, flight.to>>
           hub == HubOf(flight)
<1>1. agenda # <<>> /\ Job.do = "flight" /\ Told(ledger) /\ Clear(ledger') /\ Planned
  BY DEF Flight, Doing, Job, Going
<1>2. flight \in Inbound /\ Job = Task("flight", flight)
  <2>1. Job \in FlightTasks
    BY <1>1, JobType, TaskKinds
  <2> QED  BY <2>1 DEF FlightTasks, Task
<1>3. \/ pair \in pairs /\ pairs' = pairs /\ Replace(<<>>)
      \/ /\ pairs' = pairs \cup {pair}
         /\ \/ ledger' = Cut(ledger)
            \/ Unclear(flight) /\ Replace(<<>>)
            \/ ~Unclear(flight) /\ NearOrigin(hub) /\ Replace(<<>>) /\ Add(<<flight>>, {}, ledger)
            \/ ~Unclear(flight) /\ ~NearOrigin(hub) /\ Replace(Approach(hub, Task("hub", flight)))
  BY DEF Flight, HubOf, NearOrigin
<1>4. ASSUME ~Unclear(flight) PROVE hub \in Airports
  BY <1>4, HubOfType DEF Unclear
<1>5. flight \in Connecting => ~Unclear(flight)
  BY DEF Connecting, Unclear
<1> HIDE DEF pair, hub
<1>6. ledger' # Cut(ledger)
  BY <1>1, CutTells
<1>7. Replace(<<>>) => Advanced
  BY NoneMoves
<1> DEFINE Good == \A w \in Feeders(hub) : Onward(w, flight) =>
                       w \o <<flight>> \in seen' \/ (w # <<>> /\ Brought(w[1], Task("hub", flight))')
<1>8. CASE pair \in pairs /\ pairs' = pairs /\ Replace(<<>>)
  BY <1>2, <1>7, <1>8 DEF pair
<1>9. CASE pairs' = pairs \cup {pair} /\ Unclear(flight) /\ Replace(<<>>)
  BY <1>2, <1>5, <1>7, <1>9 DEF pair
<1>10. CASE pairs' = pairs \cup {pair} /\ ~Unclear(flight) /\ NearOrigin(hub) /\ Replace(<<>>) /\ Add(<<flight>>, {}, ledger)
  <2>1. Good
    <3> SUFFICES ASSUME NEW w \in Feeders(hub) PROVE w \o <<flight>> \in seen'
      OBVIOUS
    <3>1. w = <<>>
      BY <1>10 DEF Feeders
    <3>2. w \o <<flight>> = <<flight>>
      <4>1. <<flight>> \in Seq({flight})
        OBVIOUS
      <4> QED  BY <3>1, <4>1, ConcatEmptySeq
    <3> QED  BY <1>1, <1>10, <3>2, AddTells
  <2> QED  BY <1>2, <1>7, <1>10, <2>1 DEF pair, hub
<1>11. CASE pairs' = pairs \cup {pair} /\ ~Unclear(flight) /\ ~NearOrigin(hub) /\ Replace(Approach(hub, Task("hub", flight)))
  <2>1. Task("hub", flight).do = "hub"
    BY DEF Task
  <2>2. Advanced /\ \A leg \in FeederLegs(hub) : Brought(leg, Task("hub", flight))'
    BY <1>1, <1>4, <1>11, <2>1, ApproachDoes
  <2>3. Good
    <3> SUFFICES ASSUME NEW w \in Feeders(hub) PROVE w # <<>> /\ Brought(w[1], Task("hub", flight))'
      OBVIOUS
    <3>1. PICK leg \in FeederLegs(hub) : w = <<leg>>
      BY <1>11 DEF Feeders
    <3>2. w # <<>> /\ w[1] = leg
      BY <3>1
    <3> QED  BY <2>2, <3>2
  <2> QED  BY <1>2, <1>11, <2>2, <2>3 DEF pair, hub
<1> QED  BY <1>3, <1>6, <1>8, <1>9, <1>10, <1>11


\* What is to come after the task in hand is still to come.
LEMMA CloserStays ==
    ASSUME Going, Advanced, NEW c \in Closers, Needs(Job, c)
    PROVE  c \in ToSet(agenda')
<1>1. agenda \in Seq(Tasks) /\ agenda # <<>> /\ Closed(agenda) /\ Job = agenda[1] /\ 1 \in DOMAIN agenda
  BY GoingFacts DEF Going, Planned, Orderly
<1>2. PICK m \in DOMAIN agenda : 1 < m /\ agenda[m] = c
  BY <1>1 DEF Closed
<1>3. c \in ToSet(Tail(agenda))
  <2>1. /\ m \in Nat /\ m - 1 \in 1..(Len(agenda) - 1) /\ (m - 1) + 1 = m
    BY <1>1, <1>2
  <2>2. Tail(agenda) \in Seq(Tasks) /\ Len(Tail(agenda)) = Len(agenda) - 1 /\ Tail(agenda)[m - 1] = agenda[m]
    BY <1>1, <2>1, HeadTailProperties
  <2> QED  BY <1>2, <2>1, <2>2, Members
<1> QED  BY <1>3 DEF Advanced

\* An airport is within reach, or what leads to it is looked for.
LEMMA ReachDoes ==
    ASSUME Going, Reach, NEW a, a = Job.subject
    PROVE  /\ Advanced /\ Job = Task("reach", a) /\ Task("combine", 1) \in ToSet(agenda')
           /\ DOMAIN access' = DOMAIN access
           /\ \A b \in DOMAIN access : ToSet(access[b]) \subseteq ToSet(access'[b])
           /\ a \in DOMAIN access =>
                \A w \in Feeders(a) : w \in ToSet(access'[a]) \/ (w # <<>> /\ Brought(w[1], Task("access", a))')
<1>1. agenda # <<>> /\ Job.do = "reach" /\ Planned
  BY DEF Reach, Doing, Job, Going
<1>2. a \in Airports /\ Job = Task("reach", a)
  <2>1. Job \in ReachTasks
    BY <1>1, JobType, TaskKinds
  <2> QED  BY <2>1 DEF ReachTasks, Task
<1>3. \/ NearOrigin(a) /\ Replace(<<>>) /\ access' = [access EXCEPT ![a] = << <<>> >>]
      \/ ~NearOrigin(a) /\ Replace(Approach(a, Task("access", a))) /\ UNCHANGED access
  BY DEF Reach, NearOrigin
<1>4. ASSUME Advanced PROVE Task("combine", 1) \in ToSet(agenda')
  <2>1. Task("combine", 1) \in Closers /\ Needs(Job, Task("combine", 1))
    BY <1>1 DEF Closers, Needs
  <2> QED  BY <1>4, <2>1, CloserStays
<1>5. CASE NearOrigin(a) /\ Replace(<<>>) /\ access' = [access EXCEPT ![a] = << <<>> >>]
  <2>1. Advanced
    BY <1>5, NoneMoves
  <2>2. Feeders(a) = {<<>>}
    BY <1>5 DEF Feeders
  <2>3. <<>> \in ToSet(<< <<>> >>)
    BY DEF ToSet
  <2>4. a \in DOMAIN access => access'[a] = << <<>> >> /\ ToSet(access[a]) \subseteq ToSet(access'[a])
    <3> SUFFICES ASSUME a \in DOMAIN access PROVE access'[a] = << <<>> >> /\ ToSet(access[a]) \subseteq ToSet(access'[a])
      OBVIOUS
    <3>1. access'[a] = << <<>> >>
      BY <1>5
    <3>2. access[a] \in Seq({<<>>})
      BY <1>1, <2>2 DEF Planned, WaysKnown
    <3>3. ToSet(access[a]) \subseteq {<<>>}
      BY <3>2, ListOfItsOwn
    <3> QED  BY <2>3, <3>1, <3>3
  <2>5. \A b \in DOMAIN access : b # a => access'[b] = access[b]
    BY <1>5
  <2> QED  BY <1>2, <1>4, <1>5, <2>1, <2>2, <2>3, <2>4, <2>5
<1>6. CASE ~NearOrigin(a) /\ Replace(Approach(a, Task("access", a))) /\ UNCHANGED access
  <2>1. Task("access", a).do = "access"
    BY DEF Task
  <2>2. Advanced /\ \A leg \in FeederLegs(a) : Brought(leg, Task("access", a))'
    BY <1>1, <1>2, <1>6, <2>1, ApproachDoes
  <2>3. ASSUME NEW w \in Feeders(a) PROVE w # <<>> /\ Brought(w[1], Task("access", a))'
    <3>1. PICK leg \in FeederLegs(a) : w = <<leg>>
      BY <1>6 DEF Feeders
    <3>2. w # <<>> /\ w[1] = leg
      BY <3>1
    <3> QED  BY <2>2, <3>2
  <2> QED  BY <1>2, <1>4, <1>6, <2>2, <2>3
<1> QED  BY <1>3, <1>5, <1>6

LEMMA AddPathDoes ==
    ASSUME Going, AddPath
    PROVE  Advanced /\ Job.legs \in seen'
<1>1. Replace(<<>>) /\ Add(Job.legs, Job.dates, ledger) /\ Told(ledger) /\ Clear(ledger')
  BY DEF AddPath, Going
<1> QED  BY <1>1, NoneMoves, AddTells

\* Every path of an answer is to be noted.
LEMMA FlightPathsDoes ==
    ASSUME Going, FlightPaths
    PROVE  /\ Advanced
           /\ \E i \in DOMAIN chains, d \in ToSet(world.dates) :
                /\ Job = [do |-> "paths", chain |-> i, date |-> d]
                /\ \A x \in SeenOn(i, d) :
                     [do |-> "observe", chain |-> i, date |-> d, legs |-> x] \in ToSet(agenda')
<1> DEFINE paths == PathsOf(chains[Job.chain].from, chains[Job.chain].to, Job.date)
           tasks == Observed(paths)
<1>1. agenda # <<>> /\ Job.do = "paths" /\ Given /\ Planned /\ Orderly(agenda) /\ Told(ledger) /\ Clear(ledger')
  BY GoingFacts DEF FlightPaths, Doing, Job, Going
<1>2. PICK i \in DOMAIN chains, d \in ToSet(world.dates) : Job = [do |-> "paths", chain |-> i, date |-> d]
  BY <1>1, JobType, TaskKinds DEF CheckTasks
<1>3. Job.chain = i /\ Job.date = d
  BY <1>2
<1>4. paths \in Seq(SeenOn(i, d)) /\ ToSet(paths) = SeenOn(i, d)
  <2>1. paths = PathsOf(FlightPairs[i][1], FlightPairs[i][2], d)
    BY <1>1, <1>3, ChainType
  <2> HIDE DEF paths
  <2> QED  BY <1>1, <2>1, PathsType DEF SeenOn
<1>5. Replace(tasks)
  <2>1. \/ ledger' = Cut(Issue(ledger, "flights"))
        \/ Replace(tasks)
        \/ ledger' = [Fails(ledger) EXCEPT !.flights = @ + 1]
    BY GoingFacts DEF FlightPaths
  <2>2. ledger' # Cut(Issue(ledger, "flights"))
    <3>1. Told(Issue(ledger, "flights"))
      BY <1>1, IssueTells DEF Worse
    <3> QED  BY <1>1, <3>1, CutTells
  <2>3. ledger' # [Fails(ledger) EXCEPT !.flights = @ + 1]
    BY <1>1, FailureTells
  <2> QED  BY <2>1, <2>2, <2>3
<1> HIDE DEF paths
<1> DEFINE T == {[do |-> "observe", chain |-> i, date |-> d, legs |-> x] : x \in SeenOn(i, d)}
<1>6. DOMAIN paths = 1..Len(paths) /\ Len(paths) \in Nat
  BY <1>4
<1>7. DOMAIN tasks = 1..Len(paths)
      /\ \A k \in 1..Len(paths) : tasks[k] = [do |-> "observe", chain |-> i, date |-> d, legs |-> paths[k]]
  BY <1>3, <1>6 DEF Observed
<1>8. tasks \in Seq(T)
  <2>1. tasks = [k \in 1..Len(paths) |-> [do |-> "observe", chain |-> i, date |-> d, legs |-> paths[k]]]
    BY <1>3, <1>6 DEF Observed
  <2>2. tasks \in [1..Len(paths) -> T]
    BY <1>4, <2>1
  <2> QED  BY <1>6, <2>2, IsASeq
<1>9. ASSUME NEW x \in SeenOn(i, d) PROVE [do |-> "observe", chain |-> i, date |-> d, legs |-> x] \in ToSet(tasks)
  <2>1. PICK k \in 1..Len(paths) : paths[k] = x
    BY <1>4, Members
  <2> QED  BY <1>7, <2>1 DEF ToSet
<1>10. \A t \in T : ~Underway(t) /\ t.do # "settlement" /\ \A c \in Closers : Needs(t, c) => Needs(Job, c)
  BY <1>1 DEF Underway, Needs, Asks, Arrives
<1>11. ~Underway(Job)
  BY <1>1 DEF Underway
<1> HIDE DEF tasks, T
<1>12. Fits(tasks)
  BY <1>8, <1>10, <1>11, FitsPlain
<1>13. Advanced /\ ToSet(tasks) \subseteq ToSet(agenda')
  BY <1>1, <1>5, <1>8, <1>12, Moves
<1> QED  BY <1>2, <1>9, <1>13

\* A path noted is among those known, and those known before still are.
LEMMA ObserveKnows ==
    ASSUME NEW T, NEW known \in Seq(T), NEW x, NEW d
    PROVE  /\ \A k \in DOMAIN known : k \in DOMAIN Observe(known, x, d) /\ Observe(known, x, d)[k].legs = known[k].legs
           /\ \E k \in DOMAIN Observe(known, x, d) : Observe(known, x, d)[k].legs = x
<1> DEFINE noted(s) == IF s.legs = x THEN [s EXCEPT !.dates = @ \cup {d}] ELSE s
           all == [k \in DOMAIN known |-> noted(known[k])]
           new == [legs |-> x, dates |-> {d}]
<1>1. CASE \E k \in DOMAIN known : known[k].legs = x
  <2>1. Observe(known, x, d) = all
    BY <1>1 DEF Observe
  <2>2. \A k \in DOMAIN known : k \in DOMAIN all /\ all[k].legs = known[k].legs
    OBVIOUS
  <2> HIDE DEF all
  <2> QED  BY <1>1, <2>1, <2>2
<1>2. CASE ~\E k \in DOMAIN known : known[k].legs = x
  <2> DEFINE U == T \cup {new}
  <2>1. known \in Seq(U) /\ new \in U
    BY ListOfMore
  <2>2. Observe(known, x, d) = Append(known, new) /\ new.legs = x
    BY <1>2 DEF Observe
  <2> HIDE DEF U, new
  <2>3. /\ DOMAIN known = 1..Len(known) /\ Len(known) \in Nat
        /\ DOMAIN Append(known, new) = 1..(Len(known) + 1)
        /\ Append(known, new)[Len(known) + 1] = new
        /\ \A k \in 1..Len(known) : Append(known, new)[k] = known[k]
    BY <2>1, AppendProperties
  <2>4. Len(known) + 1 \in DOMAIN Append(known, new) /\ \A k \in DOMAIN known : k \in DOMAIN Append(known, new)
    BY <2>3
  <2> QED  BY <2>2, <2>3, <2>4
<1> QED  BY <1>1, <1>2

LEMMA ObservePathDoes ==
    ASSUME Going, ObservePath
    PROVE  /\ Advanced /\ Awaits("resolve")' /\ DOMAIN chains' = DOMAIN chains
           /\ \A j \in DOMAIN chains : \A k \in DOMAIN chains[j].paths :
                k \in DOMAIN chains'[j].paths /\ chains'[j].paths[k].legs = chains[j].paths[k].legs
           /\ \E i \in DOMAIN chains, d \in ToSet(world.dates) : \E x \in SeenOn(i, d) :
                /\ Job = [do |-> "observe", chain |-> i, date |-> d, legs |-> x]
                /\ \E k \in DOMAIN chains'[i].paths : chains'[i].paths[k].legs = x
<1>1. /\ Planned /\ agenda # <<>> /\ Job.do = "observe" /\ Replace(<<>>)
      /\ chains' = [chains EXCEPT ![Job.chain].paths = Observe(@, Job.legs, Job.date)]
  BY DEF ObservePath, Doing, Job, Going
<1>2a. PICK i \in DOMAIN chains, d \in ToSet(world.dates) :
           Job \in {[do |-> "observe", chain |-> i, date |-> d, legs |-> x] : x \in SeenOn(i, d)}
  BY <1>1, JobType, TaskKinds DEF ObserveTasks
<1>2. PICK x \in SeenOn(i, d) : Job = [do |-> "observe", chain |-> i, date |-> d, legs |-> x]
  BY <1>2a
<1> DEFINE more == Observe(chains[i].paths, x, d)
<1>3. /\ \A k \in DOMAIN chains[i].paths : k \in DOMAIN more /\ more[k].legs = chains[i].paths[k].legs
      /\ \E k \in DOMAIN more : more[k].legs = x
  <2>1. chains[i].paths \in Seq(SeenPaths(i))
    BY <1>1, ChainType
  <2> QED  BY <2>1, ObserveKnows
<1> HIDE DEF more
<1>4. chains' = [chains EXCEPT ![i].paths = more]
  BY <1>1, <1>2 DEF more
<1>5. DOMAIN chains' = DOMAIN chains /\ \A j \in DOMAIN chains : j # i => chains'[j] = chains[j]
  BY <1>4
<1>6. chains'[i].paths = more
  <2>1. chains'[i] = [chains[i] EXCEPT !.paths = more]
    BY <1>4
  <2>2. chains[i] = [from |-> FlightPairs[i][1], to |-> FlightPairs[i][2], paths |-> chains[i].paths]
    BY <1>1 DEF Planned, PathsKnown
  <2> QED  BY <2>1, <2>2
<1>7. Advanced
  BY <1>1, NoneMoves
<1>8. Awaits("resolve")'
  <2> DEFINE c == Task("resolve", "access")
  <2>1. c \in Closers /\ Needs(Job, c) /\ c.do = "resolve"
    BY <1>1 DEF Closers, Needs, Task
  <2>2. c \in ToSet(agenda')
    BY <1>7, <2>1, CloserStays
  <2> QED  BY <2>1, <2>2 DEF Awaits
<1> QED  BY <1>2, <1>3, <1>5, <1>6, <1>7, <1>8

\* Access is to be looked for wherever a path was seen from.
LEMMA ResolveDoes ==
    ASSUME Going, Resolve
    PROVE  /\ Advanced /\ chains' = chains /\ Task("combine", 1) \in ToSet(agenda')
           /\ \A i \in DOMAIN chains : chains[i].paths # <<>> =>
                chains[i].from \in DOMAIN access' /\ Task("reach", chains[i].from) \in ToSet(agenda')
<1> DEFINE flown == {i \in DOMAIN chains : chains[i].paths # <<>>}
           first == {i \in flown : \A j \in flown : chains[j].from = chains[i].from => i <= j}
           reach(i) == IF i \in first THEN <<Task("reach", chains[i].from)>> ELSE <<>>
           rows == [i \in DOMAIN chains |-> reach(i)]
           tasks == FlattenSeq(rows)
           e == Task("combine", 1)
<1>1. /\ agenda # <<>> /\ Job.do = "resolve" /\ Planned /\ Orderly(agenda) /\ chains' = chains
      /\ access' = [a \in {chains[i].from : i \in flown} |-> <<>>]
      /\ Replace(tasks \o <<e>>)
  BY GoingFacts DEF Resolve, Doing, Job, Going
<1>2. PICK n \in Nat : DOMAIN chains = 1..n
  BY <1>1, ChainsAreList
<1>3. ASSUME NEW i \in DOMAIN chains PROVE reach(i) \in Seq(ReachTasks)
  <2>1. Task("reach", chains[i].from) \in ReachTasks
    BY <1>1, ChainType DEF ReachTasks
  <2>2. <<Task("reach", chains[i].from)>> \in Seq(ReachTasks)
    BY <2>1
  <2>3. \E none \in Seq(ReachTasks) : none = <<>>
    BY EmptyList
  <2> HIDE DEF first
  <2> QED  BY <2>2, <2>3
<1>4. ASSUME NEW i \in flown
      PROVE  \E j \in DOMAIN chains : Task("reach", chains[i].from) \in ToSet(reach(j))
  <2> DEFINE same == {j \in flown : chains[j].from = chains[i].from}
  <2>1. same \in SUBSET Nat /\ same # {}
    BY <1>2, <1>4
  <2> HIDE DEF same
  <2>2. PICK m \in same : \A j \in same : m <= j
    BY <2>1, Smallest
  <2>3. m \in first /\ chains[m].from = chains[i].from
    BY <2>2 DEF same
  <2>4. reach(m) = <<Task("reach", chains[i].from)>> /\ m \in DOMAIN chains
    <3> HIDE DEF first
    <3> QED  BY <2>2, <2>3 DEF same
  <2>5. \A t : t \in ToSet(<<t>>)
    BY DEF ToSet
  <2> HIDE DEF reach
  <2> QED  BY <2>4, <2>5
<1> HIDE DEF reach
<1>5. rows \in Seq(Seq(ReachTasks)) /\ DOMAIN rows = DOMAIN chains /\ \A j \in DOMAIN chains : rows[j] = reach(j)
  <2>1. rows \in [1..n -> Seq(ReachTasks)]
    BY <1>2, <1>3
  <2> QED  BY <1>2, <2>1, IsASeq
<1> HIDE DEF rows
<1>6. tasks \in Seq(ReachTasks)
  BY <1>5, FlattenSeqType
<1>7. ASSUME NEW i \in flown PROVE Task("reach", chains[i].from) \in ToSet(tasks)
  <2>1. PICK j \in DOMAIN chains : Task("reach", chains[i].from) \in ToSet(reach(j))
    BY <1>4, <1>7
  <2> QED  BY <1>5, <2>1, FlattenSeqHas
<1> HIDE DEF tasks
<1>8. /\ ~Underway(Job) /\ e.do = "combine"
      /\ \A t \in ReachTasks : ~Underway(t) /\ t.do # "settlement" /\ \A c \in Closers : Needs(t, c) => c = e
  BY <1>1 DEF Underway, ReachTasks, Task, Needs, Asks, Arrives
<1> DEFINE all == tasks \o <<e>>
           U == ReachTasks \cup {e}
<1> HIDE DEF e
<1>9. Fits(all) /\ all \in Seq(U) /\ ToSet(all) = ToSet(tasks) \cup {e}
  BY <1>6, <1>8, FitsClosed
<1> HIDE DEF all, U
<1>10. Advanced /\ ToSet(all) \subseteq ToSet(agenda')
  <2>1. Replace(all)
    BY <1>1 DEF all
  <2> QED  BY <1>1, <1>9, <2>1, Moves
<1>11. ASSUME NEW i \in flown PROVE chains[i].from \in DOMAIN access'
  BY <1>1, <1>11
<1> QED  BY <1>1, <1>7, <1>9, <1>10, <1>11 DEF e

\* Every pair of airports is to be asked for on every date.
LEMMA GoogleDoes ==
    ASSUME Going, Google
    PROVE  /\ Advanced
           /\ \/ chains' = chains /\ (limits.flights = 0 \/ world.dates = <<>>)
              \/ /\ DOMAIN chains' = DOMAIN FlightPairs
                 /\ \A i \in DOMAIN chains' : chains'[i].paths = <<>>
                 /\ \A i \in DOMAIN chains' : \A d \in ToSet(world.dates) :
                      [do |-> "paths", chain |-> i, date |-> d] \in ToSet(agenda')
<1> DEFINE check(i, d) == [do |-> "paths", chain |-> i, date |-> d]
           T == {check(p[1], p[2]) : p \in (DOMAIN chains') \X ToSet(world.dates)}
           row(d) == [i \in DOMAIN chains' |-> check(i, world.dates[d])]
           rows == [d \in DOMAIN world.dates |-> row(d)]
           e == Task("resolve", "access")
           all == Checks \o <<e>>
           U == T \cup {e}
<1>1. /\ agenda # <<>> /\ Job.do = "google" /\ Given /\ Planned /\ Orderly(agenda)
      /\ \/ Replace(<<>>) /\ chains' = chains /\ (limits.flights = 0 \/ world.dates = <<>>)
         \/ /\ Replace(all)
            /\ chains' = LET ps == FlightPairs IN
                         [i \in DOMAIN ps |-> [from |-> ps[i][1], to |-> ps[i][2], paths |-> <<>>]]
  BY GoingFacts DEF Google, Doing, Job, Going
<1>2. CASE Replace(<<>>) /\ chains' = chains /\ (limits.flights = 0 \/ world.dates = <<>>)
  BY <1>2, NoneMoves
<1>3. ASSUME Replace(all),
             chains' = LET ps == FlightPairs IN
                       [i \in DOMAIN ps |-> [from |-> ps[i][1], to |-> ps[i][2], paths |-> <<>>]]
      PROVE  /\ Advanced /\ DOMAIN chains' = DOMAIN FlightPairs
             /\ \A i \in DOMAIN chains' : chains'[i].paths = <<>>
             /\ \A i \in DOMAIN chains' : \A d \in ToSet(world.dates) : check(i, d) \in ToSet(agenda')
  <2>1. DOMAIN chains' = DOMAIN FlightPairs /\ \A i \in DOMAIN chains' : chains'[i].paths = <<>>
    BY <1>3
  <2>2. PICK n \in Nat : DOMAIN chains' = 1..n
    <3>1. FlightPairs \in Seq(Airports \X ToSet(Destinations))
      BY <1>1, FlightPairsType
    <3>2. DOMAIN FlightPairs = 1..Len(FlightPairs) /\ Len(FlightPairs) \in Nat
      BY <3>1
    <3> QED  BY <2>1, <3>2
  <2>3. /\ world.dates \in Seq(ToSet(world.dates)) /\ DOMAIN world.dates = 1..Len(world.dates)
        /\ Len(world.dates) \in Nat
    <3>1. world.dates \in Seq(ToSet(world.dates))
      BY <1>1, WorldsAssumption DEF Given
    <3> QED  BY <3>1, ListOfItsOwn
  <2>4. ASSUME NEW d \in 1..Len(world.dates) PROVE row(d) \in Seq(T)
    <3>1. world.dates[d] \in ToSet(world.dates)
      BY <2>3
    <3>2. ASSUME NEW i \in DOMAIN chains' PROVE check(i, world.dates[d]) \in T
      <4> DEFINE p == <<i, world.dates[d]>>
      <4>1. p \in (DOMAIN chains') \X ToSet(world.dates) /\ check(p[1], p[2]) = check(i, world.dates[d])
        BY <3>1
      <4> HIDE DEF p, check
      <4> QED  BY <4>1
    <3> HIDE DEF T, check
    <3>3. row(d) \in [1..n -> T]
      BY <2>2, <3>2
    <3> QED  BY <2>2, <3>3, IsASeq
  <2>5. rows \in Seq(Seq(T))
    <3> HIDE DEF row, T
    <3>1. rows \in [1..Len(world.dates) -> Seq(T)]
      BY <2>3, <2>4
    <3> QED  BY <2>3, <3>1, IsASeq
  <2>6. Checks = FlattenSeq(rows)
    BY DEF Checks
  <2>7. ASSUME NEW i \in DOMAIN chains', NEW d \in ToSet(world.dates) PROVE check(i, d) \in ToSet(Checks)
    <3>1. PICK k \in 1..Len(world.dates) : world.dates[k] = d
      BY <2>3, Members
    <3>2. row(k)[i] = check(i, d) /\ i \in DOMAIN row(k)
      BY <3>1
    <3>3. check(i, d) \in ToSet(row(k))
      <4> HIDE DEF row
      <4> QED  BY <3>2 DEF ToSet
    <3>4. k \in DOMAIN rows /\ rows[k] = row(k)
      BY <2>3
    <3> HIDE DEF rows, row, T, check
    <3> QED  BY <2>5, <2>6, <3>3, <3>4, FlattenSeqHas
  <2> HIDE DEF rows
  <2>8. Checks \in Seq(T)
    BY <2>5, <2>6, FlattenSeqType
  <2>9. /\ ~Underway(Job) /\ e.do = "resolve"
        /\ \A t \in T : ~Underway(t) /\ t.do # "settlement" /\ \A c \in Closers : Needs(t, c) => c = e
    <3>1. \A t \in T : t.do = "paths"
      OBVIOUS
    <3>2. ~Underway(Job) /\ e.do = "resolve"
      BY <1>1 DEF Underway, Task
    <3> HIDE DEF T, e
    <3>3. \A c : Needs([do |-> "paths"], c) => c = Task("resolve", "access")
      BY DEF Needs, Asks, Arrives
    <3>4. ASSUME NEW t \in T PROVE \A c \in Closers : Needs(t, c) => c = e
      BY <3>1 DEF Needs, Asks, Arrives, e
    <3> QED  BY <3>1, <3>2, <3>4 DEF Underway
  <2> HIDE DEF e, T
  <2>10. Fits(all) /\ all \in Seq(U) /\ ToSet(all) = ToSet(Checks) \cup {e}
    <3> DEFINE tasks == Checks
    <3>1. tasks \in Seq(T) /\ all = tasks \o <<e>> /\ U = T \cup {e}
      BY <2>8
    <3> HIDE DEF tasks, all, U
    <3>2. Fits(tasks \o <<e>>) /\ tasks \o <<e>> \in Seq(T \cup {e}) /\ ToSet(tasks \o <<e>>) = ToSet(tasks) \cup {e}
      BY <2>9, <3>1, FitsClosed
    <3> QED  BY <3>1, <3>2 DEF tasks
  <2> HIDE DEF all, U, check
  <2>11. Advanced /\ ToSet(all) \subseteq ToSet(agenda')
    BY <1>1, <1>3, <2>10, Moves
  <2> QED  BY <2>1, <2>7, <2>10, <2>11
<1> HIDE DEF all, check
<1>4. CASE Replace(all) /\ chains' = LET ps == FlightPairs IN
                         [i \in DOMAIN ps |-> [from |-> ps[i][1], to |-> ps[i][2], paths |-> <<>>]]
  BY <1>3, <1>4 DEF check
<1> QED  BY <1>1, <1>2, <1>4

\* The paths of a round are to be added, and there is a next round while there are others.
LEMMA CombineDoes ==
    ASSUME Going, Combine, NEW round, round = Job.subject
    PROVE  /\ Advanced /\ round \in Nat \ {0}
           /\ \A i \in DOMAIN chains : \A k \in DOMAIN chains[i].paths :
                /\ k = round => \A w \in ToSet(Ways(chains[i].from)) :
                     \E t \in ToSet(agenda') : t.do = "add" /\ t.legs = w \o chains[i].paths[k].legs
                /\ k > round => Task("combine", round + 1) \in ToSet(agenda')
<1> DEFINE left(c) == Len(c.paths) >= round
           next(c) == IF left(c) THEN Reached(c.from, c.paths[round]) ELSE <<>>
           rows == [i \in DOMAIN chains |-> next(chains[i])]
           more == FlattenSeq(rows)
           again == IF \E i \in DOMAIN chains : left(chains[i]) THEN <<Task("combine", round + 1)>> ELSE <<>>
           T == {t \in Tasks : t.do \in {"add", "combine"}}
           all == more \o again
<1>1. agenda # <<>> /\ Job.do = "combine" /\ Planned /\ Orderly(agenda) /\ Replace(all)
  BY GoingFacts DEF Combine, Doing, Job, Going
<1>2. round \in Nat \ {0}
  BY <1>1, JobType, TaskKinds
<1>3. ASSUME NEW i \in DOMAIN chains, NEW path \in SeenPaths(i)
      PROVE  /\ Reached(chains[i].from, path) \in Seq(T)
             /\ \A w \in ToSet(Ways(chains[i].from)) :
                  \E t \in ToSet(Reached(chains[i].from, path)) : t.do = "add" /\ t.legs = w \o path.legs
  <2> DEFINE a == chains[i].from
             s == Reached(a, path)
  <2>1. s \in Seq(Tasks)
    BY <1>1, ReachedType
  <2>2. Ways(a) \in Seq(Feeders(a))
    <3>1. \E none \in Seq(Feeders(a)) : none = <<>>
      BY EmptyList
    <3> QED  BY <1>1, <3>1 DEF Ways, Planned, WaysKnown
  <2>3. /\ DOMAIN s = DOMAIN Ways(a) /\ DOMAIN Ways(a) = 1..Len(Ways(a)) /\ Len(Ways(a)) \in Nat
        /\ \A k \in DOMAIN s : s[k].do = "add" /\ s[k].legs = Ways(a)[k] \o path.legs
    <3>1. s = [k \in DOMAIN Ways(a) |-> [do |-> "add", dates |-> path.dates, legs |-> Ways(a)[k] \o path.legs]]
      BY DEF Reached
    <3>2. DOMAIN Ways(a) = 1..Len(Ways(a)) /\ Len(Ways(a)) \in Nat
      BY <2>2
    <3> HIDE DEF s, a
    <3> QED  BY <3>1, <3>2
  <2> HIDE DEF s, a
  <2>4. s \in [1..Len(Ways(a)) -> T]
    BY <2>1, <2>3
  <2>5. s \in Seq(T)
    BY <2>3, <2>4, IsASeq
  <2>6. ASSUME NEW w \in ToSet(Ways(a)) PROVE \E t \in ToSet(s) : t.do = "add" /\ t.legs = w \o path.legs
    <3>1. PICK k \in 1..Len(Ways(a)) : Ways(a)[k] = w
      BY <2>2, Members
    <3>2. s[k] \in ToSet(s)
      BY <2>3 DEF ToSet
    <3> QED  BY <2>3, <3>1, <3>2
  <2> QED  BY <2>5, <2>6 DEF s, a
<1>4. ASSUME NEW i \in DOMAIN chains
      PROVE  /\ chains[i].paths \in Seq(SeenPaths(i)) /\ DOMAIN chains[i].paths = 1..Len(chains[i].paths)
             /\ Len(chains[i].paths) \in Nat
             /\ left(chains[i]) => round \in DOMAIN chains[i].paths /\ chains[i].paths[round] \in SeenPaths(i)
  <2>1. chains[i].paths \in Seq(SeenPaths(i))
    BY <1>1, ChainType
  <2> QED  BY <1>2, <2>1
<1>5. ASSUME NEW i \in DOMAIN chains PROVE next(chains[i]) \in Seq(T)
  <2>1. CASE left(chains[i])
    BY <1>3, <1>4, <2>1
  <2>2. CASE ~left(chains[i])
    <3>1. \E none \in Seq(T) : none = <<>>
      BY EmptyList
    <3> QED  BY <2>2, <3>1
  <2> QED  BY <2>1, <2>2
<1>6. again \in Seq(T) /\ ((\E i \in DOMAIN chains : left(chains[i])) => ToSet(again) = {Task("combine", round + 1)})
  <2>1. round + 1 \in Nat \ {0}
    BY <1>2
  <2>2. Task("combine", round + 1) \in T
    BY <2>1 DEF Tasks, PlainTasks, Task
  <2> HIDE DEF T, left
  <2>3. <<Task("combine", round + 1)>> \in Seq(T) /\ ToSet(<<Task("combine", round + 1)>>) = {Task("combine", round + 1)}
    BY <2>2 DEF ToSet
  <2>4. \E none \in Seq(T) : none = <<>>
    BY EmptyList
  <2> QED  BY <2>3, <2>4
<1>7. /\ \A t \in T : ~Underway(t) /\ t.do # "settlement" /\ \A c \in Closers : Needs(t, c) => Needs(Job, c)
      /\ ~Underway(Job)
  BY <1>1 DEF Underway, Needs, Asks, Arrives
<1>8. \A i \in DOMAIN chains : left(chains[i]) => next(chains[i]) = Reached(chains[i].from, chains[i].paths[round])
  OBVIOUS
<1> HIDE DEF next, T, again
<1>9. rows \in Seq(Seq(T)) /\ DOMAIN rows = DOMAIN chains /\ \A i \in DOMAIN chains : rows[i] = next(chains[i])
  <2>1. PICK n \in Nat : DOMAIN chains = 1..n
    BY <1>1, ChainsAreList
  <2>2. rows \in [1..n -> Seq(T)]
    BY <1>5, <2>1
  <2> QED  BY <2>1, <2>2, IsASeq
<1> HIDE DEF rows
<1>10. more \in Seq(T) /\ \A i \in DOMAIN chains : ToSet(next(chains[i])) \subseteq ToSet(more)
  <2>1. \A i \in DOMAIN chains : \A x \in ToSet(next(chains[i])) : x \in ToSet(more)
    BY <1>9, FlattenSeqHas
  <2> QED  BY <1>9, <2>1, FlattenSeqType
<1> HIDE DEF more
<1>11. all \in Seq(T) /\ ToSet(all) = ToSet(more) \cup ToSet(again)
  BY <1>6, <1>10, ConcatHas
<1> HIDE DEF all
<1>12. Fits(all)
  BY <1>7, <1>11, FitsPlain
<1>13. Advanced /\ ToSet(all) \subseteq ToSet(agenda')
  BY <1>1, <1>11, <1>12, Moves
<1>14. ASSUME NEW i \in DOMAIN chains, NEW k \in DOMAIN chains[i].paths, k >= round PROVE left(chains[i])
  BY <1>2, <1>4, <1>14
<1>15. ASSUME NEW i \in DOMAIN chains, NEW k \in DOMAIN chains[i].paths, k = round, NEW w \in ToSet(Ways(chains[i].from))
       PROVE  \E t \in ToSet(agenda') : t.do = "add" /\ t.legs = w \o chains[i].paths[k].legs
  <2>1. left(chains[i])
    BY <1>2, <1>14, <1>15
  <2> HIDE DEF left
  <2>2. chains[i].paths[k] \in SeenPaths(i) /\ next(chains[i]) = Reached(chains[i].from, chains[i].paths[k])
    BY <1>4, <1>8, <1>15, <2>1
  <2> QED  BY <1>3, <1>10, <1>11, <1>13, <1>15, <2>2
<1>16. ASSUME NEW i \in DOMAIN chains, NEW k \in DOMAIN chains[i].paths, k > round
       PROVE  Task("combine", round + 1) \in ToSet(agenda')
  <2>1. k >= round
    BY <1>2, <1>4, <1>16
  <2>2. left(chains[i])
    BY <1>14, <2>1
  <2> HIDE DEF left
  <2> QED  BY <1>6, <1>11, <1>13, <2>2
<1> QED  BY <1>2, <1>13, <1>15, <1>16

------------------------------------------------------------------------------
(* What a step leaves *)

\* The task in hand tells the step, and a thread is not left for the budget.
LEMMA WhichStep ==
    ASSUME Going
    PROVE  /\ Job.do = "settlement" <=> Settlement
           /\ Job.do = "search" <=> SearchPage
           /\ Job.do = "use" <=> UseLeg
           /\ Job.do = "arrivals" <=> ArrivalsPage
           /\ Job.do = "thread" <=> (Thread \/ ThreadKnown)
           /\ Job.do = "arrived" <=> PageArrived
           /\ Job.do = "flights" <=> SortFlights
           /\ Job.do = "flight" <=> Flight
           /\ Job.do = "stations" <=> Stations
           /\ Job.do = "google" <=> Google
           /\ Job.do = "paths" <=> FlightPaths
           /\ Job.do = "observe" <=> ObservePath
           /\ Job.do = "resolve" <=> Resolve
           /\ Job.do = "reach" <=> Reach
           /\ Job.do = "combine" <=> Combine
           /\ Job.do = "add" <=> AddPath
           /\ Job.do \in {"settlement", "search", "use", "arrivals", "thread", "arrived", "flights", "flight", "stations",
                          "google", "paths", "observe", "resolve", "reach", "combine", "add"}
<1>1. \A do : Doing(do) => Job.do = do
  BY DEF Doing, Job
<1>2. ~ThreadBeyondBudget
  <2>1. Told(ledger) /\ Clear(ledger')
    BY DEF Going
  <2> QED  BY <2>1, CutTells DEF ThreadBeyondBudget
<1>3. /\ Settlement => Job.do = "settlement"
      /\ SearchPage => Job.do = "search"
      /\ UseLeg => Job.do = "use"
      /\ ArrivalsPage => Job.do = "arrivals"
      /\ Thread => Job.do = "thread"
      /\ ThreadKnown => Job.do = "thread"
      /\ PageArrived => Job.do = "arrived"
      /\ SortFlights => Job.do = "flights"
      /\ Flight => Job.do = "flight"
      /\ Stations => Job.do = "stations"
      /\ Google => Job.do = "google"
      /\ FlightPaths => Job.do = "paths"
      /\ ObservePath => Job.do = "observe"
      /\ Resolve => Job.do = "resolve"
      /\ Reach => Job.do = "reach"
      /\ Combine => Job.do = "combine"
      /\ AddPath => Job.do = "add"
  BY <1>1 DEF Settlement, SearchPage, UseLeg, ArrivalsPage, Thread, ThreadKnown, PageArrived, SortFlights, Flight,
     Stations, Google, FlightPaths, ObservePath, Resolve, Reach, Combine, AddPath
<1>4. \/ Settlement \/ SearchPage \/ UseLeg \/ ArrivalsPage \/ ThreadKnown \/ Thread \/ PageArrived
      \/ SortFlights \/ Flight \/ Stations
      \/ Google \/ FlightPaths \/ ObservePath \/ Resolve \/ Reach \/ Combine \/ AddPath
  BY <1>2 DEF Going, Step
<1> QED  BY <1>3, <1>4

LEMMA StepAdvances ==
    ASSUME Going
    PROVE  Advanced
<1>1. CASE Settlement    BY <1>1, SettlementDoes
<1>2. CASE SearchPage    BY <1>2, SearchPageDoes
<1>3. CASE UseLeg        BY <1>3, UseLegDoes
<1>4. CASE ArrivalsPage  BY <1>4, ArrivalsPageDoes
<1>5. CASE Thread        BY <1>5, ThreadDoes
<1>6. CASE ThreadKnown   BY <1>6, NoneMoves DEF ThreadKnown
<1>7. CASE PageArrived   BY <1>7, PageArrivedDoes
<1>8. CASE SortFlights   BY <1>8, SortFlightsDoes
<1>9. CASE Flight
  <2>1. PICK flight : flight = Job.subject
    OBVIOUS
  <2> QED  BY <1>9, <2>1, FlightDoes
<1>10. CASE Stations     BY <1>10, StationsDoes
<1>11. CASE Google       BY <1>11, GoogleDoes
<1>12. CASE FlightPaths  BY <1>12, FlightPathsDoes
<1>13. CASE ObservePath  BY <1>13, ObservePathDoes
<1>14. CASE Resolve      BY <1>14, ResolveDoes
<1>15. CASE Reach
  <2>1. PICK a : a = Job.subject
    OBVIOUS
  <2> QED  BY <1>15, <2>1, ReachDoes
<1>16. CASE Combine
  <2>1. PICK round : round = Job.subject
    OBVIOUS
  <2> QED  BY <1>16, <2>1, CombineDoes
<1>17. CASE AddPath      BY <1>17, AddPathDoes
<1> QED
  BY <1>1, <1>2, <1>3, <1>4, <1>5, <1>6, <1>7, <1>8, <1>9, <1>10, <1>11, <1>12, <1>13, <1>14, <1>15, <1>16, <1>17,
     WhichStep

\* A task that is not in hand is still due.
LEMMA OthersStay ==
    ASSUME Going, NEW t \in ToSet(agenda), t # Job
    PROVE  t \in ToSet(agenda')
BY StepAdvances, GoingFacts DEF Advanced

\* What is brought still is, unless a leg is put to its use.
LEMMA BroughtStays ==
    ASSUME Going, NEW leg, NEW purpose, Brought(leg, purpose)
    PROVE  Brought(leg, purpose)' \/ (UseLeg /\ Brings(Job, leg, purpose))
<1>1. PICK t \in ToSet(agenda) : Brings(t, leg, purpose)
  BY DEF Brought
<1>2. CASE t # Job
  <2>1. t \in ToSet(agenda') /\ Brings(t, leg, purpose)'
    BY <1>1, <1>2, OthersStay, MapStaysToo, GoingFacts
  <2> QED  BY <2>1 DEF Brought
<1>3. CASE t = Job
  <2>1. Brings(Job, leg, purpose) /\ Job.do \in {"search", "use", "stations"}
    BY <1>1, <1>3 DEF Brings, Asks
  <2> QED  BY <2>1, WhichStep, SearchPageDoes, StationsDoes
<1> QED  BY <1>2, <1>3

LEMMA SeenStay ==
    ASSUME Going
    PROVE  seen \subseteq seen'
<1>1. \A legs, dates : Add(legs, dates, ledger) => seen \subseteq seen'
  BY DEF Add, schemes
<1>2. CASE UNCHANGED schemes
  BY <1>2 DEF schemes
<1>3. CASE UseLeg \/ Flight \/ AddPath
  <2>1. UseLeg => UNCHANGED schemes \/ \E legs : Add(legs, {}, ledger)
    BY DEF UseLeg
  <2>2. Flight => UNCHANGED schemes \/ \E legs : Add(legs, {}, ledger)
    BY DEF Flight
  <2> QED  BY <1>1, <1>2, <1>3, <2>1, <2>2 DEF AddPath
<1> QED
  BY <1>2, <1>3, WhichStep DEF Settlement, SearchPage, ArrivalsPage, Thread, ThreadKnown, PageArrived, SortFlights,
     Stations, Google, FlightPaths, ObservePath, Resolve, Reach, Combine

\* Flights are listed by a leg to that purpose and by a thread, looked up with a page, and taken one by one.
LEMMA FlightsStay ==
    ASSUME Going
    PROVE  /\ ToSet(incoming) \subseteq ToSet(incoming')
           /\ incoming' # incoming => Needs(Job, Task("flights", "sort"))
           /\ ~Settlement => city' = city
           /\ ~Flight => pairs' = pairs
           /\ ~ArrivalsPage /\ ~Thread => discovery' = discovery
<1>1. CASE UNCHANGED graph
  BY <1>1 DEF graph
<1>2. CASE Settlement
  BY <1>2, WhichStep DEF Settlement
<1>3. CASE ArrivalsPage
  BY <1>3, WhichStep DEF ArrivalsPage
<1>4. CASE Flight
  BY <1>4, WhichStep DEF Flight
<1>5. CASE Thread
  <2>1. Needs(Job, Task("flights", "sort"))
    BY <1>5, WhichStep DEF Needs, Arrives
  <2> QED  BY <1>5, <2>1, ThreadDoes, WhichStep DEF Thread
<1>6. CASE UseLeg /\ ~UNCHANGED graph
  <2>1. /\ Job.purpose.do = "incoming" /\ incoming' = Append(incoming, Job.leg)
        /\ UNCHANGED <<city, hubs, pairs, discovery>>
    BY <1>6 DEF UseLeg
  <2>2. Needs(Job, Task("flights", "sort"))
    BY <1>6, <2>1, WhichStep DEF Needs, Asks
  <2>3. ToSet(incoming) \subseteq ToSet(incoming')
    <3>1. incoming \in Seq(Inbound \cup {Job.leg}) /\ Job.leg \in Inbound \cup {Job.leg}
      <4>1. incoming \in Seq(Inbound)
        BY DEF Going, Planned, FlightsKnown
      <4> QED  BY <4>1, ListOfMore
    <3> QED  BY <2>1, <3>1, AppendHas
  <2> QED  BY <2>1, <2>2, <2>3
<1> QED
  BY <1>1, <1>2, <1>3, <1>4, <1>5, <1>6, WhichStep DEF SearchPage, ThreadKnown, PageArrived, SortFlights,
     Stations, Google, FlightPaths, ObservePath, Resolve, Reach, Combine, AddPath

\* Paths and ways are noted by the steps that look for them.
LEMMA PathsStay ==
    ASSUME Going
    PROVE  /\ ~Google /\ ~ObservePath => chains' = chains
           /\ ~Resolve /\ ~Reach /\ access' # access => UseLeg /\ Job.purpose.do = "access"
           /\ ~Resolve => /\ DOMAIN access' = DOMAIN access
                          /\ \A a \in DOMAIN access : ToSet(access[a]) \subseteq ToSet(access'[a])
<1>1. CASE UNCHANGED flights
  BY <1>1, WhichStep DEF flights
<1>2. CASE Google \/ FlightPaths \/ ObservePath
  BY <1>2, WhichStep DEF Google, FlightPaths, ObservePath
<1>3. CASE Resolve
  BY <1>3, WhichStep DEF Resolve
<1>4. CASE Reach
  <2>1. PICK a : a = Job.subject
    OBVIOUS
  <2>2. chains' = chains
    BY <1>4 DEF Reach
  <2> QED  BY <1>4, <2>1, <2>2, ReachDoes, WhichStep
<1>5. CASE UseLeg /\ ~UNCHANGED flights
  <2> DEFINE a == Job.purpose.subject
             way == <<Job.leg>>
  <2>1. Job.purpose.do = "access" /\ access' = [access EXCEPT ![a] = Append(@, way)] /\ chains' = chains
    BY <1>5 DEF UseLeg, flights
  <2>2. DOMAIN access' = DOMAIN access /\ \A b \in DOMAIN access : b # a => access'[b] = access[b]
    BY <2>1
  <2>3. ASSUME a \in DOMAIN access PROVE ToSet(access[a]) \subseteq ToSet(access'[a])
    <3>1. access'[a] = Append(access[a], way)
      BY <2>1, <2>3
    <3> DEFINE F == Feeders(a) \cup {way}
    <3>2. access[a] \in Seq(F) /\ way \in F
      <4>1. access[a] \in Seq(Feeders(a))
        BY <2>3 DEF Going, Planned, WaysKnown
      <4> QED  BY <4>1, ListOfMore
    <3> HIDE DEF F, way, a
    <3> QED  BY <3>1, <3>2, AppendHas
  <2> HIDE DEF a
  <2> QED  BY <1>5, <2>1, <2>2, <2>3
<1> QED
  BY <1>1, <1>2, <1>3, <1>4, <1>5, WhichStep DEF Settlement, SearchPage, ArrivalsPage, Thread, ThreadKnown, PageArrived,
     SortFlights, Flight, Stations, Combine, AddPath

\* Pages of arrivals are answered by the step that asks for one.
LEMMA ArrivalsStay ==
    ASSUME Going, ~ArrivalsPage, NEW c, NEW n, <<"arrivals", c, n>> \in ledger'.cache
    PROVE  <<"arrivals", c, n>> \in ledger.cache
<1> DEFINE q == <<"arrivals", c, n>>
<1>1. Told(ledger) /\ Clear(ledger') /\ ~expired /\ ledger.failures = {} /\ Clear(ledger)
  BY GoingFacts DEF Going, Covered
<1>2. ASSUME NEW l, Told(l) PROVE Cut(l) # ledger' /\ \A what : Issue(l, what).cache = l.cache
  <2>1. Cut(l) # ledger'
    BY <1>1, <1>2, CutTells
  <2>2. ASSUME NEW what PROVE Issue(l, what).cache = l.cache
    <3> DEFINE k == [l EXCEPT !["issues"] = l.issues \cup {what}]
    <3>1. k.cache = l.cache
      BY <1>2, Written DEF Told, Headings
    <3> QED  BY <3>1 DEF Issue
  <2> QED  BY <2>1, <2>2
<1>3. ASSUME NEW p, NEW r \in Answers(p), p[1] # "arrivals", Clear(r.ledger)
      PROVE  Told(r.ledger) /\ (q \in r.ledger.cache => q \in ledger.cache)
  <2>1. r.ledger.cache = ledger.cache \cup {p} /\ Told(r.ledger)
    BY <1>1, <1>3, AnswersTell DEF Worse
  <2>2. p # q
    BY <1>3
  <2> QED  BY <2>1, <2>2
<1>4. ASSUME NEW p, NEW r \in Answers(p), p[1] # "arrivals",
             ledger' = r.ledger \/ ledger' = Cut(r.ledger) \/ \E what : ledger' = Issue(r.ledger, what)
      PROVE  q \in ledger.cache
  <2>1. Told(r.ledger)
    BY <1>1, AnswersTell DEF Worse
  <2>2. Clear(r.ledger)
    <3>1. \A what : Worse(r.ledger, Issue(r.ledger, what))
      BY <2>1, IssueTells
    <3> QED  BY <1>1, <1>2, <1>4, <2>1, <3>1 DEF Worse
  <2>3. ledger'.cache = r.ledger.cache
    BY <1>2, <1>4, <2>1
  <2> QED  BY <1>3, <1>4, <2>2, <2>3
<1>5. CASE \/ ledger' = ledger \/ (\E condition : ledger' = CutIf(ledger, condition))
           \/ (\E what : ledger' = Issue(ledger, what)) \/ \E legs, dates : Add(legs, dates, ledger)
  <2>1. \A condition : ledger' = CutIf(ledger, condition) => ledger' = ledger
    BY <1>1, <1>2 DEF CutIf
  <2>2. ASSUME NEW what PROVE ledger' # Cut(Issue(ledger, what))
    <3>1. Told(Issue(ledger, what))
      BY <1>1, IssueTells DEF Worse
    <3> QED  BY <1>2, <3>1
  <2>3. \A legs, dates : Add(legs, dates, ledger) => ledger' = ledger
    BY <2>2 DEF Add
  <2>4. ledger'.cache = ledger.cache
    BY <1>1, <1>2, <1>5, <2>1, <2>3
  <2> QED  BY <2>4
<1>6. CASE Settlement
  <2>1. PICK r \in Answers(<<"settlement">>) : ledger' = r.ledger
    BY <1>6 DEF Settlement
  <2> QED  BY <1>4, <2>1
<1>7. CASE SearchPage
  <2>1. PICK r \in Answers(<<"search", Job.from, Job.to, Job.page>>) :
            ledger' = r.ledger \/ ledger' = Issue(r.ledger, "empty page") \/ ledger' = Cut(r.ledger)
    BY <1>7 DEF SearchPage
  <2> QED  BY <1>4, <2>1
<1>8. CASE UseLeg
  <2>1. ledger' = ledger \/ \E legs : Add(legs, {}, ledger)
    BY <1>8 DEF UseLeg
  <2> QED  BY <1>5, <2>1
<1>9. CASE Thread
  <2>1. PICK r \in Answers(<<"thread", Job.thread.number>>) :
            ledger' = r.ledger \/ ledger' = Issue(r.ledger, "mismatch")
    BY <1>9 DEF Thread
  <2> QED  BY <1>4, <2>1
<1>10. CASE Flight
  <2>1. \/ ledger' = ledger \/ ledger' = Cut(ledger) \/ ledger' = Issue(ledger, "unmapped")
        \/ (\E condition : ledger' = CutIf(ledger, condition)) \/ \E legs : Add(legs, {}, ledger)
    BY <1>10 DEF Flight
  <2> QED  BY <1>1, <1>2, <1>5, <2>1
<1>11. CASE Stations
  <2>1. PICK r \in Answers(<<"stations", Iata(Job.hub)>>) : ledger' = r.ledger
    BY <1>11 DEF Stations
  <2> QED  BY <1>4, <2>1
<1>12. CASE FlightPaths
  <2> DEFINE j == [ledger EXCEPT !["requests"] = ledger.requests + 1]
             k == [j EXCEPT !["flights"] = ledger.flights + 1]
  <2>1. \/ ledger' = ledger \/ ledger' = Cut(Issue(ledger, "flights")) \/ ledger' = k
        \/ ledger' = [Fails(ledger) EXCEPT !.flights = @ + 1]
    BY <1>12 DEF FlightPaths
  <2>2. k.cache = ledger.cache
    <3>1. j = [x \in Headings |-> j[x]] /\ j.cache = ledger.cache
      BY <1>1, Written DEF Told, Headings
    <3> HIDE DEF j
    <3> QED  BY <3>1, Written DEF Headings
  <2> HIDE DEF k
  <2>3. ledger' # Cut(Issue(ledger, "flights"))
    <3>1. Told(Issue(ledger, "flights"))
      BY <1>1, IssueTells DEF Worse
    <3> QED  BY <1>2, <3>1
  <2>4. ledger' # [Fails(ledger) EXCEPT !.flights = @ + 1]
    BY <1>1, FailureTells
  <2> QED  BY <1>5, <2>1, <2>2, <2>3, <2>4
<1>13. CASE ThreadKnown \/ SortFlights \/ ObservePath \/ Resolve \/ Combine
  BY <1>5, <1>13 DEF ThreadKnown, SortFlights, ObservePath, Resolve, Combine
<1>14. CASE PageArrived
  BY <1>5, <1>14 DEF PageArrived
<1>15. CASE Reach
  <2>1. ledger' = ledger \/ \E condition : ledger' = CutIf(ledger, condition)
    BY <1>15 DEF Reach
  <2> QED  BY <1>5, <2>1
<1>16. CASE Google
  BY <1>5, <1>16 DEF Google
<1>17. CASE AddPath
  BY <1>5, <1>17 DEF AddPath
<1> QED
  BY <1>6, <1>7, <1>8, <1>9, <1>10, <1>11, <1>12, <1>13, <1>14, <1>15, <1>16, <1>17, WhichStep

------------------------------------------------------------------------------
(* What there is to find still comes *)
LEMMA CityKnownStays ==
    ASSUME Going
    PROVE  CityKnown'
<1>1. world' = world
  BY GoingFacts
<1>2. CASE Settlement
  BY <1>1, <1>2, SettlementDoes DEF CityKnown
<1>3. CASE ~Settlement
  BY <1>1, <1>3, CityIsKnown, FlightsStay, WhichStep DEF CityKnown
<1> QED  BY <1>2, <1>3

LEMMA DirectStays ==
    ASSUME Going
    PROVE  DirectComes'
<1> SUFFICES ASSUME NEW leg \in DirectLegs PROVE Brought(leg, Task("direct", 0))' \/ <<leg>> \in seen'
  BY MapStaysToo, GoingFacts DEF DirectComes
<1>1. CASE <<leg>> \in seen
  BY <1>1, SeenStay
<1>2. CASE Brought(leg, Task("direct", 0))
  BY <1>2, BroughtStays, UseLegDoes
<1> QED  BY <1>1, <1>2 DEF Going, Covered, DirectComes

LEMMA ListedStays ==
    ASSUME Going
    PROVE  ListedComes'
<1> SUFFICES ASSUME NEW leg \in Listed PROVE Brought(leg, Task("incoming", 0))' \/ leg \in ToSet(incoming')
  BY MapStaysToo, GoingFacts DEF ListedComes
<1>1. CASE leg \in ToSet(incoming)
  BY <1>1, FlightsStay
<1>2. CASE Brought(leg, Task("incoming", 0))
  BY <1>2, BroughtStays, UseLegDoes
<1> QED  BY <1>1, <1>2 DEF Going, Covered, ListedComes

LEMMA ArrivingStays ==
    ASSUME Going
    PROVE  ArrivingComes'
<1> DEFINE ahead(b, t) == \E u \in ToSet(agenda') : u.do = "thread" /\ u.thread = t /\ Iata(u.to) = Iata(b)
           landed(b, t) == Landing(b, t) \subseteq ToSet(incoming')
<1> SUFFICES ASSUME NEW b \in ToSet(Destinations), NEW i \in DOMAIN ArrivalsOf(b),
                    <<"arrivals", Iata(b), i>> \in ledger'.cache, NEW t \in ToSet(ArrivalsOf(b)[i])
             PROVE  ahead(b, t) \/ landed(b, t)
  <2>1. Destinations' = Destinations /\ \A x : ArrivalsOf(x)' = ArrivalsOf(x)
    BY MapStays, GoingFacts
  <2>2. \A x, y : Landing(x, y)' = Landing(x, y)
    BY MapStaysToo, GoingFacts
  <2> QED  BY <2>1, <2>2 DEF ArrivingComes
<1>1. ASSUME NEW x, NEW y, Iata(x) = Iata(y)
      PROVE  ArrivalsOf(x) = ArrivalsOf(y) /\ \A s : Landing(x, s) = Landing(y, s)
  BY <1>1 DEF ArrivalsOf, Landing
<1>2. CASE <<"arrivals", Iata(b), i>> \in ledger.cache
  <2>1. \/ \E u \in ToSet(agenda) : u.do = "thread" /\ u.thread = t /\ Iata(u.to) = Iata(b)
        \/ Landing(b, t) \subseteq ToSet(incoming)
    BY <1>2 DEF Going, Covered, ArrivingComes
  <2>2. CASE Landing(b, t) \subseteq ToSet(incoming)
    BY <2>2, FlightsStay
  <2>3. CASE \E u \in ToSet(agenda) : u.do = "thread" /\ u.thread = t /\ Iata(u.to) = Iata(b)
    <3>1. PICK u \in ToSet(agenda) : u.do = "thread" /\ u.thread = t /\ Iata(u.to) = Iata(b)
      BY <2>3
    <3>2. CASE u # Job
      BY <3>1, <3>2, OthersStay
    <3>3. CASE u = Job /\ Thread
      <4>1. Landing(Job.to, Job.thread) \subseteq ToSet(incoming')
        BY <3>3, ThreadDoes
      <4> QED  BY <1>1, <3>1, <3>3, <4>1
    <3>4. CASE u = Job /\ ThreadKnown
      <4>1. Underway(Job) /\ Job.thread.number \in discovery.numbers /\ Job \in ToSet(agenda)
        BY <3>1, <3>4, GoingFacts DEF Underway, ThreadKnown, LookedUp
      <4>2. Job.thread \in Threads(Job.to)
        <5>1. Job \in ThreadTasks
          BY <3>1, <3>4, GoingFacts, TaskKinds
        <5>2. PICK x \in ToSet(Destinations) : Job \in {[do |-> "thread", thread |-> s, to |-> x] : s \in Threads(x)}
          BY <5>1 DEF ThreadTasks
        <5> QED  BY <5>2
      <4>3. Landing(Job.to, Job.thread) \subseteq ToSet(incoming)
        BY <4>1, <4>2 DEF Going, Covered, LookedUpLands
      <4>4. Landing(Job.to, Job.thread) = Landing(b, t)
        BY <1>1, <3>1, <3>4
      <4> QED  BY <4>3, <4>4, FlightsStay
    <3> QED  BY <3>1, <3>2, <3>3, <3>4, WhichStep
  <2> QED  BY <2>1, <2>2, <2>3
<1>3. CASE <<"arrivals", Iata(b), i>> \notin ledger.cache
  <2>1. ArrivalsPage
    BY <1>3, ArrivalsStay
  <2>2. <<"arrivals", Iata(b), i>> = <<"arrivals", Iata(Job.to), Job.page>>
    BY <1>3, <2>1, ArrivalsPageDoes
  <2>3. Iata(b) = Iata(Job.to) /\ i = Job.page
    BY <2>2
  <2>4. t \in ToSet(ArrivalsOf(Job.to)[Job.page])
    BY <1>1, <2>3
  <2> DEFINE u == [do |-> "thread", thread |-> t, to |-> Job.to]
  <2>5. u \in ToSet(agenda') /\ u.do = "thread" /\ u.thread = t /\ u.to = Job.to
    BY <2>1, <2>4, ArrivalsPageDoes
  <2> HIDE DEF u
  <2> QED  BY <2>3, <2>5
<1> QED  BY <1>2, <1>3

LEMMA LookedUpStays ==
    ASSUME Going
    PROVE  LookedUpLands'
<1> SUFFICES ASSUME NEW u \in ToSet(agenda'), Underway(u), NEW t \in Threads(u.to), t.number \in discovery'.numbers
             PROVE  Landing(u.to, t) \subseteq ToSet(incoming')
  <2>1. \A x : Threads(x)' = Threads(x)
    BY MapStays, GoingFacts
  <2>2. \A x, y : Landing(x, y)' = Landing(x, y)
    BY MapStaysToo, GoingFacts
  <2> QED  BY <2>1, <2>2 DEF LookedUpLands, Underway
<1>1. u \in ToSet(agenda) \/ (Arrives(Job) /\ u.to = Job.to)
  BY StepAdvances DEF Advanced
<1>2. ASSUME NEW v \in ToSet(agenda), Underway(v), v.to = u.to, t.number \in discovery.numbers
      PROVE  Landing(u.to, t) \subseteq ToSet(incoming')
  <2>1. Landing(v.to, t) \subseteq ToSet(incoming)
    BY <1>2 DEF Going, Covered, LookedUpLands
  <2> QED  BY <1>2, <2>1, FlightsStay
<1>3. CASE ArrivalsPage
  <2>1. Job.page # 1 /\ Underway(Job) /\ discovery' = discovery
    BY <1>3, ArrivalsPageDoes
  <2> QED  BY <1>1, <1>2, <2>1, GoingFacts
<1>4. CASE Thread
  <2>1. Underway(Job) /\ discovery'.numbers = discovery.numbers \cup {Job.thread.number}
    BY <1>4, WhichStep DEF Thread, Underway
  <2>2. u.to = Job.to
    <3>1. CASE u \in ToSet(agenda)
      <4>1. agenda \in Seq(Tasks)
        BY DEF Going, Planned
      <4>2. PICK n \in 1..Len(agenda) : agenda[n] = u
        BY <3>1, <4>1, Members
      <4>3. CASE n = 1
        BY <4>2, <4>3, GoingFacts
      <4>4. CASE n # 1
        <5>1. 1 \in DOMAIN agenda /\ n \in DOMAIN agenda /\ 1 < n /\ agenda[1] = Job
          BY <4>2, <4>4, GoingFacts
        <5> QED  BY <4>2, <5>1, GoingFacts DEF Orderly, OneAirport
      <4> QED  BY <4>3, <4>4
    <3> QED  BY <1>1, <3>1
  <2>3. CASE t.number \in discovery.numbers
    BY <1>2, <2>1, <2>2, <2>3, GoingFacts
  <2>4. CASE t.number = Job.thread.number
    <3>1. /\ Job.to \in ToSet(Destinations) /\ Job.thread \in Threads(Job.to)
          /\ Landing(Job.to, Job.thread) \subseteq ToSet(incoming')
      BY <1>4, ThreadDoes
    <3>2. t.legs = Job.thread.legs
      BY <2>2, <2>4, <3>1 DEF Going, NamesTell
    <3>3. Landing(u.to, t) = Landing(Job.to, Job.thread)
      BY <2>2, <3>2 DEF Landing
    <3> QED  BY <3>1, <3>3
  <2> QED  BY <2>1, <2>3, <2>4
<1>5. CASE ~ArrivalsPage /\ ~Thread
  <2>1. discovery' = discovery
    BY <1>5, FlightsStay
  <2>2. CASE u \in ToSet(agenda)
    BY <1>2, <2>1, <2>2
  <2>3. CASE Arrives(Job) /\ u.to = Job.to
    <3>1. Underway(Job)
      BY <1>5, <2>3, WhichStep DEF Arrives, Underway
    <3> QED  BY <1>2, <2>1, <2>3, <3>1, GoingFacts
  <2> QED  BY <1>1, <2>2, <2>3
<1> QED  BY <1>3, <1>4, <1>5

LEMMA FlightsTakenStay ==
    ASSUME Going
    PROVE  FlightsTaken'
<1> DEFINE sort == Task("flights", "sort")
<1>1. sort \in Closers /\ sort.do = "flights"
  BY DEF Closers, Task
<1> HIDE DEF sort
<1>2. CASE SortFlights
  <2>1. incoming' = incoming
    BY <1>2 DEF SortFlights, graph
  <2> QED  BY <1>2, <2>1, SortFlightsDoes DEF FlightsTaken, Due
<1>3. CASE ~SortFlights /\ Awaits("flights")
  <2>1. PICK t \in ToSet(agenda) : t.do = "flights"
    BY <1>3 DEF Awaits
  <2>2. t # Job
    BY <1>3, <2>1, WhichStep
  <2>3. t \in ToSet(agenda')
    BY <2>2, OthersStay
  <2> QED  BY <2>1, <2>3 DEF FlightsTaken, Awaits
<1>4. CASE incoming' # incoming
  <2>1. sort \in ToSet(agenda')
    BY <1>1, <1>4, FlightsStay, StepAdvances, CloserStays DEF sort
  <2> QED  BY <1>1, <2>1 DEF FlightsTaken, Awaits
<1>5. CASE ~Awaits("flights") /\ incoming' = incoming
  <2> SUFFICES ASSUME NEW leg \in ToSet(incoming)
               PROVE  Task("flight", leg) \in ToSet(agenda') \/ <<leg.from, leg.to>> \in pairs'
    BY <1>5 DEF FlightsTaken, Due
  <2>1. PICK flight : flight = Job.subject
    OBVIOUS
  <2>2. pairs \subseteq pairs'
    BY <2>1, FlightDoes, FlightsStay
  <2>3. Task("flight", leg) \in ToSet(agenda) \/ <<leg.from, leg.to>> \in pairs
    BY <1>5 DEF Going, Covered, FlightsTaken, Due
  <2>4. CASE Task("flight", leg) \in ToSet(agenda) /\ Task("flight", leg) = Job
    <3>1. Job.do = "flight" /\ flight = leg
      BY <2>1, <2>4 DEF Task
    <3> QED  BY <2>1, <3>1, FlightDoes, WhichStep
  <2> QED  BY <2>2, <2>3, <2>4, OthersStay
<1> QED  BY <1>2, <1>3, <1>4, <1>5

LEMMA TakenJoinedStays ==
    ASSUME Going
    PROVE  TakenJoined'
<1> SUFFICES ASSUME NEW leg \in Connecting, <<leg.from, leg.to>> \in pairs', NEW w \in Feeders(HubOf(leg)), Onward(w, leg)
             PROVE  w \o <<leg>> \in seen' \/ (w # <<>> /\ Brought(w[1], Task("hub", leg))')
  <2>1. Connecting' = Connecting /\ \A a : Feeders(a)' = Feeders(a)
    BY MapStays, GoingFacts
  <2> QED  BY <2>1 DEF TakenJoined, HubOf, Onward
<1>1. PICK flight : flight = Job.subject
  OBVIOUS
<1>2. CASE <<leg.from, leg.to>> \in pairs
  <2>1. w \o <<leg>> \in seen \/ (w # <<>> /\ Brought(w[1], Task("hub", leg)))
    BY <1>2 DEF Going, Covered, TakenJoined
  <2>2. CASE w \o <<leg>> \in seen
    BY <2>2, SeenStay
  <2>3. CASE w # <<>> /\ Brought(w[1], Task("hub", leg))
    <3>1. w = <<w[1]>>
      <4>1. PICK x \in FeederLegs(HubOf(leg)) : w = <<x>>
        BY <2>3 DEF Feeders
      <4> QED  BY <4>1
    <3>2. PICK x : x = w[1]
      OBVIOUS
    <3>3. Brought(x, Task("hub", leg))' \/ (UseLeg /\ Brings(Job, x, Task("hub", leg)))
      BY <2>3, <3>2, BroughtStays
    <3>4. UseLeg /\ Brings(Job, x, Task("hub", leg)) => <<x>> \o <<leg>> \in seen'
      BY <3>1, <3>2, UseLegDoes
    <3> QED  BY <2>3, <3>1, <3>2, <3>3, <3>4
  <2> QED  BY <2>1, <2>2, <2>3
<1>3. CASE <<leg.from, leg.to>> \notin pairs
  <2>1. Flight
    BY <1>3, FlightsStay
  <2>2. flight \in Inbound /\ pairs' = pairs \cup {<<flight.from, flight.to>>}
    BY <1>1, <2>1, FlightDoes
  <2>3. leg \in Inbound /\ leg.from = flight.from /\ leg.to = flight.to
    BY <1>3, <2>2 DEF Connecting
  <2>4. leg = flight
    BY <2>2, <2>3 DEF Going, NamesTell
  <2>5. \A v \in Feeders(HubOf(flight)) : Onward(v, flight) =>
            v \o <<flight>> \in seen' \/ (v # <<>> /\ Brought(v[1], Task("hub", flight))')
    BY <1>1, <1>3, <2>1, <2>4, FlightDoes
  <2> QED  BY <2>4, <2>5
<1> QED  BY <1>2, <1>3

LEMMA PairsAskedStay ==
    ASSUME Going
    PROVE  PairsAsked'
<1>1. limits' = limits /\ world' = world /\ FlightPairs' = FlightPairs
  BY MapStays, GoingFacts
<1>2. CASE Google
  BY <1>1, <1>2, GoogleDoes DEF PairsAsked
<1>3. CASE ~Google /\ Awaits("google")
  <2>1. PICK t \in ToSet(agenda) : t.do = "google"
    BY <1>3 DEF Awaits
  <2>2. t \in ToSet(agenda')
    BY <1>3, <2>1, OthersStay, WhichStep
  <2> QED  BY <2>1, <2>2 DEF PairsAsked, Awaits
<1>4. CASE ~Google /\ ~Awaits("google")
  <2>1. DOMAIN chains' = DOMAIN chains
    BY <1>4, PathsStay, ObservePathDoes
  <2> QED  BY <1>1, <1>4, <2>1 DEF PairsAsked, Going, Covered
<1> QED  BY <1>2, <1>3, <1>4

LEMMA PathsNotedStay ==
    ASSUME Going
    PROVE  PathsNoted'
<1> DEFINE check(i, d) == [do |-> "paths", chain |-> i, date |-> d]
           note(i, d, x) == [do |-> "observe", chain |-> i, date |-> d, legs |-> x]
<1> SUFFICES ASSUME NEW i \in DOMAIN chains', NEW d \in ToSet(world.dates)
             PROVE  \/ check(i, d) \in ToSet(agenda')
                    \/ \A x \in SeenOn(i, d) : \/ note(i, d, x) \in ToSet(agenda')
                                               \/ \E k \in DOMAIN chains'[i].paths : chains'[i].paths[k].legs = x
  <2>1. world' = world /\ \A j, e : SeenOn(j, e)' = SeenOn(j, e)
    BY MarksStay, GoingFacts
  <2> QED  BY <2>1 DEF PathsNoted, Due
<1>1. CASE Google /\ ~(chains' = chains)
  BY <1>1, GoogleDoes
<1>2. CASE ~Google \/ chains' = chains
  <2>1. /\ i \in DOMAIN chains
        /\ \A k \in DOMAIN chains[i].paths :
             k \in DOMAIN chains'[i].paths /\ chains'[i].paths[k].legs = chains[i].paths[k].legs
    <3>1. CASE chains' = chains
      BY <3>1
    <3>2. CASE ObservePath
      BY <3>2, ObservePathDoes
    <3> QED  BY <1>2, <3>1, <3>2, PathsStay
  <2>2. \/ check(i, d) \in ToSet(agenda)
        \/ \A x \in SeenOn(i, d) : \/ note(i, d, x) \in ToSet(agenda)
                                   \/ \E k \in DOMAIN chains[i].paths : chains[i].paths[k].legs = x
    BY <2>1 DEF Going, Covered, PathsNoted, Due
  <2>3. CASE check(i, d) \in ToSet(agenda) /\ check(i, d) # Job
    BY <2>3, OthersStay
  <2>4. CASE check(i, d) = Job
    <3>1. FlightPaths
      <4>1. Job.do = "paths"
        BY <2>4
      <4> QED  BY <4>1, WhichStep
    <3>2. PICK j \in DOMAIN chains, e \in ToSet(world.dates) :
              Job = check(j, e) /\ \A x \in SeenOn(j, e) : note(j, e, x) \in ToSet(agenda')
      BY <3>1, FlightPathsDoes
    <3>3. j = i /\ e = d
      BY <2>4, <3>2
    <3> QED  BY <3>2, <3>3
  <2>5. ASSUME NEW x \in SeenOn(i, d),
               \/ note(i, d, x) \in ToSet(agenda)
               \/ \E k \in DOMAIN chains[i].paths : chains[i].paths[k].legs = x
        PROVE  note(i, d, x) \in ToSet(agenda') \/ \E k \in DOMAIN chains'[i].paths : chains'[i].paths[k].legs = x
    <3>1. CASE \E k \in DOMAIN chains[i].paths : chains[i].paths[k].legs = x
      BY <2>1, <3>1
    <3>2. CASE note(i, d, x) \in ToSet(agenda) /\ note(i, d, x) # Job
      BY <3>2, OthersStay
    <3>3. CASE note(i, d, x) = Job
      <4>1. ObservePath
        <5>1. Job.do = "observe"
          BY <3>3
        <5> QED  BY <5>1, WhichStep
      <4>2. PICK j \in DOMAIN chains, e \in ToSet(world.dates) : \E y \in SeenOn(j, e) :
                Job = note(j, e, y) /\ \E k \in DOMAIN chains'[j].paths : chains'[j].paths[k].legs = y
        BY <4>1, ObservePathDoes
      <4>3. PICK y \in SeenOn(j, e) :
                Job = note(j, e, y) /\ \E k \in DOMAIN chains'[j].paths : chains'[j].paths[k].legs = y
        BY <4>2
      <4>4. j = i /\ y = x
        BY <3>3, <4>3
      <4> QED  BY <4>3, <4>4
    <3> QED  BY <2>5, <3>1, <3>2, <3>3
  <2> QED  BY <2>2, <2>3, <2>4, <2>5
<1> QED  BY <1>1, <1>2

\* Until access is looked for, or once there is none to note a path for, what is awaited is.
LEMMA ResolveStays ==
    ASSUME Going, ~Resolve, Awaits("resolve")
    PROVE  Awaits("resolve")'
<1>1. PICK t \in ToSet(agenda) : t.do = "resolve"
  BY DEF Awaits
<1>2. t \in ToSet(agenda')
  BY <1>1, OthersStay, WhichStep
<1> QED  BY <1>1, <1>2 DEF Awaits

LEMMA WaysSoughtStay ==
    ASSUME Going
    PROVE  WaysSought'
<1> DEFINE sought(a, w) == \/ w \in ToSet(access'[a]) \/ Task("reach", a) \in ToSet(agenda')
                           \/ w # <<>> /\ Brought(w[1], Task("access", a))'
<1> SUFFICES ASSUME NEW i \in DOMAIN chains', chains'[i].paths # <<>>, ~Awaits("resolve")', NEW a, a = chains'[i].from
             PROVE  a \in DOMAIN access' /\ \A w \in Feeders(a) : sought(a, w)
  <2>1. \A b : Feeders(b)' = Feeders(b)
    BY MapStays, GoingFacts
  <2>2. \A b, w : Sought(b, w)' = sought(b, w)
    BY DEF Sought, Due
  <2> QED  BY <2>1, <2>2 DEF WaysSought
<1>1. chains' = chains
  BY PathsStay, GoogleDoes, ObservePathDoes
<1>2. CASE Resolve
  BY <1>1, <1>2, ResolveDoes
<1>3. CASE ~Resolve
  <2>1. ~Awaits("resolve")
    BY <1>3, ResolveStays
  <2>2. a \in DOMAIN access /\ \A w \in Feeders(a) : Sought(a, w)
    BY <1>1, <2>1 DEF Going, Covered, WaysSought
  <2>3. DOMAIN access' = DOMAIN access /\ ToSet(access[a]) \subseteq ToSet(access'[a])
    BY <1>3, <2>2, PathsStay
  <2>4. ASSUME NEW w \in Feeders(a) PROVE sought(a, w)
    <3>1. w \in ToSet(access[a]) \/ Task("reach", a) \in ToSet(agenda) \/ (w # <<>> /\ Brought(w[1], Task("access", a)))
      BY <2>2 DEF Sought, Due
    <3>2. CASE w \in ToSet(access[a])
      BY <2>3, <3>2
    <3>3. CASE Task("reach", a) \in ToSet(agenda) /\ Task("reach", a) # Job
      BY <3>3, OthersStay
    <3>4. CASE Task("reach", a) = Job
      <4>1. Job.do = "reach" /\ a = Job.subject
        BY <3>4 DEF Task
      <4>2. Reach
        BY <4>1, WhichStep
      <4> QED  BY <2>2, <4>1, <4>2, ReachDoes
    <3>5. CASE w # <<>> /\ Brought(w[1], Task("access", a))
      <4>1. w = <<w[1]>>
        <5>1. PICK x \in FeederLegs(a) : w = <<x>>
          BY <3>5 DEF Feeders
        <5> QED  BY <5>1
      <4>2. PICK x : x = w[1]
        OBVIOUS
      <4>3. Brought(x, Task("access", a))' \/ (UseLeg /\ Brings(Job, x, Task("access", a)))
        BY <3>5, <4>2, BroughtStays
      <4>4. UseLeg /\ Brings(Job, x, Task("access", a)) => <<x>> \in ToSet(access'[a])
        BY <2>2, UseLegDoes
      <4> QED  BY <3>5, <4>1, <4>2, <4>3, <4>4
    <3> QED  BY <3>1, <3>2, <3>3, <3>4, <3>5
  <2> QED  BY <2>2, <2>3, <2>4
<1> QED  BY <1>2, <1>3

LEMMA PathsJoinedStay ==
    ASSUME Going
    PROVE  PathsJoined'
<1> DEFINE due(k) == \E t \in ToSet(agenda') : t.do = "combine" /\ t.subject <= k
           added(x) == \E t \in ToSet(agenda') : t.do = "add" /\ t.legs = x
           ways(a) == IF a \in DOMAIN access' THEN access'[a] ELSE <<>>
<1> SUFFICES ASSUME NEW i \in DOMAIN chains', ~Awaits("resolve")', NEW k \in DOMAIN chains'[i].paths,
                    NEW w \in ToSet(ways(chains'[i].from)), NEW x, x = w \o chains'[i].paths[k].legs
             PROVE  due(k) \/ added(x) \/ x \in seen'
  BY DEF PathsJoined, Ways
<1>1. chains' = chains
  <2>1. ~ObservePath
    BY ObservePathDoes
  <2>2. ASSUME Google, chains' # chains PROVE FALSE
    <3>1. chains'[i].paths = <<>>
      BY <2>2, GoogleDoes
    <3> QED  BY <3>1
  <2> QED  BY <2>1, <2>2, PathsStay
<1>2. k \in Nat \ {0}
  <2>1. chains[i].paths \in Seq(SeenPaths(i))
    BY <1>1, ChainType DEF Going
  <2> QED  BY <1>1, <2>1
<1>3. ASSUME Task("combine", 1) \in ToSet(agenda') PROVE due(k)
  <2>1. Task("combine", 1).do = "combine" /\ Task("combine", 1).subject = 1 /\ 1 <= k
    BY <1>2 DEF Task
  <2> QED  BY <1>3, <2>1
<1>4. CASE Resolve
  BY <1>3, <1>4, ResolveDoes
<1>5. CASE Reach
  <2>1. PICK a : a = Job.subject
    OBVIOUS
  <2> QED  BY <1>3, <1>5, <2>1, ReachDoes
<1>6. CASE UseLeg /\ Job.purpose.do = "access"
  <2>1. Task("combine", 1) \in Closers /\ Needs(Job, Task("combine", 1))
    BY <1>6, WhichStep DEF Closers, Needs, Asks
  <2> QED  BY <1>3, <2>1, StepAdvances, CloserStays
<1>7. CASE ~Resolve /\ access' = access
  <2>1. ~Awaits("resolve") /\ w \in ToSet(Ways(chains[i].from))
    <3>1. ways(chains'[i].from) = Ways(chains[i].from)
      BY <1>1, <1>7 DEF Ways
    <3> QED  BY <1>7, <3>1, ResolveStays
  <2>2. \/ \E t \in ToSet(agenda) : t.do = "combine" /\ t.subject <= k
        \/ \E t \in ToSet(agenda) : t.do = "add" /\ t.legs = x
        \/ x \in seen
    BY <1>1, <2>1 DEF Going, Covered, PathsJoined
  <2>3. CASE x \in seen
    BY <2>3, SeenStay
  <2>4. ASSUME NEW t \in ToSet(agenda), t.do = "add", t.legs = x PROVE added(x) \/ x \in seen'
    <3>1. CASE t # Job
      BY <2>4, <3>1, OthersStay
    <3>2. CASE t = Job
      BY <2>4, <3>2, WhichStep, AddPathDoes
    <3> QED  BY <3>1, <3>2
  <2>5. ASSUME NEW t \in ToSet(agenda), t.do = "combine", t.subject <= k PROVE due(k) \/ added(x)
    <3>1. CASE t # Job
      BY <2>5, <3>1, OthersStay
    <3>2. CASE t = Job
      <4>1. PICK round : round = Job.subject
        OBVIOUS
      <4>2. Combine
        BY <2>5, <3>2, WhichStep
      <4>3. /\ round \in Nat \ {0} /\ round <= k
            /\ k = round => \A v \in ToSet(Ways(chains[i].from)) :
                   \E u \in ToSet(agenda') : u.do = "add" /\ u.legs = v \o chains[i].paths[k].legs
            /\ k > round => Task("combine", round + 1) \in ToSet(agenda')
        BY <1>1, <2>5, <3>2, <4>1, <4>2, CombineDoes
      <4>4. CASE k = round
        BY <1>1, <2>1, <4>3, <4>4
      <4>5. CASE k > round
        <5>1. Task("combine", round + 1).do = "combine" /\ Task("combine", round + 1).subject = round + 1
          BY DEF Task
        <5>2. round + 1 <= k
          BY <1>2, <4>3, <4>5
        <5> QED  BY <4>3, <4>5, <5>1, <5>2
      <4>6. round \in Nat /\ round <= k
        BY <4>3
      <4>7. k = round \/ k > round
        BY <1>2, <4>6
      <4> QED  BY <4>4, <4>5, <4>7
    <3> QED  BY <3>1, <3>2
  <2> QED  BY <2>2, <2>3, <2>4, <2>5
<1> QED  BY <1>4, <1>5, <1>6, <1>7, PathsStay

\* A step that tells of nothing cut leaves nothing out.
LEMMA CoveredStays ==
    ASSUME Going
    PROVE  Covered'
<1>1. Orderly(agenda)'
  <2>1. Orderly(agenda')
    BY StepAdvances DEF Advanced
  <2> QED  BY <2>1 DEF Orderly, Closed, CityFirst, OneAirport
<1>2. ledger'.failures = {}
  BY StepTells DEF Going, Covered, Worse
<1> QED
  BY <1>1, <1>2, CityKnownStays, DirectStays, ListedStays, ArrivingStays, LookedUpStays, FlightsTakenStay, TakenJoinedStays,
     PairsAskedStay, PathsNotedStay, WaysSoughtStay, PathsJoinedStay DEF Covered

\* Nothing is left out while nothing happens.
LEMMA IdleCovered ==
    ASSUME Covered, UNCHANGED vars
    PROVE  Covered'
<1> USE DEF vars, graph, flights, schemes
<1>1. Orderly(agenda)' /\ ledger'.failures = {}
  BY DEF Covered, Orderly, Closed, CityFirst, OneAirport
<1>2. \A leg, purpose : Brought(leg, purpose)' <=> Brought(leg, purpose)
  BY MapStaysToo DEF Brought
<1>3. \A do : Awaits(do)' <=> Awaits(do)
  BY DEF Awaits
<1>4. \A t : Due(t)' <=> Due(t)
  BY DEF Due
<1>5. CityKnown'
  BY <1>3 DEF Covered, CityKnown
<1>6. DirectComes' /\ ListedComes'
  BY <1>2, MapStaysToo DEF Covered, DirectComes, ListedComes
<1>7. ArrivingComes'
  BY MapStays, MapStaysToo DEF Covered, ArrivingComes
<1>8. LookedUpLands'
  BY MapStays, MapStaysToo DEF Covered, LookedUpLands
<1>9. FlightsTaken'
  BY <1>3, <1>4 DEF Covered, FlightsTaken
<1>10. TakenJoined'
  BY <1>2, MapStays DEF Covered, TakenJoined
<1>11. PairsAsked'
  BY <1>3, MapStays DEF Covered, PairsAsked
<1>12. PathsNoted'
  <2> DEFINE check(i, d) == [do |-> "paths", chain |-> i, date |-> d]
             note(i, d, x) == [do |-> "observe", chain |-> i, date |-> d, legs |-> x]
  <2> SUFFICES ASSUME NEW i \in DOMAIN chains', NEW d \in ToSet(world.dates)
               PROVE  \/ check(i, d) \in ToSet(agenda')
                      \/ \A x \in SeenOn(i, d) : \/ note(i, d, x) \in ToSet(agenda')
                                                 \/ \E k \in DOMAIN chains'[i].paths : chains'[i].paths[k].legs = x
    <3>1. world' = world /\ \A j, e : SeenOn(j, e)' = SeenOn(j, e)
      BY MarksStay
    <3> QED  BY <3>1 DEF PathsNoted, Due
  <2> QED  BY DEF Covered, PathsNoted, Due
<1>13. WaysSought'
  BY <1>2, <1>3, <1>4, MapStays DEF Covered, WaysSought, Sought
<1>14. PathsJoined'
  BY <1>3 DEF Covered, PathsJoined, Ways
<1> QED
  BY <1>1, <1>5, <1>6, <1>7, <1>8, <1>9, <1>10, <1>11, <1>12, <1>13, <1>14 DEF Covered

LEMMA TellingStays ==
    Planned /\ Telling /\ [Next]_vars => Telling'
<1> SUFFICES ASSUME Planned, Telling, [Next]_vars PROVE Telling'
  OBVIOUS
<1>1. CASE Step
  <2>1. Worse(ledger, ledger') /\ UNCHANGED <<world, limits, expired>>
    BY <1>1, StepTells DEF Telling, Step
  <2>2. ASSUME Clean', NamesTell' PROVE Covered'
    <3>1. Clear(ledger')
      BY <2>2 DEF Clean, Clear
    <3>2. Clean
      BY <2>1, <2>2, <3>1 DEF Clean, Clear, Worse
    <3>3. NamesTell
      BY <2>1, <2>2, MapStaysToo
    <3>4. Going
      BY <1>1, <3>1, <3>2, <3>3 DEF Going, Telling
    <3> QED  BY <3>4, CoveredStays
  <2>3. Told(ledger')
    BY <2>1 DEF Worse
  <2>4. Told(ledger)'
    BY <2>3 DEF Told
  <2> QED  BY <2>2, <2>4 DEF Telling
<1>2. CASE Expire
  <2>1. ~Clean' /\ ledger' = ledger
    BY <1>2 DEF Expire, Clean
  <2>2. Told(ledger)'
    BY <2>1 DEF Told, Telling
  <2> QED  BY <2>1, <2>2 DEF Telling
<1>3. CASE UNCHANGED vars
  <2>1. ledger' = ledger /\ expired' = expired /\ UNCHANGED <<world, limits>>
    BY <1>3 DEF vars
  <2>2. Told(ledger)'
    BY <2>1 DEF Told, Telling
  <2>3. Clean' => Clean
    BY <2>1 DEF Clean
  <2>4. NamesTell' => NamesTell
    BY <2>1, MapStaysToo
  <2> QED  BY <1>3, <2>2, <2>3, <2>4, IdleCovered DEF Telling
<1> QED  BY <1>1, <1>2, <1>3 DEF Next

------------------------------------------------------------------------------
(* A plan that begins has everything before it *)
LEMMA CityStaysFirst ==
    ASSUME NEW T, NEW s \in Seq(T), NEW t \in Seq(T), CityFirst(s), \A n \in DOMAIN t : t[n].do # "settlement"
    PROVE  CityFirst(s \o t)
<1> DEFINE all == s \o t
<1>1. all \in Seq(T) /\ Len(all) = Len(s) + Len(t) /\ Len(s) \in Nat /\ Len(t) \in Nat
  BY ConcatProperties
<1>2. DOMAIN all = 1..(Len(s) + Len(t)) /\ DOMAIN s = 1..Len(s) /\ DOMAIN t = 1..Len(t)
  BY <1>1
<1>3. \A n \in DOMAIN all : all[n] = IF n <= Len(s) THEN s[n] ELSE t[n - Len(s)]
  BY <1>2, ConcatProperties
<1> HIDE DEF all
<1>4. ASSUME NEW n \in DOMAIN all, all[n].do = "settlement" PROVE n = 1
  <2>1. CASE n <= Len(s)
    <3>1. n \in DOMAIN s /\ all[n] = s[n]
      BY <1>1, <1>2, <1>3, <2>1
    <3> QED  BY <1>4, <3>1 DEF CityFirst
  <2>2. CASE ~(n <= Len(s))
    <3>1. n - Len(s) \in DOMAIN t /\ all[n] = t[n - Len(s)]
      BY <1>1, <1>2, <1>3, <2>2
    <3> QED  BY <1>4, <3>1
  <2> QED  BY <2>1, <2>2
<1>5. CityFirst(all)
  BY <1>4 DEF CityFirst
<1> QED  BY <1>5 DEF all

\* Arrivals that are yet to be asked for.
FirstPages == {Arrivals(b, 1) : b \in ToSet(Destinations)}

LEMMA PlanDoes ==
    ASSUME Given
    PROVE  /\ Orderly(Plan) /\ \A t \in ToSet(Plan) : ~Underway(t)
           /\ {Task("settlement", "origin"), Task("flights", "sort"), Task("google", "pairs")} \subseteq ToSet(Plan)
           /\ \A leg \in DirectLegs : \E t \in ToSet(Plan) : Brings(t, leg, Task("direct", 0))
           /\ \A leg \in Listed : \E t \in ToSet(Plan) : Brings(t, leg, Task("incoming", 0))
<1> DEFINE first == Task("settlement", "origin")
           sort == Task("flights", "sort")
           ask == Task("google", "pairs")
           P1 == <<first>>
           P2 == Searches(PairsFromEach(Origins, Destinations), Task("direct", 0))
           P3 == Searches(PairsFromEach(GeographicHubs, Destinations), Task("incoming", 0))
           P4 == [i \in DOMAIN Destinations |-> Arrivals(Destinations[i], 1)]
           P5 == <<sort, ask>>
           M == DirectSearches \cup IncomingSearches \cup FirstPages
           T == {first, sort, ask} \cup M
<1>1. /\ Origins \in Seq(ToSet(Origins)) /\ Destinations \in Seq(ToSet(Destinations))
      /\ GeographicHubs \in Seq(ToSet(GeographicHubs))
  BY PlacesType, ListOfItsOwn
<1>2. /\ PairsFromEach(Origins, Destinations) \in Seq(Between(ToSet(Origins), ToSet(Destinations)))
      /\ PairsFromEach(GeographicHubs, Destinations) \in Seq(Between(ToSet(GeographicHubs), ToSet(Destinations)))
  BY <1>1, PairsFromEachType
<1>3. P2 \in Seq(M) /\ P3 \in Seq(M)
  <2>1. P2 \in Seq(DirectSearches) /\ P3 \in Seq(IncomingSearches)
    BY <1>2, SearchesType DEF DirectSearches, IncomingSearches
  <2> QED  BY <2>1, ListOfMore
<1>4. P4 \in Seq(M)
  <2>1. ASSUME NEW i \in 1..Len(Destinations) PROVE Arrivals(Destinations[i], 1) \in M
    <3>1. Destinations[i] \in ToSet(Destinations)
      BY <1>1
    <3> QED  BY <3>1 DEF FirstPages
  <2>2. DOMAIN Destinations = 1..Len(Destinations) /\ Len(Destinations) \in Nat
    BY <1>1
  <2>3. P4 \in [1..Len(Destinations) -> M]
    BY <2>1, <2>2
  <2> QED  BY <2>2, <2>3, IsASeq
<1>5. /\ first.do = "settlement" /\ sort.do = "flights" /\ ask.do = "google"
      /\ Task("direct", 0).do = "direct" /\ Task("incoming", 0).do = "incoming"
  BY DEF Task
<1>6. ASSUME NEW t \in M
      PROVE  t.do # "settlement" /\ ~Underway(t) /\ \A c \in Closers : Needs(t, c) => c = sort
  <2>1. t.do \in {"search", "arrivals"} /\ (t.do = "arrivals" => t.page = 1)
        /\ (t.do = "search" => t.purpose.do \in {"direct", "incoming"})
    <3>1. CASE t \in DirectSearches \cup IncomingSearches
      BY <1>5, <3>1 DEF DirectSearches, IncomingSearches, FlightSearches, FlightSearch, Search
    <3>2. CASE t \in FirstPages
      BY <3>2 DEF FirstPages, Arrivals
    <3> QED  BY <3>1, <3>2
  <2> HIDE DEF M
  <2> QED  BY <2>1 DEF Underway, Needs, Asks, Closers
<1>7. \A t \in {first, sort, ask} : ~Underway(t) /\ \A c \in Closers : ~Needs(t, c)
  BY <1>5 DEF Underway, Needs, Asks, Arrives
<1>8. P1 \in Seq(T) /\ P5 \in Seq(T) /\ Len(P5) = 2 /\ P5[1] = sort /\ P5[2] = ask /\ CityFirst(P1)
      /\ first \in ToSet(P1) /\ sort \in ToSet(P5) /\ ask \in ToSet(P5)
  BY DEF CityFirst, ToSet
<1>9. P2 \in Seq(T) /\ P3 \in Seq(T) /\ P4 \in Seq(T)
  BY <1>3, <1>4, ListOfMore
<1>10. /\ \A n \in DOMAIN P2 : P2[n].do # "settlement"
       /\ \A n \in DOMAIN P3 : P3[n].do # "settlement"
       /\ \A n \in DOMAIN P4 : P4[n].do # "settlement"
       /\ \A n \in DOMAIN P5 : P5[n].do # "settlement"
  <2>1. \A s \in Seq(M) : \A n \in DOMAIN s : s[n].do # "settlement"
    BY <1>6
  <2>2. DOMAIN P5 = {1, 2} /\ P5[1].do # "settlement" /\ P5[2].do # "settlement"
    BY <1>5
  <2> HIDE DEF P2, P3, P4, P5, M
  <2> QED  BY <1>3, <1>4, <2>1, <2>2
<1>11. \A leg \in DirectLegs : \E t \in ToSet(P2) : Brings(t, leg, Task("direct", 0))
  <2> SUFFICES ASSUME NEW leg \in DirectLegs PROVE \E t \in ToSet(P2) : Brings(t, leg, Task("direct", 0))
    OBVIOUS
  <2>1. PICK p \in Between(ToSet(Origins), ToSet(Destinations)) : leg \in LegsOf(Iata(p[1]), Iata(p[2]))
    BY DEF DirectLegs, LegsAcross
  <2>2. FlightSearch(p, Task("direct", 0)) \in ToSet(P2)
    BY <1>1, <1>2, PairsFromEachHave, SearchesHave
  <2> QED  BY <2>1, <2>2, SearchBrings DEF FlightSearch
<1>12. \A leg \in Listed : \E t \in ToSet(P3) : Brings(t, leg, Task("incoming", 0))
  <2> SUFFICES ASSUME NEW leg \in Listed PROVE \E t \in ToSet(P3) : Brings(t, leg, Task("incoming", 0))
    OBVIOUS
  <2>1. PICK p \in Between(ToSet(GeographicHubs), ToSet(Destinations)) : leg \in LegsOf(Iata(p[1]), Iata(p[2]))
    BY DEF Listed, LegsAcross
  <2>2. FlightSearch(p, Task("incoming", 0)) \in ToSet(P3)
    BY <1>1, <1>2, PairsFromEachHave, SearchesHave
  <2> QED  BY <2>1, <2>2, SearchBrings DEF FlightSearch
<1>13. Plan = P1 \o P2 \o P3 \o P4 \o P5
  BY DEF Plan
<1> DEFINE Q2 == P1 \o P2
           Q3 == Q2 \o P3
           Q4 == Q3 \o P4
<1> HIDE DEF P1, P2, P3, P4, P5, M, first, sort, ask
<1> HIDE DEF T
<1>14. Q2 \in Seq(T) /\ CityFirst(Q2) /\ ToSet(Q2) = ToSet(P1) \cup ToSet(P2)
  BY <1>8, <1>9, <1>10, ConcatProperties, ConcatHas, CityStaysFirst
<1> HIDE DEF Q2
<1>15. Q3 \in Seq(T) /\ CityFirst(Q3) /\ ToSet(Q3) = ToSet(Q2) \cup ToSet(P3)
  BY <1>9, <1>10, <1>14, ConcatProperties, ConcatHas, CityStaysFirst
<1> HIDE DEF Q3
<1>16. Q4 \in Seq(T) /\ CityFirst(Q4)
  BY <1>9, <1>10, <1>15, ConcatProperties, CityStaysFirst
<1>17. ToSet(Q4) = ToSet(Q3) \cup ToSet(P4)
  BY <1>9, <1>15, ConcatHas
<1>18. Plan = Q4 \o P5
  BY <1>13 DEF Q2, Q3
<1> HIDE DEF Q4
<1>19. Plan \in Seq(T) /\ CityFirst(Plan) /\ ToSet(Plan) = ToSet(Q4) \cup ToSet(P5)
  BY <1>8, <1>10, <1>16, <1>18, ConcatProperties, ConcatHas, CityStaysFirst
<1>20. /\ Len(Plan) = Len(Q4) + 2 /\ Len(Q4) \in Nat /\ DOMAIN Plan = 1..(Len(Q4) + 2)
       /\ Plan[Len(Q4) + 1] = sort /\ \A n \in 1..Len(Q4) : Plan[n] \in T
       /\ Plan[Len(Q4) + 2] = ask
  <2>1. Len(Plan) = Len(Q4) + 2 /\ Len(Q4) \in Nat /\ DOMAIN Plan = 1..(Len(Q4) + 2)
    <3>1. Len(Plan) = Len(Q4) + Len(P5)
      BY <1>8, <1>16, <1>18, ConcatProperties
    <3>2. Len(Plan) \in Nat /\ DOMAIN Plan = 1..Len(Plan) /\ Len(Q4) \in Nat
      BY <1>16, <1>19
    <3> QED  BY <1>8, <3>1, <3>2
  <2>2. \A n \in DOMAIN Plan : Plan[n] \in T
    BY <1>19
  <2>3. \A n \in (Len(Q4) + 1)..(Len(Q4) + 2) : Plan[n] = P5[n - Len(Q4)]
    BY <1>8, <1>16, <1>18, <2>1, ConcatProperties
  <2>4. (Len(Q4) + 1) - Len(Q4) = 1 /\ (Len(Q4) + 2) - Len(Q4) = 2
    BY <2>1
  <2> QED  BY <1>8, <2>1, <2>2, <2>3, <2>4
<1>21. \A t \in T : ~Underway(t)
  BY <1>6, <1>7 DEF T
<1>22. \A t \in ToSet(Plan) : ~Underway(t)
  BY <1>19, <1>21, Members
<1>23. Closed(Plan)
  <2> SUFFICES ASSUME NEW n \in DOMAIN Plan, NEW c \in Closers, Needs(Plan[n], c)
               PROVE  \E m \in DOMAIN Plan : n < m /\ Plan[m] = c
    BY DEF Closed
  <2>1. n \in 1..Len(Q4)
    <3>1. n # Len(Q4) + 1 /\ n # Len(Q4) + 2
      BY <1>7, <1>20
    <3> QED  BY <1>20, <3>1
  <2>2. c = sort
    BY <1>6, <1>7, <1>20, <2>1 DEF T
  <2> QED  BY <1>20, <2>1, <2>2
<1>24. OneAirport(Plan)
  BY <1>22, <1>19 DEF OneAirport, ToSet
<1>25. {first, sort, ask} \subseteq ToSet(Plan) /\ ToSet(P2) \subseteq ToSet(Plan) /\ ToSet(P3) \subseteq ToSet(Plan)
  BY <1>8, <1>14, <1>15, <1>17, <1>19
<1> QED
  BY <1>11, <1>12, <1>19, <1>22, <1>23, <1>24, <1>25 DEF Orderly, first, sort, ask

LEMMA TellingAtFirst ==
    Init => Telling
<1> SUFFICES ASSUME Init PROVE Telling
  OBVIOUS
<1>1. /\ Given /\ agenda = Plan /\ incoming = <<>> /\ pairs = {} /\ chains = <<>>
      /\ ledger.failures = {} /\ ledger.cache = {} /\ Told(ledger)
  <2>1. Given /\ agenda = Plan /\ incoming = <<>> /\ pairs = {} /\ chains = <<>>
    BY DEF Init, Given
  <2>2. PICK a, b : ledger = [NoCalls EXCEPT !.issues = a, !.limit = b]
    BY DEF Init
  <2>3. /\ NoCalls = [h \in Headings |-> NoCalls[h]] /\ NoCalls.failures = {} /\ NoCalls.cache = {}
        /\ NoCalls.failed = 0
    BY DEF NoCalls, Headings
  <2> DEFINE j == [NoCalls EXCEPT !["issues"] = a]
             k == [j EXCEPT !["limit"] = b]
  <2>4. j = [h \in Headings |-> j[h]] /\ j.failures = {} /\ j.cache = {} /\ j.failed = 0
    BY <2>3, Written DEF Headings
  <2> HIDE DEF j
  <2>5. k = [h \in Headings |-> k[h]] /\ k.failures = {} /\ k.cache = {} /\ k.failed = 0
    BY <2>4, Written DEF Headings
  <2>6. ledger = k
    BY <2>2 DEF j
  <2> HIDE DEF k
  <2>7. Told(k)
    BY <2>5 DEF Told
  <2> QED  BY <2>1, <2>5, <2>6, <2>7
<1>2. /\ Orderly(agenda) /\ \A t \in ToSet(agenda) : ~Underway(t)
      /\ Due(Task("settlement", "origin")) /\ Due(Task("flights", "sort")) /\ Due(Task("google", "pairs"))
      /\ \A leg \in DirectLegs : Brought(leg, Task("direct", 0))
      /\ \A leg \in Listed : Brought(leg, Task("incoming", 0))
  BY <1>1, PlanDoes DEF Due, Brought
<1>3. Awaits("settlement") /\ Awaits("flights") /\ Awaits("google")
  <2>1. \A do, x : Task(do, x).do = do
    BY DEF Task
  <2> QED  BY <1>2, <2>1 DEF Due, Awaits
<1>4. CityKnown /\ DirectComes /\ ListedComes /\ FlightsTaken /\ PairsAsked
  BY <1>2, <1>3 DEF CityKnown, DirectComes, ListedComes, FlightsTaken, PairsAsked
<1>5. ArrivingComes /\ LookedUpLands /\ TakenJoined
  BY <1>1, <1>2 DEF ArrivingComes, LookedUpLands, TakenJoined
<1>6. PathsNoted /\ WaysSought /\ PathsJoined
  <2>1. DOMAIN chains = {}
    BY <1>1
  <2> QED  BY <2>1 DEF PathsNoted, WaysSought, PathsJoined
<1> QED  BY <1>1, <1>2, <1>4, <1>5, <1>6 DEF Telling, Covered

\* What is kept of a plan is what was seen, and nothing was left to do for it.
LEMMA ToldAtLast ==
    ASSUME Planned, Telling
    PROVE  CutIsTold
<1> SUFFICES ASSUME Done, Clean, ArrivalsRead, NamesTell PROVE Findable \subseteq Kept
  BY DEF CutIsTold
<1>1. ToSet(agenda) = {}
  BY DEF Done, ToSet
<1>2. Covered
  BY DEF Telling
<1>3. /\ \A leg, purpose : ~Brought(leg, purpose)
      /\ \A do : ~Awaits(do)
      /\ \A t : ~Due(t)
  BY <1>1 DEF Brought, Awaits, Due
<1>4. seen = Kept
  BY DEF Planned, Sane, Kept, KeptOf
<1>5. Given /\ PathsKnown
  BY DEF Planned, FlightsKnown
<1>6. Direct \subseteq seen
  <2>1. \A leg \in DirectLegs : <<leg>> \in seen
    BY <1>2, <1>3 DEF Covered, DirectComes
  <2> QED  BY <2>1 DEF Direct
<1>7. Inbound \subseteq ToSet(incoming)
  <2>1. Listed \subseteq ToSet(incoming)
    BY <1>2, <1>3 DEF Covered, ListedComes
  <2>2. ASSUME NEW leg \in Arriving PROVE leg \in ToSet(incoming)
    <3>1. PICK b \in ToSet(Destinations) : leg \in UNION {Landing(b, t) : t \in Threads(b)}
      BY DEF Arriving
    <3>2. PICK t \in Threads(b) : leg \in Landing(b, t)
      BY <3>1
    <3>3. PICK i \in DOMAIN ArrivalsOf(b) : t \in ToSet(ArrivalsOf(b)[i])
      BY <3>2 DEF Threads
    <3>4. <<"arrivals", Iata(b), i>> \in ledger.cache
      BY <3>3 DEF ArrivalsRead
    <3>5. Landing(b, t) \subseteq ToSet(incoming)
      BY <1>1, <1>2, <3>3, <3>4 DEF Covered, ArrivingComes
    <3> QED  BY <3>2, <3>5
  <2> QED  BY <2>1, <2>2 DEF Inbound
<1>8. Joined \subseteq seen
  <2> SUFFICES ASSUME NEW x \in Joined PROVE x \in seen
    OBVIOUS
  <2>1. PICK leg \in Connecting : x \in {w \o <<leg>> : w \in {v \in Feeders(HubOf(leg)) : Onward(v, leg)}}
    BY DEF Joined
  <2>2. PICK w \in Feeders(HubOf(leg)) : Onward(w, leg) /\ x = w \o <<leg>>
    BY <2>1
  <2>3. leg \in ToSet(incoming)
    BY <1>7 DEF Connecting
  <2>4. <<leg.from, leg.to>> \in pairs
    BY <1>2, <1>3, <2>3 DEF Covered, FlightsTaken
  <2> QED  BY <1>2, <1>3, <2>2, <2>4 DEF Covered, TakenJoined
<1>9. Sampled \subseteq seen
  <2> SUFFICES ASSUME NEW x \in Sampled PROVE x \in seen
    OBVIOUS
  <2>1. limits.flights # 0
    BY DEF Sampled
  <2>2. PICK d \in ToSet(world.dates) : x \in SampledOn(ToSet(FlightPairs), d)
    BY DEF Sampled
  <2>3. PICK p \in ToSet(FlightPairs) :
            x \in UNION {{w \o path : w \in Feeders(p[1])} : path \in ToSet(PathsOf(p[1], p[2], d))}
    BY <2>2 DEF SampledOn
  <2>4. PICK path \in ToSet(PathsOf(p[1], p[2], d)) : x \in {w \o path : w \in Feeders(p[1])}
    BY <2>3
  <2>5. PICK w \in Feeders(p[1]) : x = w \o path
    BY <2>4
  <2>6. world.dates # <<>>
    BY <2>2 DEF ToSet
  <2>7. DOMAIN chains = DOMAIN FlightPairs
    BY <1>2, <1>3, <2>1, <2>6 DEF Covered, PairsAsked
  <2>8. PICK i \in DOMAIN chains : FlightPairs[i] = p
    BY <2>3, <2>7 DEF ToSet
  <2>9. chains[i].from = p[1] /\ path \in SeenOn(i, d)
    <3>1. chains[i] = [from |-> FlightPairs[i][1], to |-> FlightPairs[i][2], paths |-> chains[i].paths]
      BY <1>5, <2>8 DEF PathsKnown
    <3>2. path \in SeenOn(i, d)
      BY <2>4, <2>8 DEF SeenOn
    <3> QED  BY <2>8, <3>1, <3>2
  <2>10. PICK k \in DOMAIN chains[i].paths : chains[i].paths[k].legs = path
    BY <1>2, <1>3, <2>2, <2>8, <2>9 DEF Covered, PathsNoted
  <2>11. p[1] \in DOMAIN access /\ w \in ToSet(access[p[1]])
    <3>1. chains[i].paths # <<>>
      BY <2>10
    <3> QED  BY <1>2, <1>3, <2>5, <2>8, <2>9, <3>1 DEF Covered, WaysSought, Sought
  <2>12. w \in ToSet(Ways(chains[i].from))
    BY <2>9, <2>11 DEF Ways
  <2>13. w \o chains[i].paths[k].legs \in seen
    BY <1>1, <1>2, <1>3, <2>8, <2>10, <2>12 DEF Covered, PathsJoined
  <2> QED  BY <2>5, <2>10, <2>13
<1> QED  BY <1>4, <1>6, <1>8, <1>9 DEF Findable

(***************************************************************************)
(* limit_reached means that something was cut (docs/ops/route-planner.md): *)
(* a plan of realroutes.Planner.Plan that tells of no cut, failure or      *)
(* empty page, is not out of time and read every page of arrivals, keeps   *)
(* every scheme there is to find, if names tell flights apart: for any     *)
(* catalog, answers of Collector and budgets.                              *)
(***************************************************************************)
THEOREM CutsAreTold == Spec => []CutIsTold
<1>1. Init => Planned /\ Telling
  BY PlannedAtFirst, TellingAtFirst
<1>2. Planned /\ Telling /\ [Next]_vars => (Planned /\ Telling)'
  BY PlannedStays, TellingStays
<1>3. Planned /\ Telling => CutIsTold
  BY ToldAtLast
<1> QED  BY <1>1, <1>2, <1>3, PTL DEF Spec

==============================================================================
