---------------------------- MODULE Reads_proofs ----------------------------
(***************************************************************************)
(* Proofs about a store opened and read: what is served, for any catalogue *)
(* of records, any request and any number of commits between two reads;    *)
(* the walk of a graph, for any graph, filter, policy and budgets; and the *)
(* schema a store is opened on, for any number of openers of any builds.   *)
(*                                                                         *)
(* A pack is followed from the reads to the answer: `Traced` says of which *)
(* versions of the store the reads were, the lemmas about MadeOf what the  *)
(* pack says of them.  A listing is followed by rank: of the entities it   *)
(* has to list, those not listed yet have at least as many before them as  *)
(* the next page leaves out.  A walk is followed by depth: while nothing   *)
(* was cut off, what is within the depth is what was reached.  An opener   *)
(* is followed by what it knows of the rows it has compared or written.    *)
(***************************************************************************)
EXTENDS Migrations, Serving, Walk, TLAPS, FiniteSetTheorems, WellFoundedInduction

(* Induction over the naturals, by sets: a set of naturals that is not     *)
(* empty has a least member, because the intervals below its members are   *)
(* finite sets.                                                            *)
LEMMA LeastNumber ==
  ASSUME NEW S \in SUBSET Nat, S # {}
  PROVE  \E n \in S : \A m \in S : n <= m
<1> DEFINE T == {0..n : n \in S}
           R == StrictSubsetOrdering(Nat)
<1>1. T \subseteq FiniteSubsetsOf(Nat) /\ T # {}
  <2>1. ASSUME NEW n \in S
        PROVE  IsFiniteSet(0..n) /\ 0..n \in SUBSET Nat
    <3>1. 0 \in Int /\ n \in Int
      OBVIOUS
    <3>2. IsFiniteSet(0..n)
      BY <3>1, FS_Interval
    <3>3. QED
      BY <3>2
  <2>2. QED
    BY <2>1 DEF FiniteSubsetsOf
<1>2. PICK x \in T : \A y \in T : <<y, x>> \notin R
  <2>1. IsWellFoundedOn(R, FiniteSubsetsOf(Nat))
    BY FS_StrictSubsetOrderingWellFounded
  <2> HIDE DEF T, R
  <2>2. QED
    BY <2>1, <1>1, WFMin
<1>3. PICK n \in S : x = 0..n
  BY <1>2
<1>4. ASSUME NEW m \in S, m < n
      PROVE  FALSE
  <2>1. n \in 0..n /\ n \notin 0..m /\ 0..m \subseteq 0..n
    BY <1>4
  <2>2. <<0..m, 0..n>> \in R
    BY <2>1 DEF StrictSubsetOrdering
  <2>3. QED
    BY <2>2, <1>2, <1>3
<1>5. QED
  BY <1>4

LEMMA InductionBySet ==
  ASSUME NEW S, 0 \in S, \A n \in Nat : n \in S => n + 1 \in S
  PROVE  Nat \subseteq S
<1> DEFINE U == Nat \ S
<1> SUFFICES ASSUME U # {} PROVE FALSE
  OBVIOUS
<1>1. PICK n \in U : \A m \in U : n <= m
  <2>1. U \in SUBSET Nat
    OBVIOUS
  <2> HIDE DEF U
  <2>2. QED
    BY <2>1, LeastNumber
<1>2. n # 0 /\ n - 1 \in Nat /\ n - 1 \in S
  BY <1>1
<1>3. QED
  BY <1>1, <1>2

-----------------------------------------------------------------------------
(* Ids in their order.                                                     *)
RankIn(S, i) == Cardinality({j \in S : j < i})

LEMMA FewerInSmaller ==
  ASSUME NEW U, IsFiniteSet(U), NEW T \in SUBSET U, T # U
  PROVE  /\ Cardinality(T) \in Nat /\ Cardinality(U) \in Nat
         /\ Cardinality(T) < Cardinality(U)
<1>1. /\ IsFiniteSet(T) /\ Cardinality(T) <= Cardinality(U)
      /\ Cardinality(U) = Cardinality(T) => U = T
  BY FS_Subset
<1>2. Cardinality(T) \in Nat /\ Cardinality(U) \in Nat
  BY <1>1, FS_CardinalityType
<1>3. QED
  BY <1>1, <1>2

(* The rank of an id is below the number of ids, and grows with the id.    *)
LEMMA RankFacts ==
  ASSUME NEW S \in SUBSET Nat, IsFiniteSet(S), NEW i \in S
  PROVE  /\ RankIn(S, i) \in 0..(Cardinality(S) - 1)
         /\ \A k \in S : i < k => RankIn(S, i) < RankIn(S, k)
<1> DEFINE below(k) == {j \in S : j < k}
<1>1. below(i) \in SUBSET S /\ below(i) # S
  OBVIOUS
<1>2. /\ Cardinality(below(i)) \in Nat /\ Cardinality(S) \in Nat
      /\ Cardinality(below(i)) < Cardinality(S)
  <2> HIDE DEF below
  <2>1. QED
    BY <1>1, FewerInSmaller
<1>3. ASSUME NEW k \in S, i < k
      PROVE  Cardinality(below(i)) < Cardinality(below(k))
  <2>1. /\ below(i) \in SUBSET below(k) /\ below(i) # below(k)
        /\ below(k) \in SUBSET S
    <3>1. \A j \in S : j < i => j < k
      <4> TAKE j \in S
      <4>1. j \in Nat /\ i \in Nat /\ k \in Nat
        OBVIOUS
      <4>2. QED
        BY <4>1, <1>3
    <3>2. i \in below(k) /\ i \notin below(i)
      BY <1>3
    <3>3. QED
      BY <3>1, <3>2
  <2>2. IsFiniteSet(below(k))
    <3> HIDE DEF below
    <3>1. QED
      BY <2>1, FS_Subset
  <2>3. QED
    <3> HIDE DEF below
    <3>1. QED
      BY <2>1, <2>2, FewerInSmaller
<1>4. QED
  BY <1>2, <1>3 DEF RankIn

LEMMA RankIsOneIds ==
  ASSUME NEW S \in SUBSET Nat, IsFiniteSet(S), NEW i \in S, NEW k \in S,
         RankIn(S, i) = RankIn(S, k)
  PROVE  i = k
<1>1. /\ RankIn(S, i) \in Int /\ RankIn(S, k) \in Int
      /\ i < k => RankIn(S, i) < RankIn(S, k)
      /\ k < i => RankIn(S, k) < RankIn(S, i)
  BY RankFacts
<1>2. i \in Nat /\ k \in Nat
  OBVIOUS
<1>3. QED
  BY <1>1, <1>2

(* Every rank below the number of ids is some id's: as many ranks as ids.  *)
LEMMA RankOnto ==
  ASSUME NEW S \in SUBSET Nat, IsFiniteSet(S),
         NEW n \in 0..(Cardinality(S) - 1)
  PROVE  \E i \in S : RankIn(S, i) = n
<1> DEFINE T == 0..(Cardinality(S) - 1)
           f == [i \in S |-> RankIn(S, i)]
<1>0. Cardinality(S) \in Nat
  BY FS_CardinalityType
<1>1. IsFiniteSet(T) /\ Cardinality(T) = Cardinality(S)
  <2>1. 0 \in Int /\ Cardinality(S) - 1 \in Int
    BY <1>0
  <2>2. /\ IsFiniteSet(0..(Cardinality(S) - 1))
        /\ Cardinality(0..(Cardinality(S) - 1)) =
             IF 0 > Cardinality(S) - 1 THEN 0
             ELSE (Cardinality(S) - 1) - 0 + 1
    BY <2>1, FS_Interval
  <2>3. QED
    BY <1>0, <2>2
<1>2. f \in Injection(S, T)
  <2>1. \A i \in S : RankIn(S, i) \in T
    BY RankFacts
  <2>2. f \in [S -> T]
    BY <2>1
  <2>3. \A i, k \in S : f[i] = f[k] => i = k
    BY RankIsOneIds
  <2> HIDE DEF f, T
  <2>4. QED
    BY <2>2, <2>3 DEF Injection, IsInjective
<1>3. f \in Surjection(S, T)
  <2> HIDE DEF f, T
  <2>1. QED
    BY <1>1, <1>2, FS_Injection
<1>4. \A t \in T : \E i \in S : f[i] = t
  <2> HIDE DEF f, T
  <2>1. QED
    BY <1>3 DEF Surjection
<1>5. QED
  BY <1>4

(* ById lists every id once, each at its rank.                          *)
LEMMA ByIdFacts ==
  ASSUME NEW S \in SUBSET Nat, IsFiniteSet(S)
  PROVE  /\ ById(S) \in Seq(S)
         /\ Len(ById(S)) = Cardinality(S)
         /\ Cardinality(S) \in Nat
         /\ \A n \in 1..Cardinality(S) : RankIn(S, ById(S)[n]) = n - 1
         /\ \A i \in S : /\ RankIn(S, i) + 1 \in 1..Cardinality(S)
                         /\ ById(S)[RankIn(S, i) + 1] = i
<1> DEFINE order == ById(S)
<1>1. Cardinality(S) \in Nat
  BY FS_CardinalityType
<1>2. order = [n \in 1..Cardinality(S) |->
                 CHOOSE i \in S : RankIn(S, i) = n - 1]
  <2> DEFINE earlier == {p \in S \X S : p[1] < p[2]}
  <2>1. \A i \in S : {j \in S : <<j, i>> \in earlier} = {j \in S : j < i}
    OBVIOUS
  <2> HIDE DEF earlier
  <2>2. order = Ranked(S, earlier)
    BY DEF ById, earlier
  <2>3. \A i \in S :
          Cardinality({j \in S : <<j, i>> \in earlier}) = RankIn(S, i)
    BY <2>1 DEF RankIn
  <2>4. \A n : (CHOOSE i \in S : Cardinality({j \in S : <<j, i>> \in earlier}) = n - 1)
                = CHOOSE i \in S : RankIn(S, i) = n - 1
    BY <2>3
  <2>5. QED
    BY <2>2, <2>4 DEF Ranked
<1> HIDE DEF order
<1>3. ASSUME NEW n \in 1..Cardinality(S)
      PROVE  order[n] \in S /\ RankIn(S, order[n]) = n - 1
  <2>1. n - 1 \in 0..(Cardinality(S) - 1)
    BY <1>1
  <2>2. \E i \in S : RankIn(S, i) = n - 1
    BY <2>1, RankOnto
  <2>3. order[n] = CHOOSE i \in S : RankIn(S, i) = n - 1
    BY <1>2
  <2>4. QED
    BY <2>2, <2>3
<1>4. order \in Seq(S) /\ Len(order) = Cardinality(S)
  <2>1. order \in [1..Cardinality(S) -> S]
    BY <1>2, <1>3
  <2>2. QED
    BY <1>1, <2>1
<1>5. ASSUME NEW i \in S
      PROVE  /\ RankIn(S, i) + 1 \in 1..Cardinality(S)
             /\ order[RankIn(S, i) + 1] = i
  <2>1. RankIn(S, i) \in 0..(Cardinality(S) - 1)
    BY RankFacts
  <2>2. /\ RankIn(S, i) + 1 \in 1..Cardinality(S)
        /\ (RankIn(S, i) + 1) - 1 = RankIn(S, i)
    BY <1>1, <2>1
  <2>3. /\ order[RankIn(S, i) + 1] \in S
        /\ RankIn(S, order[RankIn(S, i) + 1]) = RankIn(S, i)
    BY <1>3, <2>2
  <2>4. order[RankIn(S, i) + 1] = i
    <3> DEFINE k == order[RankIn(S, i) + 1]
    <3>1. k \in S /\ RankIn(S, i) = RankIn(S, k)
      BY <2>3
    <3> HIDE DEF k
    <3>2. i = k
      BY <3>1, RankIsOneIds
    <3>3. QED
      BY <3>2 DEF k
  <2>5. QED
    BY <2>2, <2>4
<1>6. QED
  BY <1>1, <1>3, <1>4, <1>5 DEF order

-----------------------------------------------------------------------------
(* What a policy lets through.                                             *)
Met(identity, record, capability) ==
  Denials(identity, record.markings, capability)

SplitStep(before, record, found) ==
  IF found = {} THEN [before EXCEPT !.allowed = Append(@, record)]
  ELSE [before EXCEPT !.denials = @ + Cardinality(found)]

None0 == [allowed |-> <<>>, denials |-> 0]

(* The recursive function of Split is the one its equation describes.      *)
LEMMA SplitSteps ==
  ASSUME NEW identity, NEW records, NEW capability, Len(records) \in Nat
  PROVE  /\ Split(identity, records, capability)[0] = None0
         /\ \A n \in 1..Len(records) :
              Split(identity, records, capability)[n] =
                SplitStep(Split(identity, records, capability)[n - 1],
                          records[n], Met(identity, records[n], capability))
<1> DEFINE Onward(before, k) ==
             SplitStep(before, records[k],
                       Met(identity, records[k], capability))
           Solves(f, n) ==
             f = [k \in 0..n |-> IF k = 0 THEN None0 ELSE Onward(f[k - 1], k)]
           S == {n \in Nat : \E f : Solves(f, n)}
           split == Split(identity, records, capability)
<1> HIDE DEF Onward
<1>1. 0 \in S
  <2>1. Solves([k \in 0..0 |-> None0], 0)
    OBVIOUS
  <2>2. QED
    BY <2>1
<1>2. ASSUME NEW n \in Nat, n \in S
      PROVE  n + 1 \in S
  <2>1. PICK f : Solves(f, n)
    BY <1>2
  <2> DEFINE g == [k \in 0..(n + 1) |-> IF k = n + 1 THEN Onward(f[n], n + 1)
                                      ELSE f[k]]
  <2>2. \A k \in 0..n : f[k] = IF k = 0 THEN None0 ELSE Onward(f[k - 1], k)
    BY <2>1
  <2>3. \A k \in 0..n : g[k] = f[k]
    OBVIOUS
  <2>4. g[n + 1] = Onward(g[n], n + 1)
    BY <2>3
  <2>5. \A k \in 0..(n + 1) :
          g[k] = IF k = 0 THEN None0 ELSE Onward(g[k - 1], k)
    <3> TAKE k \in 0..(n + 1)
    <3>1. CASE k = n + 1
      BY <2>4, <3>1
    <3>2. CASE k # n + 1 /\ k # 0
      <4>1. k \in 0..n /\ k - 1 \in 0..n
        BY <3>2
      <4>2. QED
        BY <2>2, <2>3, <3>2, <4>1
    <3>3. CASE k = 0
      BY <2>2, <2>3, <3>3
    <3>4. QED
      BY <3>1, <3>2, <3>3
  <2>6. Solves(g, n + 1)
    BY <2>5
  <2> HIDE DEF Solves
  <2>7. QED
    BY <2>6
<1>3. PICK f : Solves(f, Len(records))
  <2>1. Len(records) \in S
    <3> HIDE DEF S
    <3>1. QED
      BY <1>1, <1>2, InductionBySet
  <2>2. QED
    BY <2>1
<1>4. Solves(split, Len(records))
  BY <1>3, Zenon DEF Split, Onward, SplitStep, Met, None0
<1>5. \A k \in 0..Len(records) :
        split[k] = IF k = 0 THEN None0 ELSE Onward(split[k - 1], k)
  <2>1. split = [k \in 0..Len(records) |->
                   IF k = 0 THEN None0 ELSE Onward(split[k - 1], k)]
    BY <1>4
  <2> HIDE DEF split
  <2>2. QED
    BY <2>1, Zenon
<1>6. 0 \in 0..Len(records)
      /\ \A n \in 1..Len(records) : n \in 0..Len(records) /\ n # 0
  OBVIOUS
<1>7. QED
  BY <1>5, <1>6 DEF Onward

(* The denials one record meets are finitely many, because its markings    *)
(* are.                                                                    *)
LEMMA FiniteDenials ==
  ASSUME NEW identity, NEW markings, IsFiniteSet(markings), NEW capability
  PROVE  IsFiniteSet(Denials(identity, markings, capability))
<1> DEFINE against == {m \in markings :
                         Denial(identity, m, capability) # None}
           reason == [m \in against |-> <<m, Denial(identity, m, capability)>>]
           marked == {<<m, Denial(identity, m, capability)>> : m \in against}
           able == {<<None, "missing_capability">> :
                      c \in {capability} \ identity.capabilities}
<1>1. IsFiniteSet(against)
  BY FS_Subset
<1>2. reason \in Surjection(against, marked)
  <2>1. reason \in [against -> marked]
    OBVIOUS
  <2>2. \A t \in marked : \E m \in against : reason[m] = t
    OBVIOUS
  <2> HIDE DEF reason, against, marked
  <2>3. QED
    BY <2>1, <2>2 DEF Surjection
<1>3. IsFiniteSet(marked)
  <2> HIDE DEF reason, against, marked
  <2>1. QED
    BY <1>1, <1>2, FS_Surjection
<1>4. IsFiniteSet(able)
  <2>1. able \in SUBSET {<<None, "missing_capability">>}
    OBVIOUS
  <2> HIDE DEF able
  <2>2. QED
    BY <2>1, FS_Singleton, FS_Subset
<1>5. IsFiniteSet(able \union marked)
  <2> HIDE DEF able, marked
  <2>1. QED
    BY <1>3, <1>4, FS_Union
<1>6. QED
  BY <1>5 DEF Denials

(* The first n of the records are among those allowed.                     *)
AmongFirst(allowed, records, n) ==
  \A k \in 1..n : \E i \in 1..Len(allowed) : allowed[i] = records[k]

(* Of the records partition is given it allows those that meet no denial,  *)
(* and where it leaves one out it has a denial to show.                    *)
LEMMA PartitionFacts ==
  ASSUME NEW identity, NEW X, NEW records \in Seq(X), NEW capability,
         \A r \in X : IsFiniteSet(r.markings)
  PROVE  LET made == Partition(identity, records, capability) IN
         /\ made.allowed \in Seq(X) /\ made.denials \in Nat
         /\ Len(made.allowed) <= Len(records)
         /\ Len(made.allowed) < Len(records) => made.denials > 0
         /\ \A r \in ToSet(made.allowed) : Met(identity, r, capability) = {}
         /\ made.denials = 0 => ToSet(records) \subseteq ToSet(made.allowed)
<1> DEFINE split == Split(identity, records, capability)
           Good(n) ==
             /\ split[n] = [allowed |-> split[n].allowed,
                            denials |-> split[n].denials]
             /\ split[n].allowed \in Seq(X) /\ split[n].denials \in Nat
             /\ Len(split[n].allowed) <= n
             /\ Len(split[n].allowed) < n => split[n].denials > 0
             /\ \A k \in 1..Len(split[n].allowed) :
                  Met(identity, split[n].allowed[k], capability) = {}
             /\ split[n].denials = 0 => AmongFirst(split[n].allowed, records, n)
           S == {n \in Nat : n <= Len(records) => Good(n)}
<1>0. /\ split[0] = None0
      /\ \A n \in 1..Len(records) :
           split[n] = SplitStep(split[n - 1], records[n],
                                Met(identity, records[n], capability))
  BY SplitSteps
<1> HIDE DEF split, Good
<1>1. 0 \in S
  <2>1. /\ split[0].allowed = <<>> /\ split[0].denials = 0
        /\ split[0] = [allowed |-> split[0].allowed,
                       denials |-> split[0].denials]
    BY <1>0 DEF None0
  <2>2. Good(0)
    BY <2>1 DEF Good, AmongFirst
  <2>3. QED
    BY <2>2
<1>2. ASSUME NEW n \in Nat, n \in S
      PROVE  n + 1 \in S
  <2> SUFFICES ASSUME n + 1 <= Len(records) PROVE Good(n + 1)
    OBVIOUS
  <2> DEFINE found == Met(identity, records[n + 1], capability)
             a == split[n].allowed
             d == split[n].denials
  <2>1. /\ Good(n)
        /\ split[n] = [allowed |-> a, denials |-> d]
        /\ a \in Seq(X) /\ d \in Nat
        /\ Len(a) <= n
        /\ Len(a) < n => d > 0
        /\ \A k \in 1..Len(a) : Met(identity, a[k], capability) = {}
        /\ d = 0 => AmongFirst(a, records, n)
    <3>1. Good(n)
      BY <1>2
    <3>2. QED
      BY <3>1 DEF Good
  <2>2. n + 1 \in 1..Len(records) /\ (n + 1) - 1 = n
    OBVIOUS
  <2>3. records[n + 1] \in X
    BY <2>2
  <2>4. split[n + 1] = SplitStep(split[n], records[n + 1], found)
    BY <1>0, <2>2
  <2>5. split[n] = [allowed |-> a, denials |-> d]
    BY <2>1
  <2>6. CASE found = {}
    <3>1. split[n + 1] = [allowed |-> Append(a, records[n + 1]),
                          denials |-> d]
      BY <2>4, <2>5, <2>6 DEF SplitStep
    <3>2. a \in Seq(X) /\ d \in Nat /\ Len(a) <= n
          /\ (Len(a) < n => d > 0)
      BY <2>1
    <3>3. \A k \in 1..Len(a) : Met(identity, a[k], capability) = {}
      BY <2>1
    <3> DEFINE b == Append(a, records[n + 1])
    <3>4. b \in Seq(X) /\ Len(b) = Len(a) + 1 /\ b[Len(a) + 1] = records[n + 1]
          /\ \A k \in 1..Len(a) : b[k] = a[k]
      BY <2>3, <3>2
    <3>5. \A k \in 1..Len(b) : Met(identity, b[k], capability) = {}
      <4> TAKE k \in 1..Len(b)
      <4>1. k = Len(a) + 1 \/ k \in 1..Len(a)
        BY <3>2, <3>4
      <4> HIDE DEF b, a
      <4>2. QED
        BY <2>6, <3>3, <3>4, <4>1
    <3>6. split[n + 1].allowed = b /\ split[n + 1].denials = d
      BY <3>1
    <3>7. d = 0 => AmongFirst(a, records, n)
      BY <2>1
    <3> HIDE DEF a, d, b
    <3>8. d = 0 => AmongFirst(b, records, n + 1)
      <4> SUFFICES ASSUME d = 0, NEW k \in 1..(n + 1)
                   PROVE  \E i \in 1..Len(b) : b[i] = records[k]
        BY DEF AmongFirst
      <4>1. CASE k = n + 1
        <5>1. Len(b) \in 1..Len(b)
          BY <3>2, <3>4
        <5>2. QED
          BY <3>4, <4>1, <5>1
      <4>2. CASE k # n + 1
        <5>1. k \in 1..n
          BY <4>2
        <5>2. PICK i \in 1..Len(a) : a[i] = records[k]
          BY <3>7, <5>1 DEF AmongFirst
        <5>3. i \in 1..Len(b)
          BY <3>2, <3>4
        <5>4. QED
          BY <3>4, <5>2, <5>3
      <4>3. QED
        BY <4>1, <4>2
    <3>9. split[n + 1].denials = 0 =>
            AmongFirst(split[n + 1].allowed, records, n + 1)
      BY <3>6, <3>8
    <3>10. /\ split[n + 1] = [allowed |-> split[n + 1].allowed,
                              denials |-> split[n + 1].denials]
           /\ split[n + 1].allowed \in Seq(X) /\ split[n + 1].denials \in Nat
           /\ Len(split[n + 1].allowed) <= n + 1
           /\ Len(split[n + 1].allowed) < n + 1 => split[n + 1].denials > 0
           /\ \A k \in 1..Len(split[n + 1].allowed) :
                Met(identity, split[n + 1].allowed[k], capability) = {}
      BY <3>1, <3>2, <3>4, <3>5, <3>6
    <3>11. QED
      BY <3>9, <3>10 DEF Good
  <2>7. CASE found # {}
    <3>1. split[n + 1] = [allowed |-> a, denials |-> d + Cardinality(found)]
      BY <2>4, <2>5, <2>7 DEF SplitStep
    <3>2. Cardinality(found) \in Nat /\ Cardinality(found) > 0
      <4>1. IsFiniteSet(found)
        BY <2>3, FiniteDenials DEF Met
      <4> HIDE DEF found
      <4>2. QED
        BY <4>1, <2>7, FS_EmptySet, FS_CardinalityType
    <3>3. a \in Seq(X) /\ d \in Nat /\ Len(a) <= n
      BY <2>1
    <3>4. \A k \in 1..Len(a) : Met(identity, a[k], capability) = {}
      BY <2>1
    <3>5. split[n + 1].allowed = a
          /\ split[n + 1].denials = d + Cardinality(found)
      BY <3>1
    <3> DEFINE e == d + Cardinality(found)
    <3>6. e \in Nat /\ e > 0 /\ Len(a) <= n + 1
      BY <3>2, <3>3
    <3>7. /\ split[n + 1] = [allowed |-> a, denials |-> e]
          /\ split[n + 1].allowed = a /\ split[n + 1].denials = e
      BY <3>1, <3>5
    <3> HIDE DEF a, d, found, e
    <3>8. split[n + 1].denials # 0
      BY <3>6, <3>7
    <3>9. /\ split[n + 1] = [allowed |-> split[n + 1].allowed,
                             denials |-> split[n + 1].denials]
          /\ split[n + 1].allowed \in Seq(X) /\ split[n + 1].denials \in Nat
          /\ Len(split[n + 1].allowed) <= n + 1
          /\ Len(split[n + 1].allowed) < n + 1 => split[n + 1].denials > 0
          /\ \A k \in 1..Len(split[n + 1].allowed) :
               Met(identity, split[n + 1].allowed[k], capability) = {}
      BY <3>3, <3>4, <3>6, <3>7
    <3>10. QED
      BY <3>8, <3>9 DEF Good
  <2>8. QED
    BY <2>6, <2>7
<1>3. Len(records) \in S
  <2> HIDE DEF S
  <2>1. QED
    BY <1>1, <1>2, InductionBySet
<1>4. /\ split[Len(records)].allowed \in Seq(X)
      /\ split[Len(records)].denials \in Nat
      /\ Len(split[Len(records)].allowed) <= Len(records)
      /\ Len(split[Len(records)].allowed) < Len(records) =>
           split[Len(records)].denials > 0
      /\ \A k \in 1..Len(split[Len(records)].allowed) :
           Met(identity, split[Len(records)].allowed[k], capability) = {}
      /\ split[Len(records)].denials = 0 =>
           AmongFirst(split[Len(records)].allowed, records, Len(records))
  <2>1. Good(Len(records))
    BY <1>3
  <2>2. QED
    BY <2>1 DEF Good
<1>5. Partition(identity, records, capability) = split[Len(records)]
  BY DEF Partition, split
<1>6. \A r \in ToSet(split[Len(records)].allowed) :
        Met(identity, r, capability) = {}
  <2>1. DOMAIN split[Len(records)].allowed
          = 1..Len(split[Len(records)].allowed)
    BY <1>4
  <2>2. QED
    BY <1>4, <2>1 DEF ToSet
<1>7. split[Len(records)].denials = 0 =>
        ToSet(records) \subseteq ToSet(split[Len(records)].allowed)
  <2>1. /\ DOMAIN split[Len(records)].allowed
             = 1..Len(split[Len(records)].allowed)
        /\ DOMAIN records = 1..Len(records)
    BY <1>4
  <2>2. QED
    BY <1>4, <2>1 DEF ToSet, AmongFirst
<1>8. QED
  BY <1>4, <1>5, <1>6, <1>7

-----------------------------------------------------------------------------
(* A pack and what it was made of.                                         *)
MadeOf(g, now) == Assembled(Assembly(g, now), g)
MadeFor(g, now) == IF IsCommand THEN MadeOf(g, now) ELSE Served(MadeOf(g, now))

ReadClaimsOf(g) == Partition(Reader, g.claims, "read")
ReadEdgesOf(g) == Partition(Reader, g.edges, "read")
CountWithheld(g) == ReadClaimsOf(g).denials + ReadEdgesOf(g).denials

PackFields ==
  {"detail_level", "disposition", "graph", "handles", "findings", "gaps",
   "exclusions", "requested", "consumed", "exhausted", "recipient",
   "markings", "restricted", "graph_version", "generated_at", "request_id"}

LEMMA MadeFields ==
  ASSUME NEW g, NEW now
  PROVE  LET made == MadeOf(g, now)
             claims == ReadClaimsOf(g).allowed
             edges == ReadEdgesOf(g).allowed
             evidence == EvidenceOf(g, claims) IN
         /\ DOMAIN made = PackFields
         /\ made = [f \in PackFields |-> made[f]]
         /\ made.findings =
              IF evidence = {} THEN {} ELSE {[evidence |-> evidence]}
         /\ made.graph =
              GraphOf(made.detail_level, g, claims, edges, evidence)
         /\ DOMAIN made.handles = DOMAIN claims
         /\ \A i \in DOMAIN claims :
              made.handles[i] = Handle(claims[i].id, g.version, now)
         /\ made.disposition = DispositionOf(claims)
         /\ made.markings = PackMarkings(claims, edges)
         /\ made.restricted <=> CountWithheld(g) > 0
         /\ made.exhausted <=> \/ Reaches(claims, Objects)
                               \/ Reaches(edges, Relationships)
         /\ made.exclusions =
              Exclusions(claims, edges, CountWithheld(g), Assembly(g, now))
         /\ made.graph_version = g.version
<1> DEFINE r == Assembly(g, now)
<1>1. /\ r.identity = Reader /\ r.version = g.version /\ r.now = now
      /\ r.max_objects = Objects /\ r.max_relationships = Relationships
  BY DEF Assembly
<1> HIDE DEF r
<1> DEFINE claims == Partition(r.identity, g.claims, "read").allowed
           edges == Partition(r.identity, g.edges, "read").allowed
           withheld == Partition(r.identity, g.claims, "read").denials
                         + Partition(r.identity, g.edges, "read").denials
           evidence == EvidenceOf(g, claims)
           made == Assembled(r, g)
<1>2. made =
  [detail_level |-> r.level,
   disposition |-> DispositionOf(claims),
   graph |-> GraphOf(r.level, g, claims, edges, evidence),
   handles |-> [i \in DOMAIN claims |->
                  Handle(claims[i].id, r.version, r.now)],
   findings |-> IF evidence = {} THEN {} ELSE {[evidence |-> evidence]},
   gaps |-> Gaps(claims, edges, g.sightings, evidence, withheld),
   exclusions |-> Exclusions(claims, edges, withheld, r),
   requested |-> <<r.max_objects, r.max_relationships>>,
   consumed |-> <<Len(claims), Len(edges)>>,
   exhausted |-> \/ Reaches(claims, r.max_objects)
                 \/ Reaches(edges, r.max_relationships),
   recipient |-> r.identity.name,
   markings |-> PackMarkings(claims, edges),
   restricted |-> withheld > 0,
   graph_version |-> r.version,
   generated_at |-> r.now, request_id |-> r.request_id]
  BY DEF Assembled
<1> HIDE DEF claims, edges, withheld, evidence, made
<1>3. /\ DOMAIN made = PackFields
      /\ made = [f \in PackFields |-> made[f]]
  BY <1>2 DEF PackFields
<1>4. /\ made.detail_level = r.level
      /\ made.findings =
           IF evidence = {} THEN {} ELSE {[evidence |-> evidence]}
      /\ made.graph = GraphOf(r.level, g, claims, edges, evidence)
      /\ DOMAIN made.handles = DOMAIN claims
      /\ \A i \in DOMAIN claims :
           made.handles[i] = Handle(claims[i].id, r.version, r.now)
      /\ made.disposition = DispositionOf(claims)
      /\ made.markings = PackMarkings(claims, edges)
      /\ made.exclusions = Exclusions(claims, edges, withheld, r)
      /\ made.graph_version = r.version
  BY <1>2
<1>5. /\ made.restricted <=> withheld > 0
      /\ made.exhausted <=> \/ Reaches(claims, r.max_objects)
                            \/ Reaches(edges, r.max_relationships)
  BY <1>2
<1>6. /\ claims = ReadClaimsOf(g).allowed /\ edges = ReadEdgesOf(g).allowed
      /\ withheld = CountWithheld(g)
  BY <1>1 DEF claims, edges, withheld, ReadClaimsOf, ReadEdgesOf,
              CountWithheld
<1>7. made = MadeOf(g, now)
  BY DEF made, r, MadeOf
<1>8. evidence = EvidenceOf(g, claims)
  BY DEF evidence
<1>9. QED
  BY <1>1, <1>3, <1>4, <1>5, <1>6, <1>7, <1>8 DEF r

(* The server adds to the exclusions and the gaps, and states the budget   *)
(* that was asked for; nothing it adds is retryable.                       *)
LEMMA ServedFields ==
  ASSUME NEW g, NEW now
  PROVE  LET made == MadeOf(g, now)  served == MadeFor(g, now) IN
         /\ DOMAIN served = PackFields
         /\ \A f \in PackFields \ {"exclusions", "gaps", "requested"} :
              served[f] = made[f]
         /\ (\E e \in served.exclusions : IsRetryable(e.reason))
              <=> (\E e \in made.exclusions : IsRetryable(e.reason))
         /\ made.exclusions \subseteq served.exclusions
<1> DEFINE made == MadeOf(g, now)
           asked == request.level # None /\ request.level # "L1"
           extra == IF asked
                    THEN {Exclusion("detail_level", "not_implemented")} ELSE {}
<1>1. /\ DOMAIN made = PackFields
      /\ made = [f \in PackFields |-> made[f]]
  BY MadeFields
<1>2. CASE IsCommand
  BY <1>1, <1>2 DEF MadeFor
<1>3. CASE ~IsCommand
  <2>1. MadeFor(g, now) =
          [made EXCEPT !.exclusions = @ \union extra,
             !.gaps = @ \union (IF asked THEN {"detail_level"} ELSE {}),
             !.requested = <<request.objects, request.relationships>>]
    BY <1>3 DEF MadeFor, Served
  <2>2. \A e \in extra : ~IsRetryable(e.reason)
    BY DEF IsRetryable, Exclusion
  <2> HIDE DEF made, extra, asked
  <2>3. /\ DOMAIN MadeFor(g, now) = PackFields
        /\ \A f \in PackFields \ {"exclusions", "gaps", "requested"} :
             MadeFor(g, now)[f] = made[f]
    BY <1>1, <2>1
  <2>4. MadeFor(g, now).exclusions = made.exclusions \union extra
    BY <1>1, <2>1 DEF PackFields
  <2>5. QED
    BY <2>2, <2>3, <2>4 DEF made
<1>4. QED
  BY <1>2, <1>3

(* What the pack of an answer says is what was made.                       *)
LEMMA AnswerFields ==
  ASSUME NEW g, NEW now, IsPack(AnswerOf(g, now))
  PROVE  LET made == MadeOf(g, now)  pack == AnswerOf(g, now) IN
         /\ \A f \in PackFields \ {"exclusions", "gaps", "requested"} :
              pack[f] = made[f]
         /\ (\E e \in pack.exclusions : IsRetryable(e.reason))
              <=> (\E e \in made.exclusions : IsRetryable(e.reason))
         /\ made.exclusions \subseteq pack.exclusions
<1> DEFINE served == MadeFor(g, now)
<1>1. AnswerOf(g, now) = Validated(served)
  BY DEF AnswerOf, Build, MadeFor, MadeOf
<1>2. DOMAIN served = PackFields
  BY ServedFields
<1> HIDE DEF served
<1>3. Invalid(served) = None
  <2>1. CASE Invalid(served) # None
    <3>1. AnswerOf(g, now) = [invalid |-> Invalid(served)]
      BY <1>1, <2>1 DEF Validated
    <3>2. "fingerprint" \notin DOMAIN AnswerOf(g, now)
      BY <3>1
    <3>3. QED
      BY <3>2 DEF IsPack
  <2>2. QED
    BY <2>1
<1>4. AnswerOf(g, now) = [f \in PackFields \union {"fingerprint"} |->
                            IF f = "fingerprint" THEN FingerprintOf(served)
                            ELSE served[f]]
  BY <1>1, <1>2, <1>3 DEF Validated
<1>5. \A f \in PackFields : f # "fingerprint"
  BY DEF PackFields
<1>6. \A f \in PackFields : AnswerOf(g, now)[f] = served[f]
  BY <1>4, <1>5
<1>7. "exclusions" \in PackFields
  BY DEF PackFields
<1>8. AnswerOf(g, now).exclusions = served.exclusions
  BY <1>6, <1>7
<1>9. QED
  BY <1>6, <1>8, ServedFields DEF served

-----------------------------------------------------------------------------
(* What a pack is made of says what it may say.                            *)
RowsOf(t) == UNION {Catalogue[t][id] : id \in DOMAIN Catalogue[t]}

LEMMA MarkingsFinite ==
  ASSUME NEW t \in {"claims", "edges"}
  PROVE  \A r \in RowsOf(t) : IsFiniteSet(r.markings)
  BY ServingAssumption DEF RowsOf

LEMMA SeverestIsSaid ==
  ASSUME NEW claims
  PROVE  DispositionOf(claims)
           \in {c.assertion : c \in ToSet(claims)} \union {"unknown"}
<1> DEFINE said == {c.assertion : c \in {d \in ToSet(claims) :
                      IsCurrent(d) /\ d.assertion # "attribute"}}
<1>1. said \subseteq {c.assertion : c \in ToSet(claims)}
  OBVIOUS
<1>2. DispositionOf(claims) =
        IF said = {} THEN "unknown"
        ELSE CHOOSE d \in said : \A e \in said : Severity(e) <= Severity(d)
  BY DEF DispositionOf
<1> HIDE DEF said
<1>3. \A d : Severity(d) \in 1..5
  BY DEF Severity
<1>4. ASSUME said # {}
      PROVE  \E d \in said : \A e \in said : Severity(e) <= Severity(d)
  <2>1. CASE \E d \in said : Severity(d) = 5
    BY <1>3, <2>1
  <2>2. CASE /\ \A e \in said : Severity(e) # 5
             /\ \E d \in said : Severity(d) = 4
    BY <1>3, <2>2
  <2>3. CASE /\ \A e \in said : Severity(e) \notin {4, 5}
             /\ \E d \in said : Severity(d) = 3
    BY <1>3, <2>3
  <2>4. CASE /\ \A e \in said : Severity(e) \notin {3, 4, 5}
             /\ \E d \in said : Severity(d) = 2
    BY <1>3, <2>4
  <2>5. CASE \A e \in said : Severity(e) \notin {2, 3, 4, 5}
    <3>1. \A e \in said : Severity(e) = 1
      BY <1>3, <2>5
    <3>2. QED
      BY <1>4, <3>1
  <2>6. QED
    BY <2>1, <2>2, <2>3, <2>4, <2>5
<1>5. QED
  BY <1>1, <1>2, <1>4

(* Every entity that was read is at an end of an edge that was.            *)
NamesEnds(g) ==
  /\ DOMAIN g.entities = 1..Len(g.entities)
  /\ \A e \in ToSet(g.entities) : e.id \in EndsOf(g.edges)

(* Every list of a pack is made of the claims that may be read.            *)
LEMMA SaysWhatMayBeRead ==
  ASSUME NEW g, NEW now, IsPack(AnswerOf(g, now)),
         g.claims \in Seq(RowsOf("claims")), g.edges \in Seq(RowsOf("edges")),
         NamesEnds(g)
  PROVE  LET pack == AnswerOf(g, now)
             claims == MayRead(g.claims)  edges == MayRead(g.edges) IN
         /\ Cited(pack) \union UNION {c.evidence : c \in ToSet(pack.graph.claims)}
              \subseteq SourcesOf(claims)
         /\ {h.target : h \in ToSet(pack.handles)}
              = {c.id : c \in ToSet(claims)}
         /\ pack.disposition
              \in {c.assertion : c \in ToSet(claims)} \union {"unknown"}
         /\ pack.markings = PackMarkings(claims, edges)
         /\ {r.id : r \in ToSet(pack.graph.relationships)}
              \subseteq {e.id : e \in ToSet(edges)}
         /\ \/ Len(claims) < Len(g.claims)
            \/ Len(edges) < Len(g.edges)
            \/ {e.id : e \in ToSet(pack.graph.entities)} \ EndsOf(edges) # {}
            => pack.restricted
<1> DEFINE pack == AnswerOf(g, now)
           made == MadeOf(g, now)
           claims == ReadClaimsOf(g).allowed
           edges == ReadEdgesOf(g).allowed
           evidence == EvidenceOf(g, claims)
<1>1. /\ "findings" \in PackFields \ {"exclusions", "gaps", "requested"}
      /\ "graph" \in PackFields \ {"exclusions", "gaps", "requested"}
      /\ "handles" \in PackFields \ {"exclusions", "gaps", "requested"}
      /\ "disposition" \in PackFields \ {"exclusions", "gaps", "requested"}
      /\ "markings" \in PackFields \ {"exclusions", "gaps", "requested"}
      /\ "restricted" \in PackFields \ {"exclusions", "gaps", "requested"}
  BY DEF PackFields
<1>2. /\ pack.findings = made.findings /\ pack.graph = made.graph
      /\ pack.handles = made.handles /\ pack.disposition = made.disposition
      /\ pack.markings = made.markings /\ pack.restricted = made.restricted
  BY <1>1, AnswerFields
<1>3. claims = MayRead(g.claims) /\ edges = MayRead(g.edges)
  BY DEF MayRead, ReadClaimsOf, ReadEdgesOf
<1>4. /\ made.findings =
           IF evidence = {} THEN {} ELSE {[evidence |-> evidence]}
      /\ made.graph = GraphOf(made.detail_level, g, claims, edges, evidence)
      /\ DOMAIN made.handles = DOMAIN claims
      /\ \A i \in DOMAIN claims :
           made.handles[i] = Handle(claims[i].id, g.version, now)
      /\ made.disposition = DispositionOf(claims)
      /\ made.markings = PackMarkings(claims, edges)
      /\ made.restricted <=> CountWithheld(g) > 0
  <2>1. made.findings =
          IF evidence = {} THEN {} ELSE {[evidence |-> evidence]}
    BY MadeFields
  <2>2. made.graph = GraphOf(made.detail_level, g, claims, edges, evidence)
    BY MadeFields
  <2>3. /\ DOMAIN made.handles = DOMAIN claims
        /\ \A i \in DOMAIN claims :
             made.handles[i] = Handle(claims[i].id, g.version, now)
    BY MadeFields
  <2>4. /\ made.disposition = DispositionOf(claims)
        /\ made.markings = PackMarkings(claims, edges)
    BY MadeFields
  <2>5. made.restricted <=> CountWithheld(g) > 0
    BY MadeFields
  <2>6. QED
    BY <2>1, <2>2, <2>3, <2>4, <2>5
<1>5. /\ claims \in Seq(RowsOf("claims"))
      /\ ReadClaimsOf(g).denials \in Nat /\ ReadEdgesOf(g).denials \in Nat
      /\ Len(claims) < Len(g.claims) => ReadClaimsOf(g).denials > 0
      /\ Len(edges) < Len(g.edges) => ReadEdgesOf(g).denials > 0
      /\ ReadEdgesOf(g).denials = 0 => ToSet(g.edges) \subseteq ToSet(edges)
  BY PartitionFacts, MarkingsFinite DEF ReadClaimsOf, ReadEdgesOf
<1>6. evidence = SourcesOf(claims)
  BY DEF EvidenceOf, SourcesOf
<1> HIDE DEF pack, made, claims, edges, evidence
<1>7. Cited(pack) \subseteq SourcesOf(claims)
  BY <1>2, <1>4, <1>6 DEF Cited
<1>8. UNION {c.evidence : c \in ToSet(pack.graph.claims)}
        \subseteq SourcesOf(claims)
  <2>1. CASE made.detail_level = "L0"
    <3>1. pack.graph.claims = <<>>
      BY <1>2, <1>4, <2>1 DEF GraphOf, EmptyGraph
    <3>2. QED
      BY <3>1 DEF ToSet
  <2>2. CASE made.detail_level # "L0"
    <3>1. pack.graph.claims =
            [i \in DOMAIN claims |-> SummariseClaim(claims[i], evidence)]
      BY <1>2, <1>4, <2>2 DEF GraphOf
    <3>2. ASSUME NEW i \in DOMAIN claims
          PROVE  SummariseClaim(claims[i], evidence).evidence
                   \subseteq SourcesOf(claims)
      <4>1. claims[i] \in ToSet(claims)
        BY DEF ToSet
      <4>2. SummariseClaim(claims[i], evidence).evidence =
              IF claims[i].sources = {} THEN evidence ELSE claims[i].sources
        BY DEF SummariseClaim
      <4>3. claims[i].sources \subseteq SourcesOf(claims)
        BY <4>1 DEF SourcesOf
      <4>4. QED
        BY <1>6, <4>2, <4>3
    <3>3. ToSet(pack.graph.claims) =
            {SummariseClaim(claims[i], evidence) : i \in DOMAIN claims}
      BY <3>1 DEF ToSet
    <3>4. QED
      BY <3>2, <3>3
  <2>3. QED
    BY <2>1, <2>2
<1>9. {h.target : h \in ToSet(pack.handles)} = {c.id : c \in ToSet(claims)}
  <2>1. ToSet(pack.handles) =
          {Handle(claims[i].id, g.version, now) : i \in DOMAIN claims}
    BY <1>2, <1>4 DEF ToSet
  <2>2. \A x : Handle(x, g.version, now).target = x
    BY DEF Handle
  <2>3. {h.target : h \in ToSet(pack.handles)}
          = {claims[i].id : i \in DOMAIN claims}
    BY <2>1, <2>2
  <2>4. {c.id : c \in ToSet(claims)} = {claims[i].id : i \in DOMAIN claims}
    BY DEF ToSet
  <2>5. QED
    BY <2>3, <2>4
<1>10. pack.disposition
         \in {c.assertion : c \in ToSet(claims)} \union {"unknown"}
  BY <1>2, <1>4, SeverestIsSaid
<1>11. /\ Len(claims) < Len(g.claims) => pack.restricted
       /\ Len(edges) < Len(g.edges) => pack.restricted
  <2>1. /\ Len(claims) < Len(g.claims) => CountWithheld(g) > 0
        /\ Len(edges) < Len(g.edges) => CountWithheld(g) > 0
    BY <1>5 DEF CountWithheld
  <2>2. QED
    BY <1>2, <1>4, <2>1
<1>12. {r.id : r \in ToSet(pack.graph.relationships)}
         \subseteq {e.id : e \in ToSet(edges)}
  <2>1. CASE made.detail_level = "L0"
    <3>1. pack.graph.relationships = <<>>
      BY <1>2, <1>4, <2>1 DEF GraphOf, EmptyGraph
    <3>2. QED
      BY <3>1 DEF ToSet
  <2>2. CASE made.detail_level # "L0"
    <3>1. pack.graph.relationships =
            [i \in DOMAIN edges |-> SummariseEdge(edges[i])]
      BY <1>2, <1>4, <2>2 DEF GraphOf
    <3>2. ToSet(pack.graph.relationships) =
            {SummariseEdge(edges[i]) : i \in DOMAIN edges}
      BY <3>1 DEF ToSet
    <3>3. \A i \in DOMAIN edges : SummariseEdge(edges[i]).id = edges[i].id
      BY DEF SummariseEdge
    <3>4. \A i \in DOMAIN edges : edges[i] \in ToSet(edges)
      BY DEF ToSet
    <3>5. QED
      BY <3>2, <3>3, <3>4
  <2>3. QED
    BY <2>1, <2>2
<1>13. {e.id : e \in ToSet(pack.graph.entities)} \subseteq EndsOf(g.edges)
  <2>1. CASE made.detail_level = "L0"
    <3>1. pack.graph.entities = <<>>
      BY <1>2, <1>4, <2>1 DEF GraphOf, EmptyGraph
    <3>2. QED
      BY <3>1 DEF ToSet
  <2>2. CASE made.detail_level # "L0"
    <3>1. pack.graph.entities =
            [i \in DOMAIN g.entities |-> SummariseEntity(g.entities[i])]
      BY <1>2, <1>4, <2>2 DEF GraphOf
    <3>2. ToSet(pack.graph.entities) =
            {SummariseEntity(g.entities[i]) : i \in DOMAIN g.entities}
      BY <3>1 DEF ToSet
    <3>3. \A i \in DOMAIN g.entities :
            /\ SummariseEntity(g.entities[i]).id = g.entities[i].id
            /\ g.entities[i] \in ToSet(g.entities)
      BY DEF SummariseEntity, ToSet
    <3>4. QED
      BY <3>2, <3>3 DEF NamesEnds
  <2>3. QED
    BY <2>1, <2>2
<1>14. {e.id : e \in ToSet(pack.graph.entities)} \ EndsOf(edges) # {}
         => pack.restricted
  <2>1. CASE ReadEdgesOf(g).denials = 0
    <3>1. EndsOf(g.edges) \subseteq EndsOf(edges)
      BY <1>5, <2>1 DEF EndsOf
    <3>2. QED
      BY <1>13, <3>1
  <2>2. CASE ReadEdgesOf(g).denials # 0
    <3>1. CountWithheld(g) > 0
      BY <1>5, <2>2 DEF CountWithheld
    <3>2. QED
      BY <1>2, <1>4, <3>1
  <2>3. QED
    BY <2>1, <2>2
<1>15. QED
  BY <1>2, <1>3, <1>4, <1>7, <1>8, <1>9, <1>10, <1>11, <1>12, <1>14 DEF pack

SaysOnlyOf(g, pack) ==
  LET claims == MayRead(g.claims)  edges == MayRead(g.edges) IN
  /\ Cited(pack) \union UNION {c.evidence : c \in ToSet(pack.graph.claims)}
       \subseteq SourcesOf(claims)
  /\ {h.target : h \in ToSet(pack.handles)} = {c.id : c \in ToSet(claims)}
  /\ pack.disposition \in {c.assertion : c \in ToSet(claims)} \union {"unknown"}
  /\ pack.markings = PackMarkings(claims, edges)
  /\ {r.id : r \in ToSet(pack.graph.relationships)}
       \subseteq {e.id : e \in ToSet(edges)}
  /\ \/ Len(claims) < Len(g.claims)
     \/ Len(edges) < Len(g.edges)
     \/ {e.id : e \in ToSet(pack.graph.entities)} \ EndsOf(edges) # {}
     => pack.restricted

LEMMA SaysOnlyOfThese ==
  ASSUME NEW g, NEW now, IsPack(AnswerOf(g, now)),
         g.claims \in Seq(RowsOf("claims")), g.edges \in Seq(RowsOf("edges")),
         NamesEnds(g)
  PROVE  SaysOnlyOf(g, AnswerOf(g, now))
BY SaysWhatMayBeRead DEF SaysOnlyOf

(* A pack of which nothing is withheld is exhausted where its claims are   *)
(* as many as were asked for, and says that more would help.               *)
LEMMA FullPageIsExhausted ==
  ASSUME NEW g, NEW now, IsPack(AnswerOf(g, now)),
         g.claims \in Seq(RowsOf("claims")), g.edges \in Seq(RowsOf("edges"))
  PROVE  LET pack == AnswerOf(g, now) IN
         /\ Reaches(g.claims, Objects) /\ ~pack.restricted => pack.exhausted
         /\ pack.exhausted <=> \E e \in pack.exclusions : IsRetryable(e.reason)
<1> DEFINE pack == AnswerOf(g, now)
           made == MadeOf(g, now)
           claims == ReadClaimsOf(g).allowed
           edges == ReadEdgesOf(g).allowed
<1>1. /\ "exhausted" \in PackFields \ {"exclusions", "gaps", "requested"}
      /\ "restricted" \in PackFields \ {"exclusions", "gaps", "requested"}
  BY DEF PackFields
<1>2. /\ pack.exhausted = made.exhausted /\ pack.restricted = made.restricted
      /\ (\E e \in pack.exclusions : IsRetryable(e.reason))
           <=> (\E e \in made.exclusions : IsRetryable(e.reason))
  BY <1>1, AnswerFields
<1>3. /\ made.restricted <=> CountWithheld(g) > 0
      /\ made.exhausted <=> \/ Reaches(claims, Objects)
                            \/ Reaches(edges, Relationships)
      /\ made.exclusions =
           Exclusions(claims, edges, CountWithheld(g), Assembly(g, now))
  BY MadeFields
<1>4. /\ claims \in Seq(RowsOf("claims"))
      /\ ReadClaimsOf(g).denials \in Nat /\ ReadEdgesOf(g).denials \in Nat
      /\ Len(claims) <= Len(g.claims)
      /\ Len(claims) < Len(g.claims) => ReadClaimsOf(g).denials > 0
  BY PartitionFacts, MarkingsFinite DEF ReadClaimsOf, ReadEdgesOf
<1>5. /\ Assembly(g, now).max_objects = Objects
      /\ Assembly(g, now).max_relationships = Relationships
  BY DEF Assembly
<1> HIDE DEF pack, made, claims, edges
<1>6. ASSUME Reaches(g.claims, Objects), ~pack.restricted
      PROVE  pack.exhausted
  <2>1. ~(CountWithheld(g) > 0)
    BY <1>2, <1>3, <1>6
  <2>2. Len(claims) = Len(g.claims)
    BY <1>4, <2>1 DEF CountWithheld
  <2>3. Reaches(claims, Objects)
    BY <1>6, <2>2 DEF Reaches
  <2>4. QED
    BY <1>2, <1>3, <2>3
<1>7. (\E e \in made.exclusions : IsRetryable(e.reason))
        <=> \/ Reaches(claims, Objects)
            \/ Reaches(edges, Relationships)
  <2>1. \A c, why : IsRetryable(Exclusion(c, why).reason)
                      <=> why = "budget_exhausted"
    BY DEF IsRetryable, Exclusion
  <2>2. \A e : e \in made.exclusions <=>
          \/ CountWithheld(g) > 0
             /\ e = Exclusion("claims", "policy_restricted")
          \/ Reaches(claims, Objects)
             /\ e = Exclusion("claims", "budget_exhausted")
          \/ Reaches(edges, Relationships)
             /\ e = Exclusion("relationships", "budget_exhausted")
          \/ Assembly(g, now).level = "L0"
             /\ e = Exclusion("graph", "below_detail_level")
    BY <1>3, <1>5 DEF Exclusions
  <2>3. QED
    BY <2>1, <2>2
<1>8. QED
  BY <1>2, <1>3, <1>6, <1>7 DEF pack

(* A pack that something was withheld of says so in its exclusions.        *)
LEMMA RestrictedIsSaid ==
  ASSUME NEW g, NEW now, IsPack(AnswerOf(g, now)), AnswerOf(g, now).restricted
  PROVE  Exclusion("claims", "policy_restricted") \in AnswerOf(g, now).exclusions
<1> DEFINE made == MadeOf(g, now)
<1>1. "restricted" \in PackFields \ {"exclusions", "gaps", "requested"}
  BY DEF PackFields
<1>2. made.restricted /\ made.exclusions \subseteq AnswerOf(g, now).exclusions
  BY <1>1, AnswerFields
<1>3. CountWithheld(g) > 0
  BY <1>2, MadeFields
<1>4. Exclusion("claims", "policy_restricted") \in made.exclusions
  BY <1>3, MadeFields DEF Exclusions
<1>5. QED
  BY <1>2, <1>4

(* A file made of a pack has only what each record's markings allow.       *)
LEMMA SpreadOnlyWhatMay ==
  ASSUME NEW g, NEW now, IsPack(AnswerOf(g, now)), NEW name \in Names,
         Clear(Reader, AnswerOf(g, now), name) = {},
         Registry[name].orientation = "interchange"
  PROVE  \A r \in ToSet(MayRead(g.claims)) \union ToSet(MayRead(g.edges)) :
           Allowed(Reader, r.markings, "redistribute")
<1> DEFINE pack == AnswerOf(g, now)
<1>1. "markings" \in PackFields \ {"exclusions", "gaps", "requested"}
  BY DEF PackFields
<1>2. pack.markings = MadeOf(g, now).markings
  BY <1>1, AnswerFields
<1>3. MadeOf(g, now).markings =
        PackMarkings(MayRead(g.claims), MayRead(g.edges))
  BY MadeFields DEF MayRead, ReadClaimsOf, ReadEdgesOf
<1> HIDE DEF pack
<1>4. Denials(Reader, pack.markings, "redistribute") = {}
  BY DEF Clear, Capability, pack
<1>5. ASSUME NEW r \in ToSet(MayRead(g.claims)) \union ToSet(MayRead(g.edges))
      PROVE  Denials(Reader, r.markings, "redistribute") = {}
  <2>1. r.markings \subseteq pack.markings
    BY <1>2, <1>3 DEF PackMarkings
  <2>2. QED
    BY <1>4, <2>1 DEF Denials
<1>6. QED
  BY <1>5 DEF Allowed

-----------------------------------------------------------------------------
(* The inductive invariant.                                                *)
RowsAt(t, S) ==
  {table \in [S -> RowsOf(t)] : \A i \in S : table[i] \in Catalogue[t][i]}

Table(t) == UNION {RowsAt(t, S) : S \in SUBSET DOMAIN Catalogue[t]}

AnyStore ==
  [claims : Table("claims"), edges : Table("edges"),
   sightings : Table("sightings"), entities : Table("entities"),
   version : Nat]

(* Every version the store has had is kept, the last one is the store.     *)
Kept ==
  /\ past \in Seq(AnyStore) /\ Len(past) # 0
  /\ store = past[Len(past)] /\ store.version = Len(past)

GatheredFields ==
  {"claims", "edges", "sightings", "entities", "version", "missed", "listed",
   "page"}

Asked ==
  /\ gathered = [f \in GatheredFields |-> gathered[f]]
  /\ phase = "idle" => gathered = Nothing
  /\ phase # "idle" => /\ request \in Requests
                       /\ IsCommand => IsContextCommand(request)
  /\ phase \notin {"answered", "exported"} => answer = None

(* Of which version what was read for a request is.                        *)
AboutSubject(table) == {i \in DOMAIN table : table[i].subject = Subject}

ClaimsRead(p, g, n, v) ==
  LET ids == ClaimsAbout(p[v].claims, Subject, First(n)) IN
  /\ g.claims = Rows(p[v].claims, ids)
  /\ g.missed = AboutSubject(p[v].claims) \ ToSet(ids)

EdgesRead(p, g, n, w) ==
  g.edges = Rows(p[w].edges, EdgesAt(p[w].edges, EdgeQuery, First(n)))

(* The claims are of no later a version than the edges.                    *)
Traced(p, g, n, m, last) ==
  \E v \in 1..last : \E w \in v..last : ClaimsRead(p, g, n, v)
                                         /\ EdgesRead(p, g, m, w)

ReadsAt(place, g) ==
  /\ place = "edges" => \E v \in 1..Len(past) : ClaimsRead(past, g, Objects, v)
  /\ place \in {"sightings", "entities", "version"} =>
       Traced(past, g, Objects, Relationships, Len(past))
  /\ place = "assemble" =>
       /\ g.version \in 1..Len(past)
       /\ Traced(past, g, Objects, Relationships, g.version)
  /\ place \in {"version", "assemble"} => NamesEnds(g)

(* What an answer with a pack was made of, and what it was exported as.    *)
Answers ==
  phase \in {"answered", "exported"} /\ "pack" \in DOMAIN answer =>
    /\ gathered.version \in 1..Len(past)
    /\ Traced(past, gathered, Objects, Relationships, gathered.version)
    /\ NamesEnds(gathered)
    /\ \E now : answer.pack = AnswerOf(gathered, now)
    /\ "exported" \in DOMAIN answer =>
         answer.exported =
           Export(answer.format, request.kind, answer.pack, Reader)

(* Of the entities there were when a listing began, those not listed yet   *)
(* are on the pages still to come.                                         *)
ListsAt(place, g) ==
  /\ place = "entities list" =>
       /\ g.listed \in Seq(Nat)
       /\ g.page = None => g.listed = <<>>
       /\ g.page # None =>
            /\ g.page \in Nat
            /\ g.missed \subseteq DOMAIN store.entities
            /\ \A i \in g.missed :
                 \/ i \in ToSet(g.listed)
                 \/ RankIn(DOMAIN store.entities, i) >= g.page
  /\ place = "listed" => g.missed \subseteq ToSet(g.listed)

Listed ==
  phase \in {"answered", "exported"} /\ "listed" \in DOMAIN answer =>
    gathered.missed \subseteq answer.listed

IInv ==
  /\ Kept /\ Asked /\ Answers /\ Listed
  /\ ReadsAt(phase, gathered) /\ ListsAt(phase, gathered)

-----------------------------------------------------------------------------
(* Tables and the pages read from them.                                    *)
LEMMA TableFacts ==
  ASSUME NEW t \in Tables, NEW table \in Table(t)
  PROVE  /\ DOMAIN table \in SUBSET Nat /\ IsFiniteSet(DOMAIN table)
         /\ DOMAIN table \subseteq DOMAIN Catalogue[t]
         /\ \A i \in DOMAIN table : /\ table[i] \in RowsOf(t)
                                   /\ table[i] \in Catalogue[t][i]
<1>1. PICK S \in SUBSET DOMAIN Catalogue[t] :
        /\ table \in [S -> RowsOf(t)]
        /\ \A i \in S : table[i] \in Catalogue[t][i]
  BY DEF Table, RowsAt
<1>2. DOMAIN Catalogue[t] \subseteq Nat /\ IsFiniteSet(DOMAIN Catalogue[t])
  BY ServingAssumption
<1>3. IsFiniteSet(S)
  BY <1>2, FS_Subset
<1>4. DOMAIN table = S
  BY <1>1
<1>5. QED
  BY <1>1, <1>2, <1>3, <1>4

LEMMA FetchedFacts ==
  ASSUME NEW S, NEW rows \in Seq(S), NEW page,
         page.limit \in Nat \ {0}, page.offset \in Nat
  PROVE  /\ Fetched(rows, page) \in Seq(S)
         /\ Len(Fetched(rows, page)) =
              IF page.offset >= Len(rows) THEN 0
              ELSE IF page.offset + page.limit < Len(rows)
              THEN page.limit ELSE Len(rows) - page.offset
         /\ \A k \in 1..Len(Fetched(rows, page)) :
              Fetched(rows, page)[k] = rows[page.offset + k]
<1> DEFINE o == page.offset  l == page.limit
           last == IF o + l < Len(rows) THEN o + l ELSE Len(rows)
           got == SubSeq(rows, o + 1, last)
<1>1. Fetched(rows, page) = got
  BY DEF Fetched
<1>2. /\ o \in Nat /\ l \in Nat /\ l > 0 /\ Len(rows) \in Nat
      /\ last \in Nat /\ last <= Len(rows)
  OBVIOUS
<1>a. last = IF o + l < Len(rows) THEN o + l ELSE Len(rows)
  OBVIOUS
<1> HIDE DEF o, l, last
<1>3. /\ got \in Seq(S)
      /\ Len(got) = IF o + 1 <= last THEN last - (o + 1) + 1 ELSE 0
  BY <1>2
<1>4. \A k \in 1..Len(got) : got[k] = rows[o + k]
  BY <1>2, <1>3
<1> HIDE DEF got
<1>5. Len(got) = IF o >= Len(rows) THEN 0
                 ELSE IF o + l < Len(rows) THEN l ELSE Len(rows) - o
  BY <1>2, <1>3, <1>a
<1>6. QED
  BY <1>1, <1>3, <1>4, <1>5 DEF o, l

(* A page of some rows of a table is of rows of the table, and it is full  *)
(* where it leaves one of them out that does not come before it.           *)
LEMMA PageFacts ==
  ASSUME NEW t \in Tables, NEW table \in Table(t),
         NEW S \in SUBSET DOMAIN table, NEW page,
         page.limit \in Nat \ {0}, page.offset \in Nat
  PROVE  LET got == Fetched(ById(S), page) IN
         /\ got \in Seq(S)
         /\ Rows(table, got) \in Seq(RowsOf(t))
         /\ Len(Rows(table, got)) = Len(got)
         /\ Len(got) <= page.limit
         /\ \A i \in S : RankIn(S, i) \in Nat
         /\ \A i \in S \ ToSet(got) :
              RankIn(S, i) >= page.offset =>
                /\ Len(got) = page.limit
                /\ RankIn(S, i) >= page.offset + page.limit
<1> DEFINE rows == ById(S)
           got == Fetched(rows, page)
           o == page.offset  l == page.limit
<1>1. S \in SUBSET Nat /\ IsFiniteSet(S)
  BY TableFacts, FS_Subset
<1>2. /\ rows \in Seq(S) /\ Len(rows) = Cardinality(S) /\ Len(rows) \in Nat
      /\ \A i \in S : /\ RankIn(S, i) + 1 \in 1..Len(rows)
                      /\ rows[RankIn(S, i) + 1] = i
  BY <1>1, ByIdFacts
<1> HIDE DEF rows
<1>0. rows \in Seq(S)
  BY <1>2
<1>3. /\ got \in Seq(S)
      /\ Len(got) = IF o >= Len(rows) THEN 0
                    ELSE IF o + l < Len(rows) THEN l ELSE Len(rows) - o
      /\ \A k \in 1..Len(got) : got[k] = rows[o + k]
  BY <1>0, FetchedFacts
<1>4. \A i \in S : RankIn(S, i) \in Nat
  <2>1. \A i \in S : RankIn(S, i) \in 0..(Cardinality(S) - 1)
    BY <1>1, RankFacts
  <2>2. QED
    BY <2>1
<1>5. /\ o \in Nat /\ l \in Nat /\ l > 0 /\ Len(got) \in Nat
  BY <1>3
<1> HIDE DEF got, o, l
<1>6. ASSUME NEW i \in S, i \notin ToSet(got), RankIn(S, i) >= o
      PROVE  Len(got) = l /\ RankIn(S, i) >= o + l
  <2> DEFINE r == RankIn(S, i)
  <2>1. r \in Nat /\ r + 1 \in 1..Len(rows) /\ rows[r + 1] = i /\ r >= o
    BY <1>2, <1>4, <1>6
  <2> HIDE DEF r
  <2>2. ~((r - o) + 1 \in 1..Len(got))
    <3> SUFFICES ASSUME (r - o) + 1 \in 1..Len(got) PROVE FALSE
      OBVIOUS
    <3>1. got[(r - o) + 1] = rows[o + ((r - o) + 1)]
      BY <1>3
    <3>2. o + ((r - o) + 1) = r + 1
      BY <1>5, <2>1
    <3>3. got[(r - o) + 1] = i
      BY <3>1, <3>2, <2>1
    <3>4. DOMAIN got = 1..Len(got)
      BY <1>3
    <3>5. QED
      BY <1>6, <3>3, <3>4 DEF ToSet
  <2>3. r < Len(rows) /\ o < Len(rows)
    BY <1>2, <1>5, <2>1
  <2>4. Len(got) = l /\ r >= o + l
    BY <1>2, <1>3, <1>5, <2>1, <2>2, <2>3
  <2>5. QED
    BY <2>4 DEF r
<1>7. Len(got) <= l
  BY <1>2, <1>3, <1>5
<1>8. /\ Rows(table, got) \in Seq(RowsOf(t))
      /\ Len(Rows(table, got)) = Len(got)
  <2>1. \A k \in 1..Len(got) : got[k] \in DOMAIN table
    BY <1>3
  <2>2. \A k \in 1..Len(got) : table[got[k]] \in RowsOf(t)
    BY <2>1, TableFacts
  <2>3. Rows(table, got) = [k \in 1..Len(got) |-> table[got[k]]]
    BY <1>3 DEF Rows
  <2>4. QED
    BY <1>5, <2>2, <2>3
<1>9. QED
  BY <1>3, <1>4, <1>6, <1>7, <1>8 DEF got, rows, o, l

LEMMA FirstFacts ==
  ASSUME NEW n \in Nat
  PROVE  /\ First(n).limit \in Nat \ {0} /\ First(n).offset = 0
         /\ n <= MaxLimit => n <= First(n).limit
  BY DEF First, Page, MaxLimit

(* The first page of the claims about the subject holds all of them, or    *)
(* reaches the budget that was asked for.                                  *)
LEMMA ClaimsAboutFacts ==
  ASSUME NEW table \in Table("claims"), NEW n \in Nat
  PROVE  LET ids == ClaimsAbout(table, Subject, First(n)) IN
         /\ Rows(table, ids) \in Seq(RowsOf("claims"))
         /\ AboutSubject(table) \ ToSet(ids) # {} /\ n <= MaxLimit =>
              Reaches(Rows(table, ids), n)
<1> DEFINE S == AboutSubject(table)
           ids == Fetched(ById(S), First(n))
<1>1. ClaimsAbout(table, Subject, First(n)) = ids
  BY DEF ClaimsAbout, IdsMatching, AboutSubject
<1>2. S \in SUBSET DOMAIN table /\ "claims" \in Tables
  BY DEF AboutSubject, Tables
<1> HIDE DEF S
<1>3. /\ First(n).limit \in Nat \ {0} /\ First(n).offset = 0
      /\ n <= MaxLimit => n <= First(n).limit
  BY FirstFacts
<1>4. /\ Rows(table, ids) \in Seq(RowsOf("claims"))
      /\ Len(Rows(table, ids)) = Len(ids)
      /\ \A i \in S : RankIn(S, i) \in Nat
      /\ \A i \in S \ ToSet(ids) :
           RankIn(S, i) >= First(n).offset => Len(ids) = First(n).limit
  BY <1>2, <1>3, PageFacts
<1> HIDE DEF ids
<1>5. ASSUME S \ ToSet(ids) # {}, n <= MaxLimit
      PROVE  Reaches(Rows(table, ids), n)
  <2>1. PICK i \in S \ ToSet(ids) : TRUE
    BY <1>5
  <2>2. RankIn(S, i) >= First(n).offset
    BY <1>3, <1>4
  <2>3. Len(ids) = First(n).limit
    BY <1>4, <2>2
  <2>4. QED
    BY <1>3, <1>4, <1>5, <2>3 DEF Reaches
<1>6. QED
  BY <1>1, <1>4, <1>5 DEF S

LEMMA EdgesAtFacts ==
  ASSUME NEW table \in Table("edges"), NEW n \in Nat
  PROVE  Rows(table, EdgesAt(table, EdgeQuery, First(n)))
           \in Seq(RowsOf("edges"))
<1> DEFINE S == {i \in DOMAIN table : EdgeMatches(EdgeQuery, table[i])}
<1>1. EdgesAt(table, EdgeQuery, First(n)) = Fetched(ById(S), First(n))
  BY DEF EdgesAt, IdsMatching
<1>2. S \in SUBSET DOMAIN table /\ "edges" \in Tables
  BY DEF Tables
<1> HIDE DEF S
<1>3. First(n).limit \in Nat \ {0} /\ First(n).offset \in Nat
  BY FirstFacts
<1>4. QED
  BY <1>1, <1>2, <1>3, PageFacts

(* What was traced to versions of the store is rows of the catalogue.      *)
LEMMA TracedRows ==
  ASSUME Kept, NEW g, NEW n \in Nat, NEW m \in Nat, NEW last \in 1..Len(past),
         Traced(past, g, n, m, last)
  PROVE  /\ g.claims \in Seq(RowsOf("claims"))
         /\ g.edges \in Seq(RowsOf("edges"))
         /\ g.missed # {} /\ n <= MaxLimit => Reaches(g.claims, n)
<1>1. PICK v \in 1..last, w \in 1..last :
        ClaimsRead(past, g, n, v) /\ EdgesRead(past, g, m, w)
  <2>1. PICK v \in 1..last : \E w \in v..last :
          ClaimsRead(past, g, n, v) /\ EdgesRead(past, g, m, w)
    BY DEF Traced
  <2>2. PICK w \in v..last :
          ClaimsRead(past, g, n, v) /\ EdgesRead(past, g, m, w)
    BY <2>1
  <2>3. w \in 1..last
    OBVIOUS
  <2>4. QED
    BY <2>2, <2>3
<1>2. past[v] \in AnyStore /\ past[w] \in AnyStore
  <2>1. past \in Seq(AnyStore) /\ v \in 1..Len(past) /\ w \in 1..Len(past)
    BY DEF Kept
  <2>2. QED
    BY <2>1
<1>3. past[v].claims \in Table("claims") /\ past[w].edges \in Table("edges")
  BY <1>2 DEF AnyStore
<1>4. QED
  BY <1>1, <1>3, ClaimsAboutFacts, EdgesAtFacts DEF ClaimsRead, EdgesRead

-----------------------------------------------------------------------------
(* What was read of a version stays of it, whatever is committed after.    *)
LEMMA TracedStands ==
  ASSUME NEW p, NEW q, NEW last \in Nat, NEW more \in Nat, last <= more,
         \A v \in 1..last : q[v] = p[v],
         NEW g, NEW h, g.claims = h.claims, g.missed = h.missed,
         g.edges = h.edges, NEW n, NEW m, Traced(p, g, n, m, last)
  PROVE  Traced(q, h, n, m, more)
<1>1. PICK v \in 1..last : \E w \in v..last :
        ClaimsRead(p, g, n, v) /\ EdgesRead(p, g, m, w)
  BY DEF Traced
<1>2. PICK w \in v..last : ClaimsRead(p, g, n, v) /\ EdgesRead(p, g, m, w)
  BY <1>1
<1>3. /\ v \in 1..last /\ w \in 1..last
      /\ v \in 1..more /\ w \in v..more
  OBVIOUS
<1>4. ClaimsRead(q, h, n, v)
  BY <1>2, <1>3 DEF ClaimsRead
<1>5. EdgesRead(q, h, m, w)
  BY <1>2, <1>3 DEF EdgesRead
<1>6. QED
  BY <1>3, <1>4, <1>5 DEF Traced

(* Who asks and what for stays the same while an answer is made.           *)
LEMMA SameFront ==
  ASSUME UNCHANGED <<config, request>>
  PROVE  /\ IsCommand' = IsCommand /\ Reader' = Reader
         /\ Objects' = Objects /\ Relationships' = Relationships
         /\ \A g, now : AnswerOf(g, now)' = AnswerOf(g, now)
<1>1. IsCommand' = IsCommand
  BY DEF IsCommand
<1>2. Reader' = Reader
  BY <1>1 DEF Reader
<1>3. Objects' = Objects /\ Relationships' = Relationships
  BY <1>1 DEF Objects, Relationships
<1>4. ASSUME NEW g, NEW now PROVE AnswerOf(g, now)' = AnswerOf(g, now)
  <2>1. Assembly(g, now)' = Assembly(g, now)
    BY <1>1, <1>2, <1>3 DEF Assembly
  <2>2. ASSUME NEW made PROVE Served(made)' = Served(made)
    BY DEF Served
  <2>3. QED
    BY <1>1, <2>1, <2>2 DEF AnswerOf, Served
<1>5. QED
  BY <1>1, <1>2, <1>3, <1>4

LEMMA AsksForNumbers ==
  ASSUME Asked, phase # "idle"
  PROVE  /\ request.objects \in Nat \union {None}
         /\ Objects \in Nat /\ Relationships \in Nat
<1>1. /\ request \in Requests
      /\ IsCommand => IsContextCommand(request)
  BY DEF Asked
<1>2. /\ request.objects \in Nat \union {None}
      /\ request.relationships \in Nat \union {None}
  BY <1>1, ServingAssumption
<1>3. \A k \in Nat \union {None} : Clamped(k) \in Nat
  BY ServingAssumption DEF Clamped, DefaultBudget, MaxBudget
<1>4. /\ Objects \in Nat /\ Relationships \in Nat
  <2>1. CASE IsCommand
    <3>1. request.objects # None /\ request.relationships # None
      BY <1>1, <2>1 DEF IsContextCommand
    <3>2. QED
      BY <1>2, <2>1, <3>1 DEF Objects, Relationships
  <2>2. CASE ~IsCommand
    BY <1>2, <1>3, <2>2 DEF Objects, Relationships
  <2>3. QED
    BY <2>1, <2>2
<1>5. QED
  BY <1>2, <1>4

(* The store is the last of the versions it has had.                       *)
LEMMA LatestFacts ==
  ASSUME Kept
  PROVE  /\ Len(past) \in Nat \ {0} /\ Len(past) \in 1..Len(past)
         /\ store = past[Len(past)] /\ store \in AnyStore
         /\ store.version = Len(past)
         /\ store.claims \in Table("claims")
         /\ store.edges \in Table("edges")
         /\ store.entities \in Table("entities")
<1>1. Len(past) \in Nat \ {0}
  BY DEF Kept
<1>2. store = past[Len(past)] /\ store \in AnyStore /\ store.version = Len(past)
  BY <1>1 DEF Kept
<1>3. QED
  BY <1>1, <1>2 DEF AnyStore

-----------------------------------------------------------------------------
(* A commit adds a version, and takes no row away.                         *)
LEMMA PutFacts ==
  ASSUME NEW t \in Tables, NEW table \in Table(t),
         NEW id \in DOMAIN Catalogue[t], NEW doc \in Catalogue[t][id]
  PROVE  /\ Put(table, id, doc) \in Table(t)
         /\ DOMAIN Put(table, id, doc) = DOMAIN table \union {id}
<1>1. PICK S \in SUBSET DOMAIN Catalogue[t] :
        /\ table \in [S -> RowsOf(t)]
        /\ \A i \in S : table[i] \in Catalogue[t][i]
  BY DEF Table, RowsAt
<1>2. doc \in RowsOf(t)
  BY DEF RowsOf
<1>3. DOMAIN table = S /\ \A i \in S : table[i] \in RowsOf(t)
  BY <1>1
<1>4. /\ Put(table, id, doc) \in [(S \union {id}) -> RowsOf(t)]
      /\ \A i \in S \union {id} : Put(table, id, doc)[i] \in Catalogue[t][i]
  BY <1>1, <1>2, <1>3 DEF Put
<1>5. S \union {id} \in SUBSET DOMAIN Catalogue[t]
  OBVIOUS
<1>6. Put(table, id, doc) \in Table(t)
  BY <1>4, <1>5 DEF Table, RowsAt
<1>7. DOMAIN Put(table, id, doc) = DOMAIN table \union {id}
  BY DEF Put
<1>8. QED
  BY <1>6, <1>7

StoreFields == {"claims", "edges", "sightings", "entities", "version"}

LEMMA StoreShape ==
  ASSUME NEW s
  PROVE  s \in AnyStore <=>
           /\ s = [f \in StoreFields |-> s[f]]
           /\ s.claims \in Table("claims") /\ s.edges \in Table("edges")
           /\ s.sightings \in Table("sightings")
           /\ s.entities \in Table("entities") /\ s.version \in Nat
<1>1. s \in AnyStore <=>
        /\ s = [f \in {"claims", "edges", "sightings", "entities", "version"}
                   |-> s[f]]
        /\ s.claims \in Table("claims") /\ s.edges \in Table("edges")
        /\ s.sightings \in Table("sightings")
        /\ s.entities \in Table("entities") /\ s.version \in Nat
  BY DEF AnyStore
<1>2. QED
  BY <1>1 DEF StoreFields

(* A store in which one table and the version are others.                  *)
LEMMA StoreExcept ==
  ASSUME NEW s, s = [f \in StoreFields |-> s[f]], NEW t, NEW x, NEW y, NEW r,
         r = [s EXCEPT ![t] = x, !.version = y]
  PROVE  /\ r = [f \in StoreFields |-> r[f]]
         /\ \A f \in StoreFields :
              r[f] = IF f = "version" THEN y ELSE IF f = t THEN x ELSE s[f]
<1>1. DOMAIN s = StoreFields
  OBVIOUS
<1>2. DOMAIN r = StoreFields /\ r = [f \in DOMAIN r |-> r[f]]
  BY <1>1
<1>3. ASSUME NEW f \in StoreFields
      PROVE  r[f] = IF f = "version" THEN y ELSE IF f = t THEN x ELSE s[f]
  BY <1>1
<1>4. QED
  BY <1>2, <1>3

LEMMA CommitKeeps ==
  ASSUME IInv, Commit
  PROVE  IInv'
<1> DEFINE last == Len(past)
<1>1. PICK t \in Tables : \E id \in DOMAIN Catalogue[t] :
        \E doc \in Catalogue[t][id] :
          /\ store' = [store EXCEPT ![t] = Put(@, id, doc), !.version = @ + 1]
          /\ past' = Append(past, store')
  BY DEF Commit
<1>2. PICK id \in DOMAIN Catalogue[t] : \E doc \in Catalogue[t][id] :
          /\ store' = [store EXCEPT ![t] = Put(@, id, doc), !.version = @ + 1]
          /\ past' = Append(past, store')
  BY <1>1
<1>3. PICK doc \in Catalogue[t][id] :
          /\ store' = [store EXCEPT ![t] = Put(@, id, doc), !.version = @ + 1]
          /\ past' = Append(past, store')
  BY <1>2
<1>4. /\ phase \in {"edges", "sightings", "entities", "version",
                    "entities list", "edges of", "counting"}
      /\ UNCHANGED <<config, phase, request, gathered, answer>>
  BY DEF Commit
<1>5. /\ Kept /\ Asked /\ ReadsAt(phase, gathered) /\ ListsAt(phase, gathered)
  BY DEF IInv
<1>6. /\ last \in Nat \ {0} /\ store \in AnyStore /\ store.version = last
      /\ past \in Seq(AnyStore)
  BY <1>5, LatestFacts DEF Kept
<1>7. /\ store' \in AnyStore /\ store'.version = last + 1
      /\ DOMAIN store.entities \subseteq DOMAIN store'.entities
      /\ store'.entities \in Table("entities")
  <2>1. /\ store.claims \in Table("claims") /\ store.edges \in Table("edges")
        /\ store.sightings \in Table("sightings")
        /\ store.entities \in Table("entities")
        /\ store = [claims |-> store.claims, edges |-> store.edges,
                    sightings |-> store.sightings,
                    entities |-> store.entities, version |-> last]
    BY <1>6 DEF AnyStore
  <2>2. /\ t = "claims" => Put(store.claims, id, doc) \in Table("claims")
        /\ t = "edges" => Put(store.edges, id, doc) \in Table("edges")
        /\ t = "sightings" => Put(store.sightings, id, doc) \in Table("sightings")
        /\ t = "entities" =>
             /\ Put(store.entities, id, doc) \in Table("entities")
             /\ DOMAIN store.entities
                  \subseteq DOMAIN Put(store.entities, id, doc)
    <3>1. ASSUME NEW table \in Table(t)
          PROVE  /\ Put(table, id, doc) \in Table(t)
                 /\ DOMAIN table \subseteq DOMAIN Put(table, id, doc)
      <4>1. Put(table, id, doc) \in Table(t)
        BY PutFacts
      <4>2. DOMAIN Put(table, id, doc) = DOMAIN table \union {id}
        BY PutFacts
      <4>3. QED
        BY <4>1, <4>2
    <3>2. QED
      BY <2>1, <3>1
  <2>3. store' = [f \in StoreFields |-> (store')[f]]
        /\ \A f \in StoreFields :
             (store')[f] = IF f = "version" THEN last + 1
                           ELSE IF f = t THEN Put(store[t], id, doc)
                           ELSE store[f]
    <3>1. PICK s, r : s = store /\ r = store'
      OBVIOUS
    <3>2. s = [f \in StoreFields |-> s[f]]
      BY <1>6, <3>1, StoreShape
    <3>3. r = [s EXCEPT ![t] = Put(s[t], id, doc), !.version = s.version + 1]
      <4>1. t # "version"
        BY DEF Tables
      <4>2. store' = [store EXCEPT ![t] = Put(@, id, doc), !.version = @ + 1]
        BY <1>3
      <4>3. QED
        BY <3>1, <3>2, <4>1, <4>2
    <3>4. s.version = last
      BY <1>6, <3>1
    <3> HIDE DEF last
    <3>5. /\ r = [f \in StoreFields |-> r[f]]
          /\ \A f \in StoreFields :
               r[f] = IF f = "version" THEN last + 1
                      ELSE IF f = t THEN Put(s[t], id, doc) ELSE s[f]
      BY <3>2, <3>3, <3>4, StoreExcept
    <3>6. QED
      BY <3>1, <3>5
  <2>4. /\ store'.claims \in Table("claims")
        /\ store'.edges \in Table("edges")
        /\ store'.sightings \in Table("sightings")
        /\ store'.entities \in Table("entities")
        /\ DOMAIN store.entities \subseteq DOMAIN store'.entities
    BY <2>1, <2>2, <2>3 DEF StoreFields
  <2>5. store'.version = last + 1 /\ last + 1 \in Nat
    BY <1>6, <2>3 DEF StoreFields
  <2>6. PICK r : r = store'
    OBVIOUS
  <2>7. r \in AnyStore
    BY <2>3, <2>4, <2>5, <2>6, StoreShape
  <2>8. QED
    BY <2>4, <2>5, <2>6, <2>7
<1>8. /\ past' \in Seq(AnyStore) /\ Len(past') = last + 1
      /\ past'[last + 1] = store'
      /\ \A v \in 1..last : past'[v] = past[v]
  <2>1. PICK s \in AnyStore : s = store'
    BY <1>7
  <2>2. past' = Append(past, s)
    BY <1>3, <2>1
  <2> HIDE DEF last
  <2>3. last = Len(past)
    BY DEF last
  <2>4. QED
    BY <1>6, <2>1, <2>2, <2>3
<1>9. Kept'
  BY <1>6, <1>7, <1>8 DEF Kept
<1>10. Asked'
  <2>1. IsCommand' = IsCommand
    BY <1>4 DEF IsCommand
  <2>2. QED
    BY <1>4, <1>5, <2>1 DEF Asked, IsContextCommand
<1>11. ReadsAt(phase, gathered)'
  <2> DEFINE n == Objects  m == Relationships  g == gathered
  <2>1. Objects' = n /\ Relationships' = m /\ gathered' = g /\ phase' = phase
    BY <1>4, SameFront
  <2>2. phase # "assemble"
    BY <1>4
  <2>3. ASSUME phase = "edges"
        PROVE  \E v \in 1..Len(past') : ClaimsRead(past', g, n, v)
    <3>1. PICK v \in 1..last : ClaimsRead(past, g, n, v)
      BY <1>5, <2>3 DEF ReadsAt
    <3>2. past'[v] = past[v] /\ v \in 1..Len(past')
      BY <1>6, <1>8
    <3>3. QED
      BY <3>1, <3>2 DEF ClaimsRead
  <2>4. ASSUME phase \in {"sightings", "entities", "version"}
        PROVE  Traced(past', g, n, m, Len(past'))
    <3>1. Traced(past, g, n, m, last)
      BY <1>5, <2>4 DEF ReadsAt
    <3>2. last <= last + 1 /\ last + 1 \in Nat /\ last \in Nat
      BY <1>6
    <3>3. PICK q : q = past'
      OBVIOUS
    <3>4. \A v \in 1..last : q[v] = past[v]
      BY <1>8, <3>3
    <3> HIDE DEF last, n, m, g
    <3>5. Traced(q, g, n, m, last + 1)
      BY <3>1, <3>2, <3>4, TracedStands
    <3>6. QED
      BY <1>8, <3>3, <3>5
  <2>5. phase = "version" => NamesEnds(g)
    BY <1>5 DEF ReadsAt
  <2> HIDE DEF n, m, g
  <2>6. QED
    BY <2>1, <2>2, <2>3, <2>4, <2>5 DEF ReadsAt
<1>12. ListsAt(phase, gathered)'
  <2> DEFINE g == gathered  A == DOMAIN store.entities
             B == DOMAIN store'.entities
  <2>1. gathered' = g /\ phase' = phase
    BY <1>4
  <2>2. ASSUME phase = "entities list"
        PROVE  /\ g.listed \in Seq(Nat)
               /\ g.page = None => g.listed = <<>>
               /\ g.page # None =>
                    /\ g.page \in Nat
                    /\ g.missed \subseteq B
                    /\ \A i \in g.missed : \/ i \in ToSet(g.listed)
                                           \/ RankIn(B, i) >= g.page
    <3>1. /\ g.listed \in Seq(Nat)
          /\ g.page = None => g.listed = <<>>
          /\ g.page # None =>
               /\ g.page \in Nat
               /\ g.missed \subseteq A
               /\ \A i \in g.missed : \/ i \in ToSet(g.listed)
                                      \/ RankIn(A, i) >= g.page
      BY <1>5, <2>2 DEF ListsAt
    <3>2. ASSUME NEW i \in A
          PROVE  /\ RankIn(A, i) \in Nat /\ RankIn(B, i) \in Nat
                 /\ RankIn(A, i) <= RankIn(B, i)
      <4>1. IsFiniteSet(B) /\ A \subseteq B
        <5>1. "entities" \in Tables
          BY DEF Tables
        <5>2. QED
          BY <1>7, <5>1, TableFacts
      <4>2. IsFiniteSet({j \in B : j < i})
        BY <4>1, FS_Subset
      <4>3. {j \in A : j < i} \in SUBSET {j \in B : j < i}
        BY <4>1
      <4>4. /\ IsFiniteSet({j \in A : j < i})
            /\ Cardinality({j \in A : j < i}) <= Cardinality({j \in B : j < i})
        BY <4>2, <4>3, FS_Subset
      <4>5. QED
        BY <4>2, <4>4, FS_CardinalityType DEF RankIn
    <3>3. A \subseteq B
      BY <1>7
    <3> HIDE DEF g, A, B
    <3>4. ASSUME g.page # None, NEW i \in g.missed, i \notin ToSet(g.listed)
          PROVE  RankIn(B, i) >= g.page
      <4>1. i \in A /\ RankIn(A, i) >= g.page /\ g.page \in Nat
        BY <3>1, <3>4
      <4>2. QED
        BY <3>2, <4>1
    <3>5. QED
      BY <3>1, <3>3, <3>4
  <2>3. phase # "listed"
    BY <1>4
  <2>4. B = DOMAIN (store')["entities"]
    OBVIOUS
  <2> HIDE DEF g, A
  <2>5. QED
    BY <2>1, <2>2, <2>3 DEF ListsAt
<1>13. phase' \notin {"answered", "exported"}
  BY <1>4
<1>14. QED
  BY <1>9, <1>10, <1>11, <1>12, <1>13 DEF IInv, Answers, Listed

-----------------------------------------------------------------------------
(* A step that reads, or answers, leaves the store as it is.               *)
LEMMA KeptStands ==
  ASSUME Kept, UNCHANGED <<store, past>>
  PROVE  Kept'
  BY DEF Kept

LEMMA AskKeeps ==
  ASSUME IInv, NEW r \in Requests, IsCommand => IsContextCommand(r), Ask(r)
  PROVE  IInv'
<1>1. /\ phase = "idle" /\ request' = r
      /\ phase' = "unauthorised" \/ phase' = r.route
      /\ UNCHANGED <<store, past, config, gathered, answer>>
  BY DEF Ask
<1>2. /\ Kept /\ gathered = Nothing /\ answer = None
  BY <1>1 DEF IInv, Asked
<1>3. r.route \in RouteNames
  BY ServingAssumption
<1>4. phase' \in RouteNames \union {"unauthorised"}
  BY <1>1, <1>3
<1>5. Kept'
  BY <1>1, <1>2, KeptStands
<1>6. Asked'
  <2>1. gathered' = [f \in GatheredFields |-> (gathered')[f]]
    BY <1>1 DEF IInv, Asked
  <2>2. IsCommand' => IsContextCommand(r)
    BY <1>1 DEF IsCommand
  <2>3. phase' # "idle" /\ answer' = None
    BY <1>1, <1>2, <1>4 DEF RouteNames
  <2>4. QED
    BY <1>1, <2>1, <2>2, <2>3 DEF Asked, IsContextCommand
<1>7. /\ phase' \notin {"edges", "sightings", "entities", "version",
                        "assemble", "listed"}
  BY <1>4 DEF RouteNames
<1>8. ReadsAt(phase, gathered)'
  BY <1>7 DEF ReadsAt
<1>9. ListsAt(phase, gathered)'
  <2>1. Nothing.listed = <<>> /\ Nothing.page = None
    BY DEF Nothing
  <2>2. /\ (gathered').listed = <<>> /\ (gathered').page = None
        /\ <<>> \in Seq(Nat)
    BY <1>1, <1>2, <2>1
  <2>3. QED
    BY <1>7, <2>2 DEF ListsAt
<1>10. Answers' /\ Listed'
  <2>1. phase' \notin {"answered", "exported"}
    BY <1>4 DEF RouteNames
  <2>2. QED
    BY <2>1 DEF Answers, Listed
<1>11. QED
  BY <1>5, <1>6, <1>8, <1>9, <1>10 DEF IInv

(* An answer that is no pack, and lists what a listing has to.             *)
LEMMA ReplyKeeps ==
  ASSUME IInv, NEW a, Reply(a), phase # "idle", "pack" \notin DOMAIN a,
         "listed" \in DOMAIN a => gathered.missed \subseteq a.listed
  PROVE  IInv'
<1>1. /\ answer' = a /\ phase' = "answered"
      /\ UNCHANGED <<store, past, config, request, gathered>>
  BY DEF Reply
<1>2. Kept'
  BY <1>1, KeptStands DEF IInv
<1>3. Asked'
  <2>1. IsCommand' = IsCommand
    BY <1>1, SameFront
  <2>2. QED
    BY <1>1, <2>1 DEF IInv, Asked, IsContextCommand
<1>4. Answers' /\ Listed'
  BY <1>1 DEF Answers, Listed
<1>5. ReadsAt(phase, gathered)' /\ ListsAt(phase, gathered)'
  BY <1>1 DEF ReadsAt, ListsAt
<1>6. QED
  BY <1>2, <1>3, <1>4, <1>5 DEF IInv

(* The pack is made of what was read, at the version it names.             *)
LEMMA AssembleKeeps ==
  ASSUME IInv, Assemble
  PROVE  IInv'
<1>1. /\ answer' = [pack |-> AnswerOf(gathered, Clock)] /\ phase' = "answered"
      /\ phase = "assemble"
      /\ UNCHANGED <<store, past, config, request, gathered>>
  BY DEF Assemble, Reply
<1>2. Kept'
  BY <1>1, KeptStands DEF IInv
<1>3. Asked'
  <2>1. IsCommand' = IsCommand
    BY <1>1, SameFront
  <2>2. QED
    BY <1>1, <2>1 DEF IInv, Asked, IsContextCommand
<1>4. Answers'
  <2>1. PICK g, now : g = gathered /\ now = Clock
    OBVIOUS
  <2>2. /\ g.version \in 1..Len(past)
        /\ Traced(past, g, Objects, Relationships, g.version)
        /\ NamesEnds(g)
    BY <1>1, <2>1 DEF IInv, ReadsAt
  <2>3. /\ Objects' = Objects /\ Relationships' = Relationships
        /\ AnswerOf(g, now)' = AnswerOf(g, now)
    BY <1>1, SameFront
  <2>4. gathered' = g /\ past' = past
    BY <1>1, <2>1
  <2>5. /\ (answer').pack = AnswerOf(g, now)'
        /\ "exported" \notin DOMAIN answer'
    BY <1>1, <2>1, <2>3
  <2>6. /\ (gathered').version \in 1..Len(past')
        /\ Traced(past', gathered', Objects', Relationships',
                  (gathered').version)
        /\ NamesEnds(gathered')
    BY <2>2, <2>3, <2>4
  <2>7. \E t : (answer').pack = AnswerOf(gathered, t)'
    <3>1. AnswerOf(gathered, now)' = AnswerOf(g, now)'
      BY <2>4 DEF AnswerOf, Assembly
    <3>2. QED
      BY <2>5, <3>1
  <2>8. QED
    BY <2>5, <2>6, <2>7 DEF Answers
<1>5. Listed'
  BY <1>1 DEF Listed
<1>6. ReadsAt(phase, gathered)' /\ ListsAt(phase, gathered)'
  BY <1>1 DEF ReadsAt, ListsAt
<1>7. QED
  BY <1>2, <1>3, <1>4, <1>5, <1>6 DEF IInv

(* A pack goes out as it was answered.                                     *)
LEMMA ExportKeeps ==
  ASSUME IInv, NEW format, ExportAs(format)
  PROVE  IInv'
<1>1. /\ phase = "answered" /\ "pack" \in DOMAIN answer /\ IsPack(answer.pack)
      /\ answer' = [pack |-> answer.pack, format |-> format,
                    exported |-> Export(format, request.kind, answer.pack, Reader)]
      /\ phase' = "exported"
      /\ UNCHANGED <<store, past, config, request, gathered>>
  BY DEF ExportAs
<1>2. Kept'
  BY <1>1, KeptStands DEF IInv
<1>3. Asked'
  <2>1. IsCommand' = IsCommand
    BY <1>1, SameFront
  <2>2. QED
    BY <1>1, <2>1 DEF IInv, Asked, IsContextCommand
<1>4. Answers'
  <2>1. PICK format0, p : format0 = format /\ p = answer.pack
    OBVIOUS
  <2>2. PICK g : g = gathered
    OBVIOUS
  <2>3. PICK now : p = AnswerOf(g, now)
    BY <1>1, <2>1, <2>2 DEF IInv, Answers
  <2>4. /\ g.version \in 1..Len(past)
        /\ Traced(past, g, Objects, Relationships, g.version)
        /\ NamesEnds(g)
    BY <1>1, <2>2 DEF IInv, Answers
  <2>5. /\ Objects' = Objects /\ Relationships' = Relationships
        /\ Reader' = Reader /\ AnswerOf(g, now)' = AnswerOf(g, now)
    BY <1>1, SameFront
  <2>6. gathered' = g /\ past' = past
    BY <1>1, <2>2
  <2>7. /\ (gathered').version \in 1..Len(past')
        /\ Traced(past', gathered', Objects', Relationships',
                  (gathered').version)
        /\ NamesEnds(gathered')
    BY <2>4, <2>5, <2>6
  <2>8. \E t : (answer').pack = AnswerOf(gathered, t)'
    <3>1. AnswerOf(gathered, now)' = AnswerOf(g, now)'
      BY <2>6 DEF AnswerOf, Assembly
    <3>2. (answer').pack = p
      BY <1>1, <2>1
    <3>3. QED
      BY <2>3, <2>5, <3>1, <3>2
  <2>9. (answer').exported =
          Export((answer').format, (request').kind, (answer').pack, Reader')
    BY <1>1, <2>5
  <2>10. QED
    BY <2>7, <2>8, <2>9 DEF Answers
<1>5. Listed'
  BY <1>1 DEF Listed
<1>6. ReadsAt(phase, gathered)' /\ ListsAt(phase, gathered)'
  BY <1>1 DEF ReadsAt, ListsAt
<1>7. QED
  BY <1>2, <1>3, <1>4, <1>5, <1>6 DEF IInv

-----------------------------------------------------------------------------
(* What a step reads keeps the invariant where what has been read so far   *)
(* is what the next one expects.                                           *)
Reading == phase \notin {"idle", "answered", "exported"}

LEMMA ReadKeeps ==
  ASSUME IInv, Reading, NEW change, NEW next, Read(change, next),
         next \notin {"idle", "answered", "exported"},
         change = [f \in GatheredFields |-> change[f]],
         ReadsAt(next, change), ListsAt(next, change)
  PROVE  IInv'
<1>1. /\ gathered' = change /\ phase' = next
      /\ UNCHANGED <<store, past, config, request, answer>>
  BY DEF Read
<1>2. Kept'
  BY <1>1, KeptStands DEF IInv
<1>3. /\ IsCommand' = IsCommand
      /\ Objects' = Objects /\ Relationships' = Relationships
  BY <1>1, SameFront
<1>4. Asked'
  BY <1>1, <1>3 DEF IInv, Asked, IsContextCommand, Reading
<1>5. Answers' /\ Listed'
  BY <1>1 DEF Answers, Listed
<1>6. ReadsAt(phase, gathered)'
  <2>1. past' = past
    BY <1>1
  <2>2. QED
    BY <1>1, <1>3, <2>1 DEF ReadsAt
<1>7. ListsAt(phase, gathered)'
  BY <1>1 DEF ListsAt
<1>8. QED
  BY <1>2, <1>4, <1>5, <1>6, <1>7 DEF IInv

LEMMA ReadClaimsKeeps ==
  ASSUME IInv, ReadClaims
  PROVE  IInv'
<1> DEFINE ids == ClaimsAbout(store.claims, Subject, First(Objects))
           change == [gathered EXCEPT !.claims = Rows(store.claims, ids),
                        !.missed = AboutSubject(store.claims) \ ToSet(ids)]
<1>1. phase = "context" /\ Read(change, "edges")
  BY DEF ReadClaims, AboutSubject
<1>2. Kept /\ gathered = [f \in GatheredFields |-> gathered[f]]
  BY DEF IInv, Asked
<1>3. /\ store = past[Len(past)] /\ Len(past) \in 1..Len(past)
  BY <1>2, LatestFacts
<1>4. PICK n, table : n = Objects /\ table = store.claims
  OBVIOUS
<1> DEFINE read == ClaimsAbout(table, Subject, First(n))
<1>5. /\ change = [f \in GatheredFields |-> change[f]]
      /\ change.claims = Rows(table, read)
      /\ change.missed = AboutSubject(table) \ ToSet(read)
  BY <1>2, <1>4 DEF GatheredFields
<1> HIDE DEF change
<1>6. ClaimsRead(past, change, n, Len(past))
  BY <1>3, <1>4, <1>5 DEF ClaimsRead
<1>7. ReadsAt("edges", change) /\ ListsAt("edges", change)
  BY <1>3, <1>4, <1>6 DEF ReadsAt, ListsAt
<1>8. Reading
  BY <1>1 DEF Reading
<1>9. QED
  BY <1>1, <1>5, <1>7, <1>8, ReadKeeps

LEMMA ReadEdgesKeeps ==
  ASSUME IInv, ReadEdges
  PROVE  IInv'
<1> DEFINE got == Rows(store.edges,
                       EdgesAt(store.edges, EdgeQuery, First(Relationships)))
           change == [gathered EXCEPT !.edges = got]
<1>1. phase = "edges" /\ Read(change, "sightings")
  BY DEF ReadEdges
<1>2. /\ Kept /\ gathered = [f \in GatheredFields |-> gathered[f]]
      /\ ReadsAt("edges", gathered)
  BY <1>1 DEF IInv, Asked
<1>3. /\ store = past[Len(past)] /\ Len(past) \in 1..Len(past)
      /\ Len(past) \in Nat
  BY <1>2, LatestFacts
<1>4. got = Rows(past[Len(past)].edges,
                 EdgesAt(past[Len(past)].edges, EdgeQuery, First(Relationships)))
  BY <1>3
<1> HIDE DEF got
<1>5. /\ change = [f \in GatheredFields |-> change[f]]
      /\ change.claims = gathered.claims /\ change.missed = gathered.missed
      /\ change.edges = got
  BY <1>2 DEF GatheredFields
<1> HIDE DEF change
<1>6. PICK v \in 1..Len(past) : ClaimsRead(past, gathered, Objects, v)
  BY <1>2 DEF ReadsAt
<1>7. ClaimsRead(past, change, Objects, v)
  BY <1>5, <1>6 DEF ClaimsRead
<1>8. EdgesRead(past, change, Relationships, Len(past))
  BY <1>4, <1>5 DEF EdgesRead
<1>9. Len(past) \in v..Len(past)
  BY <1>3
<1>10. Traced(past, change, Objects, Relationships, Len(past))
  BY <1>7, <1>8, <1>9 DEF Traced
<1>11. ReadsAt("sightings", change) /\ ListsAt("sightings", change)
  BY <1>10 DEF ReadsAt, ListsAt
<1>12. Reading
  BY <1>1 DEF Reading
<1>13. QED
  BY <1>1, <1>5, <1>11, <1>12, ReadKeeps

(* The reads that follow leave the claims and the edges alone.             *)
LEMMA TracedOn ==
  ASSUME IInv, phase \in {"sightings", "entities", "version"},
         NEW g, g.claims = gathered.claims, g.missed = gathered.missed,
         g.edges = gathered.edges
  PROVE  Traced(past, g, Objects, Relationships, Len(past))
<1>1. Traced(past, gathered, Objects, Relationships, Len(past))
  BY DEF IInv, ReadsAt
<1>2. Len(past) \in Nat /\ Len(past) <= Len(past)
  BY LatestFacts DEF IInv
<1>3. QED
  BY <1>1, <1>2, TracedStands

LEMMA ReadSightingsKeeps ==
  ASSUME IInv, ReadSightings
  PROVE  IInv'
<1> DEFINE got == Rows(store.sightings,
                       SightingsOf(store.sightings, Subject, First(Objects)))
           change == [gathered EXCEPT !.sightings = got]
<1>1. phase = "sightings" /\ Read(change, "entities")
  BY DEF ReadSightings
<1>2. gathered = [f \in GatheredFields |-> gathered[f]]
  BY DEF IInv, Asked
<1> HIDE DEF got
<1>3. /\ change = [f \in GatheredFields |-> change[f]]
      /\ change.claims = gathered.claims /\ change.missed = gathered.missed
      /\ change.edges = gathered.edges
  BY <1>2 DEF GatheredFields
<1> HIDE DEF change
<1>4. ReadsAt("entities", change) /\ ListsAt("entities", change)
  BY <1>1, <1>3, TracedOn DEF ReadsAt, ListsAt
<1>5. Reading
  BY <1>1 DEF Reading
<1>6. QED
  BY <1>1, <1>3, <1>4, <1>5, ReadKeeps

LEMMA ReadEntitiesKeeps ==
  ASSUME IInv, ReadEntities
  PROVE  IInv'
<1> DEFINE found == EndsOf(gathered.edges) \intersect DOMAIN store.entities
           got == Rows(store.entities, ById(found))
           change == [gathered EXCEPT !.entities = got]
<1>1. phase = "entities" /\ Read(change, "version")
  BY DEF ReadEntities
<1>2. gathered = [f \in GatheredFields |-> gathered[f]]
  BY DEF IInv, Asked
<1>3. /\ DOMAIN got = 1..Len(got)
      /\ \A e \in ToSet(got) : e.id \in EndsOf(gathered.edges)
  <2>1. store.entities \in Table("entities") /\ "entities" \in Tables
    BY LatestFacts DEF IInv, Tables
  <2> DEFINE order == ById(found)
  <2>2. order \in Seq(found)
    <3>1. /\ DOMAIN store.entities \in SUBSET Nat
          /\ IsFiniteSet(DOMAIN store.entities)
      BY <2>1, TableFacts
    <3>2. found \in SUBSET Nat /\ IsFiniteSet(found)
      BY <3>1, FS_Subset
    <3> HIDE DEF found
    <3>3. QED
      BY <3>2, ByIdFacts
  <2>3. got = [k \in DOMAIN order |-> store.entities[order[k]]]
    BY DEF Rows
  <2>4. \A i \in found : /\ store.entities[i].id = i
                         /\ i \in EndsOf(gathered.edges)
    <3>1. \A i \in DOMAIN store.entities :
            /\ store.entities[i] \in Catalogue["entities"][i]
            /\ i \in DOMAIN Catalogue["entities"]
      BY <2>1, TableFacts
    <3>2. QED
      BY <3>1, ServingAssumption
  <2> HIDE DEF got, found, order
  <2>5. DOMAIN got = 1..Len(order) /\ Len(order) \in Nat
    BY <2>2, <2>3
  <2>6. DOMAIN got = 1..Len(got)
    <3>1. got \in Seq({store.entities[i] : i \in found})
      BY <2>2, <2>3
    <3>2. QED
      BY <3>1
  <2>7. ASSUME NEW e \in ToSet(got)
        PROVE  e.id \in EndsOf(gathered.edges)
    <3>1. PICK k \in DOMAIN got : got[k] = e
      BY <2>7 DEF ToSet
    <3>2. e = store.entities[order[k]] /\ order[k] \in found
      BY <2>2, <2>3, <3>1
    <3>3. QED
      BY <2>4, <3>2
  <2>8. QED
    BY <2>6, <2>7
<1> HIDE DEF got
<1>4. /\ change = [f \in GatheredFields |-> change[f]]
      /\ change.claims = gathered.claims /\ change.missed = gathered.missed
      /\ change.edges = gathered.edges /\ change.entities = got
  BY <1>2 DEF GatheredFields
<1> HIDE DEF change
<1>5. NamesEnds(change)
  BY <1>3, <1>4 DEF NamesEnds
<1>6. ReadsAt("version", change) /\ ListsAt("version", change)
  BY <1>1, <1>4, <1>5, TracedOn DEF ReadsAt, ListsAt
<1>7. Reading
  BY <1>1 DEF Reading
<1>8. QED
  BY <1>1, <1>4, <1>6, <1>7, ReadKeeps

(* The version is read last: nothing read before it is newer.              *)
LEMMA ReadVersionKeeps ==
  ASSUME IInv, ReadVersion
  PROVE  IInv'
<1> DEFINE change == [gathered EXCEPT !.version = store.version]
<1>1. phase = "version" /\ Read(change, "assemble")
  BY DEF ReadVersion, Version
<1>2. gathered = [f \in GatheredFields |-> gathered[f]]
  BY DEF IInv, Asked
<1>3. /\ store.version = Len(past) /\ Len(past) \in 1..Len(past)
  BY LatestFacts DEF IInv
<1>4. /\ change = [f \in GatheredFields |-> change[f]]
      /\ change.claims = gathered.claims /\ change.missed = gathered.missed
      /\ change.edges = gathered.edges /\ change.version = Len(past)
      /\ change.entities = gathered.entities
  BY <1>2, <1>3 DEF GatheredFields
<1> HIDE DEF change
<1>5. NamesEnds(change)
  <2>1. NamesEnds(gathered)
    BY <1>1 DEF IInv, ReadsAt
  <2>2. QED
    BY <1>4, <2>1 DEF NamesEnds
<1>6. ReadsAt("assemble", change) /\ ListsAt("assemble", change)
  BY <1>1, <1>3, <1>4, <1>5, TracedOn DEF ReadsAt, ListsAt
<1>7. Reading
  BY <1>1 DEF Reading
<1>8. QED
  BY <1>1, <1>4, <1>6, <1>7, ReadKeeps

(* Reads that nothing is expected of.                                      *)
LEMMA FindNodeKeeps ==
  ASSUME IInv, FindNode
  PROVE  IInv'
<1>1. phase = "neighbours" /\ Reading /\ phase # "idle"
  BY DEF FindNode, Reading
<1>2. CASE Read(gathered, "edges of")
  <2>1. gathered = [f \in GatheredFields |-> gathered[f]]
    BY DEF IInv, Asked
  <2>2. ReadsAt("edges of", gathered) /\ ListsAt("edges of", gathered)
    BY DEF ReadsAt, ListsAt
  <2>3. QED
    BY <1>1, <1>2, <2>1, <2>2, ReadKeeps
<1>3. CASE Reply([refused |-> "not found"])
  <2> DEFINE a == [refused |-> "not found"]
  <2>1. "pack" \notin DOMAIN a /\ "listed" \notin DOMAIN a
    OBVIOUS
  <2>2. Reply(a)
    BY <1>3
  <2> HIDE DEF a
  <2>3. QED
    BY <1>1, <2>1, <2>2, ReplyKeeps
<1>4. QED
  BY <1>2, <1>3 DEF FindNode

LEMMA CountEntitiesKeeps ==
  ASSUME IInv, CountEntities
  PROVE  IInv'
<1> DEFINE got == <<Cardinality(DOMAIN store.entities)>>
           change == [gathered EXCEPT !.entities = got]
<1>1. phase = "stats" /\ Read(change, "counting")
  BY DEF CountEntities
<1>2. gathered = [f \in GatheredFields |-> gathered[f]]
  BY DEF IInv, Asked
<1> HIDE DEF got
<1>3. change = [f \in GatheredFields |-> change[f]]
  BY <1>2 DEF GatheredFields
<1> HIDE DEF change
<1>4. ReadsAt("counting", change) /\ ListsAt("counting", change)
  BY DEF ReadsAt, ListsAt
<1>5. Reading
  BY <1>1 DEF Reading
<1>6. QED
  BY <1>1, <1>3, <1>4, <1>5, ReadKeeps

-----------------------------------------------------------------------------
(* A listing.                                                              *)
LEMMA AllMatch ==
  ASSUME NEW table
  PROVE  {i \in DOMAIN table : EntityMatches(EntityQuery, table[i])}
           = DOMAIN table
<1>1. \A e : EntityMatches(EntityQuery, e)
  BY DEF EntityMatches, EntityQuery, Selects, OnOrAfter, Before
<1>2. QED
  BY <1>1

LEMMA PageIsNonempty ==
  ASSUME NEW limit \in Nat \union {None}, NEW offset
  PROVE  /\ IntoPage(limit, offset).limit \in Nat \ {0}
         /\ IntoPage(limit, offset).offset = offset
  BY ServingAssumption
     DEF IntoPage, Page, DefaultPageSize, MaxPageSize, MaxLimit

LEMMA SaidOfBoth ==
  ASSUME NEW S, NEW s \in Seq(S), NEW t \in Seq(S)
  PROVE  /\ s \o t \in Seq(S)
         /\ ToSet(s) \subseteq ToSet(s \o t) /\ ToSet(t) \subseteq ToSet(s \o t)
<1>1. /\ s \o t \in Seq(S) /\ Len(s \o t) = Len(s) + Len(t)
      /\ Len(s) \in Nat /\ Len(t) \in Nat
  OBVIOUS
<1>2. /\ DOMAIN s = 1..Len(s) /\ DOMAIN t = 1..Len(t)
      /\ DOMAIN (s \o t) = 1..(Len(s) + Len(t))
  BY <1>1
<1>3. ASSUME NEW k \in 1..Len(s)
      PROVE  k \in DOMAIN (s \o t) /\ (s \o t)[k] = s[k]
  BY <1>1, <1>2
<1>4. ASSUME NEW k \in 1..Len(t)
      PROVE  /\ Len(s) + k \in DOMAIN (s \o t)
             /\ (s \o t)[Len(s) + k] = t[k]
  <2>1. Len(s) + k \in 1..(Len(s) + Len(t))
    BY <1>1
  <2>2. (s \o t)[Len(s) + k] = t[(Len(s) + k) - Len(s)]
    BY <1>1, <2>1
  <2>3. (Len(s) + k) - Len(s) = k
    BY <1>1
  <2>4. QED
    BY <1>2, <2>1, <2>2, <2>3
<1>5. ToSet(s) \subseteq ToSet(s \o t)
  BY <1>2, <1>3 DEF ToSet
<1>6. ToSet(t) \subseteq ToSet(s \o t)
  BY <1>2, <1>4 DEF ToSet
<1>7. QED
  BY <1>1, <1>5, <1>6

(* The next page begins where this one ends: an entity that has moved down *)
(* is on a page still to come, and one that was read stays read.           *)
LEMMA ListPageKeeps ==
  ASSUME IInv, ListPage
  PROVE  IInv'
<1> DEFINE place == IF gathered.page = None THEN 0 ELSE gathered.page
           page == IntoPage(request.objects, place)
           here == DOMAIN store.entities
           found == SearchEntities(store.entities, EntityQuery, page)
           next == NextOffset(Len(found), page)
           told == gathered.listed \o found
           owed == IF gathered.page = None THEN here ELSE gathered.missed
           change == [gathered EXCEPT !.listed = told, !.page = next,
                                      !.missed = owed]
           then == IF next = None THEN "listed" ELSE "entities list"
<1>1. phase = "entities list" /\ Read(change, then)
  BY DEF ListPage
<1>2. /\ Kept /\ Asked /\ gathered = [f \in GatheredFields |-> gathered[f]]
      /\ ListsAt("entities list", gathered)
  BY <1>1 DEF IInv, Asked
<1>3. /\ gathered.listed \in Seq(Nat)
      /\ place \in Nat
      /\ owed \subseteq here
  BY <1>2 DEF ListsAt
<1>4. \A i \in owed : i \in ToSet(gathered.listed) \/ RankIn(here, i) >= place
  <2>1. CASE gathered.page # None
    BY <1>2, <2>1 DEF ListsAt
  <2>2. CASE gathered.page = None
    <3>1. ASSUME NEW i \in here PROVE RankIn(here, i) \in Nat
      <4>1. "entities" \in Tables /\ store.entities \in Table("entities")
        BY <1>2, LatestFacts DEF Tables
      <4>2. here \in SUBSET Nat /\ IsFiniteSet(here)
        BY <4>1, TableFacts
      <4>3. RankIn(here, i) \in 0..(Cardinality(here) - 1)
        BY <4>2, RankFacts
      <4>4. QED
        BY <4>3
    <3>2. place = 0 /\ owed = here
      BY <2>2
    <3>3. QED
      BY <3>1, <3>2
  <2>3. QED
    BY <2>1, <2>2
<1>5. page.limit \in Nat \ {0} /\ page.offset = place
  BY <1>1, <1>2, AsksForNumbers, PageIsNonempty
<1>6. found = Fetched(ById(here), page)
  BY AllMatch DEF SearchEntities, IdsMatching
<1>7. /\ "entities" \in Tables /\ store.entities \in Table("entities")
      /\ here \in SUBSET here /\ here \in SUBSET Nat
  <2>1. "entities" \in Tables /\ store.entities \in Table("entities")
    BY <1>2, LatestFacts DEF Tables
  <2>2. QED
    BY <2>1, TableFacts
<1> HIDE DEF page, place, owed
<1>8. /\ found \in Seq(here) /\ found \in Seq(Nat)
      /\ \A i \in here : RankIn(here, i) \in Nat
      /\ \A i \in here \ ToSet(found) : RankIn(here, i) >= page.offset =>
           /\ Len(found) = page.limit
           /\ RankIn(here, i) >= page.offset + page.limit
  <2>1. page.offset \in Nat
    BY <1>3, <1>5
  <2>2. /\ found \in Seq(here)
        /\ \A i \in here : RankIn(here, i) \in Nat
        /\ \A i \in here \ ToSet(found) : RankIn(here, i) >= page.offset =>
             /\ Len(found) = page.limit
             /\ RankIn(here, i) >= page.offset + page.limit
    BY <1>5, <1>6, <1>7, <2>1, PageFacts
  <2> HIDE DEF found
  <2>3. found \in Seq(Nat)
    BY <1>7, <2>2
  <2>4. QED
    BY <2>2, <2>3
<1> HIDE DEF here, found
<1>9. /\ told \in Seq(Nat) /\ ToSet(gathered.listed) \subseteq ToSet(told)
      /\ ToSet(found) \subseteq ToSet(told)
  BY <1>3, <1>8, SaidOfBoth
<1>10. Len(found) \in Nat
  BY <1>8
<1>11. next = IF Len(found) >= page.limit THEN place + page.limit ELSE None
  BY <1>5 DEF NextOffset
<1>12. place + page.limit \in Nat /\ place + page.limit # None
  BY <1>3, <1>5, ServingAssumption
<1> HIDE DEF told, next
<1>13. ASSUME NEW i \in owed, i \notin ToSet(told)
       PROVE  Len(found) >= page.limit /\ RankIn(here, i) >= place + page.limit
  <2>1. i \in here /\ i \notin ToSet(found) /\ RankIn(here, i) >= place
    BY <1>3, <1>4, <1>9, <1>13
  <2>2. Len(found) = page.limit /\ RankIn(here, i) >= place + page.limit
    BY <1>5, <1>8, <2>1
  <2>3. QED
    BY <1>5, <2>2
<1>14. /\ change = [f \in GatheredFields |-> change[f]]
       /\ change.listed = told /\ change.page = next /\ change.missed = owed
  BY <1>2 DEF GatheredFields
<1> HIDE DEF change
<1>15. ListsAt(then, change)
  <2>1. CASE next = None
    <3>1. ~(Len(found) >= page.limit)
      BY <1>11, <1>12, <2>1
    <3>2. change.missed \subseteq ToSet(change.listed)
      BY <1>13, <1>14, <3>1
    <3>3. QED
      BY <2>1, <3>2 DEF ListsAt
  <2>2. CASE next # None
    <3>1. next = place + page.limit
      BY <1>11, <2>2
    <3>2. /\ change.listed \in Seq(Nat) /\ change.page \in Nat
          /\ change.page # None /\ change.missed \subseteq here
      BY <1>3, <1>9, <1>12, <1>14, <3>1
    <3>3. \A i \in change.missed : \/ i \in ToSet(change.listed)
                                   \/ RankIn(here, i) >= change.page
      BY <1>13, <1>14, <3>1
    <3>4. QED
      BY <2>2, <3>2, <3>3 DEF ListsAt, here
  <2>3. QED
    BY <2>1, <2>2
<1>16. ReadsAt(then, change)
  BY DEF ReadsAt
<1>17. Reading /\ then \notin {"idle", "answered", "exported"}
  BY <1>1 DEF Reading
<1> HIDE DEF then
<1>18. QED
  BY <1>1, <1>14, <1>15, <1>16, <1>17, ReadKeeps

LEMMA ListEndsKeeps ==
  ASSUME IInv, ListEnds
  PROVE  IInv'
<1> DEFINE a == [listed |-> ToSet(gathered.listed)]
<1>1. phase = "listed" /\ Reply(a)
  BY DEF ListEnds
<1>2. "pack" \notin DOMAIN a /\ a.listed = ToSet(gathered.listed)
  OBVIOUS
<1>3. gathered.missed \subseteq ToSet(gathered.listed)
  BY <1>1 DEF IInv, ListsAt
<1> HIDE DEF a
<1>4. phase # "idle"
  BY <1>1
<1>5. QED
  BY <1>1, <1>2, <1>3, <1>4, ReplyKeeps

-----------------------------------------------------------------------------
(* The other answers are neither packs nor listings.                       *)
LEMMA OtherAnswersKeep ==
  ASSUME IInv,
         \/ Refuse \/ TimeOut \/ Health \/ RejectSubject \/ RejectLevel
         \/ GetEntity \/ ReadNeighbours \/ Ready \/ CountRest
  PROVE  IInv'
<1>1. phase # "idle"
  BY DEF Refuse, TimeOut, Health, RejectSubject, RejectLevel, GetEntity,
         ReadNeighbours, Ready, CountRest
<1>2. \E a : Reply(a) /\ "pack" \notin DOMAIN a /\ "listed" \notin DOMAIN a
  <2>1. ASSUME NEW why, Reply([refused |-> why])
        PROVE  \E a : /\ Reply(a) /\ "pack" \notin DOMAIN a
                      /\ "listed" \notin DOMAIN a
    <3>1. /\ "pack" \notin DOMAIN [refused |-> why]
          /\ "listed" \notin DOMAIN [refused |-> why]
      OBVIOUS
    <3>2. QED
      BY <2>1, <3>1
  <2>2. CASE Refuse \/ TimeOut \/ RejectSubject \/ RejectLevel
    BY <2>1, <2>2 DEF Refuse, TimeOut, RejectSubject, RejectLevel
  <2>3. CASE Health
    <3> DEFINE a == [status |-> "ok"]
    <3>1. "pack" \notin DOMAIN a /\ "listed" \notin DOMAIN a
      OBVIOUS
    <3>2. QED
      BY <2>3, <3>1 DEF Health
  <2>4. CASE GetEntity
    <3>1. CASE Exists(store.entities, request.id)
      <4> DEFINE a == [entity |-> store.entities[request.id]]
      <4>1. "pack" \notin DOMAIN a /\ "listed" \notin DOMAIN a
        OBVIOUS
      <4>2. Reply(a)
        BY <2>4, <3>1 DEF GetEntity
      <4>3. QED
        BY <4>1, <4>2
    <3>2. CASE ~Exists(store.entities, request.id)
      BY <2>1, <2>4, <3>2 DEF GetEntity
    <3>3. QED
      BY <3>1, <3>2
  <2>5. CASE ReadNeighbours
    <3> DEFINE a == [edges |-> EdgesAt(store.edges, About(EdgeQuery, request.id),
                                       IntoPage(request.objects, 0))]
    <3>1. "pack" \notin DOMAIN a /\ "listed" \notin DOMAIN a
      OBVIOUS
    <3>2. Reply(a)
      BY <2>5 DEF ReadNeighbours
    <3>3. QED
      BY <3>1, <3>2
  <2>6. CASE Ready
    <3> DEFINE a == [entities |-> Cardinality(DOMAIN store.entities)]
    <3>1. "pack" \notin DOMAIN a /\ "listed" \notin DOMAIN a
      OBVIOUS
    <3>2. Reply(a)
      BY <2>6 DEF Ready
    <3>3. QED
      BY <3>1, <3>2
  <2>7. CASE CountRest
    <3> DEFINE a == [entities |-> gathered.entities[1],
                     relationships |-> Cardinality(DOMAIN store.edges),
                     claims |-> Cardinality(DOMAIN store.claims),
                     sightings |-> Cardinality(DOMAIN store.sightings)]
    <3>1. "pack" \notin DOMAIN a /\ "listed" \notin DOMAIN a
      OBVIOUS
    <3>2. Reply(a)
      BY <2>7 DEF CountRest
    <3>3. QED
      BY <3>1, <3>2
  <2>8. QED
    BY <2>2, <2>3, <2>4, <2>5, <2>6, <2>7
<1>3. PICK a : Reply(a) /\ "pack" \notin DOMAIN a /\ "listed" \notin DOMAIN a
  BY <1>2
<1>4. QED
  BY <1>1, <1>3, ReplyKeeps

-----------------------------------------------------------------------------
LEMMA InitSound == ServingInit => IInv
<1> SUFFICES ASSUME ServingInit PROVE IInv
  OBVIOUS
<1>1. /\ store \in Stores /\ past = <<store>> /\ phase = "idle"
      /\ gathered = Nothing /\ answer = None
  BY DEF ServingInit
<1>2. store \in AnyStore /\ store.version = 1
  <2>1. ASSUME NEW t \in Tables, NEW S \in SUBSET DOMAIN Catalogue[t]
        PROVE  [i \in S |-> CHOOSE d \in Catalogue[t][i] : TRUE] \in Table(t)
    <3> DEFINE table == [i \in S |-> CHOOSE d \in Catalogue[t][i] : TRUE]
    <3>1. ASSUME NEW i \in S
          PROVE  table[i] \in Catalogue[t][i] /\ table[i] \in RowsOf(t)
      <4>1. Catalogue[t][i] # {}
        BY ServingAssumption
      <4>2. table[i] \in Catalogue[t][i]
        BY <4>1
      <4>3. QED
        BY <4>2 DEF RowsOf
    <3>2. table = [i \in S |-> table[i]]
      OBVIOUS
    <3> HIDE DEF table
    <3>3. table \in [S -> RowsOf(t)]
      BY <3>1, <3>2
    <3>4. table \in Table(t)
      BY <3>1, <3>3 DEF Table, RowsAt
    <3>5. QED
      BY <3>4 DEF table
  <2>2. EmptyStore.sightings \in Table("sightings")
    <3>1. EmptyStore.sightings = [i \in {} |-> 0]
      BY DEF EmptyStore
    <3>2. EmptyStore.sightings \in RowsAt("sightings", {})
      BY <3>1 DEF RowsAt
    <3>3. QED
      BY <3>2 DEF Table
  <2>3. PICK s : s = store
    OBVIOUS
  <2>4. s \in [claims : {[i \in S |-> CHOOSE d \in Catalogue.claims[i] : TRUE] :
                           S \in SUBSET DOMAIN Catalogue.claims},
               edges : {[i \in S |-> CHOOSE d \in Catalogue.edges[i] : TRUE] :
                          S \in SUBSET DOMAIN Catalogue.edges},
               sightings : {EmptyStore.sightings},
               entities : {[i \in S |-> CHOOSE d \in Catalogue.entities[i] : TRUE] :
                             S \in SUBSET DOMAIN Catalogue.entities},
               version : {1}]
    BY <1>1, <2>3 DEF Stores
  <2>5. /\ s.claims \in Table("claims") /\ s.edges \in Table("edges")
        /\ s.entities \in Table("entities")
    <3>1. /\ \E S \in SUBSET DOMAIN Catalogue.claims :
               s.claims = [i \in S |-> CHOOSE d \in Catalogue.claims[i] : TRUE]
          /\ \E S \in SUBSET DOMAIN Catalogue.edges :
               s.edges = [i \in S |-> CHOOSE d \in Catalogue.edges[i] : TRUE]
          /\ \E S \in SUBSET DOMAIN Catalogue.entities :
               s.entities = [i \in S |-> CHOOSE d \in Catalogue.entities[i] : TRUE]
      BY <2>4
    <3>2. {"claims", "edges", "entities"} \subseteq Tables
      BY DEF Tables
    <3>3. s.claims \in Table("claims")
      BY <2>1, <3>1, <3>2
    <3>4. s.edges \in Table("edges")
      BY <2>1, <3>1, <3>2
    <3>5. s.entities \in Table("entities")
      BY <2>1, <3>1, <3>2
    <3>6. QED
      BY <3>3, <3>4, <3>5
  <2>6. /\ s = [f \in {"claims", "edges", "sightings", "entities", "version"}
                  |-> s[f]]
        /\ s.sightings = EmptyStore.sightings /\ s.version = 1
    BY <2>4
  <2>7. s \in AnyStore
    BY <2>2, <2>5, <2>6, StoreShape DEF StoreFields
  <2>8. QED
    BY <2>3, <2>6, <2>7
<1>3. Kept
  BY <1>1, <1>2 DEF Kept
<1>4. Asked
  BY <1>1 DEF Asked, Nothing, GatheredFields
<1>5. Answers /\ Listed
  BY <1>1 DEF Answers, Listed
<1>6. ReadsAt(phase, gathered) /\ ListsAt(phase, gathered)
  BY <1>1 DEF ReadsAt, ListsAt
<1>7. QED
  BY <1>3, <1>4, <1>5, <1>6 DEF IInv

LEMMA StepSound == IInv /\ [ServingNext]_servingVars => IInv'
<1> SUFFICES ASSUME IInv, [ServingNext]_servingVars PROVE IInv'
  OBVIOUS
<1>1. CASE Commit
  BY <1>1, CommitKeeps
<1>2. CASE \E r \in Requests : (IsCommand => IsContextCommand(r)) /\ Ask(r)
  BY <1>2, AskKeeps
<1>3. CASE Refuse \/ TimeOut
  BY <1>3, OtherAnswersKeep
<1>4. CASE Context
  <2>1. CASE RejectSubject \/ RejectLevel
    BY <2>1, OtherAnswersKeep
  <2>2. CASE ReadClaims \/ ReadEdges
    BY <2>2, ReadClaimsKeeps, ReadEdgesKeeps
  <2>3. CASE ReadSightings \/ ReadEntities \/ ReadVersion
    BY <2>3, ReadSightingsKeeps, ReadEntitiesKeeps, ReadVersionKeeps
  <2>4. CASE Assemble
    BY <2>4, AssembleKeeps
  <2>5. CASE \E f \in Formats : ExportAs(f)
    BY <2>5, ExportKeeps
  <2>6. QED
    BY <1>4, <2>1, <2>2, <2>3, <2>4, <2>5 DEF Context
<1>5. CASE Routes
  <2>1. CASE Health \/ GetEntity \/ ReadNeighbours \/ Ready \/ CountRest
    BY <2>1, OtherAnswersKeep
  <2>2. CASE ListPage \/ ListEnds
    BY <2>2, ListPageKeeps, ListEndsKeeps
  <2>3. CASE FindNode \/ CountEntities
    BY <2>3, FindNodeKeeps, CountEntitiesKeeps
  <2>4. QED
    BY <1>5, <2>1, <2>2, <2>3 DEF Routes
<1>6. CASE UNCHANGED servingVars
  <2>1. UNCHANGED <<store, past, config, phase, request, gathered, answer>>
    BY <1>6 DEF servingVars
  <2>2. /\ IsCommand' = IsCommand /\ Reader' = Reader
        /\ Objects' = Objects /\ Relationships' = Relationships
    BY <2>1, SameFront
  <2>3. Kept' /\ Asked' /\ Listed'
    BY <2>1, <2>2 DEF IInv, Kept, Asked, Listed, IsContextCommand
  <2>4. ReadsAt(phase, gathered)' /\ ListsAt(phase, gathered)'
    BY <2>1, <2>2 DEF IInv, ReadsAt, ListsAt
  <2>5. Answers'
    <3>1. PICK g : g = gathered
      OBVIOUS
    <3>2. ASSUME NEW now PROVE AnswerOf(gathered, now)' = AnswerOf(gathered, now)
      <4>1. AnswerOf(gathered, now)' = AnswerOf(g, now)'
        BY <2>1, <3>1 DEF AnswerOf, Assembly
      <4>2. QED
        BY <2>1, <3>1, <4>1, SameFront
    <3>3. QED
      BY <2>1, <2>2, <3>2 DEF IInv, Answers
  <2>6. QED
    BY <2>3, <2>4, <2>5 DEF IInv
<1>7. QED
  BY <1>1, <1>2, <1>3, <1>4, <1>5, <1>6 DEF ServingNext

-----------------------------------------------------------------------------
(* The invariant is what the properties need.                              *)
LEMMA PackTraced ==
  ASSUME IInv, HasPack
  PROVE  /\ phase \in {"answered", "exported"}
         /\ answer.pack.graph_version = gathered.version
         /\ gathered.version \in 1..Len(past)
         /\ Traced(past, gathered, Objects, Relationships, gathered.version)
         /\ NamesEnds(gathered)
         /\ \E now : /\ answer.pack = AnswerOf(gathered, now)
                     /\ IsPack(AnswerOf(gathered, now))
         /\ "exported" \in DOMAIN answer =>
              answer.exported =
                Export(answer.format, request.kind, answer.pack, Reader)
<1>1. phase \in {"answered", "exported"}
  BY DEF IInv, Asked, HasPack
<1>2. /\ gathered.version \in 1..Len(past)
      /\ Traced(past, gathered, Objects, Relationships, gathered.version)
      /\ NamesEnds(gathered)
      /\ \E now : answer.pack = AnswerOf(gathered, now)
      /\ "exported" \in DOMAIN answer =>
           answer.exported =
             Export(answer.format, request.kind, answer.pack, Reader)
  BY <1>1 DEF IInv, Answers, HasPack
<1>3. PICK now : answer.pack = AnswerOf(gathered, now)
  BY <1>2
<1>4. IsPack(AnswerOf(gathered, now))
  BY <1>3 DEF HasPack
<1>5. answer.pack.graph_version = gathered.version
  <2>1. "graph_version" \in PackFields \ {"exclusions", "gaps", "requested"}
    BY DEF PackFields
  <2>2. answer.pack.graph_version = MadeOf(gathered, now).graph_version
    BY <1>3, <1>4, <2>1, AnswerFields
  <2>3. QED
    BY <2>2, MadeFields
<1>6. QED
  BY <1>1, <1>2, <1>3, <1>4, <1>5

(* What was gathered for a pack is rows of the catalogue.                  *)
LEMMA PackRows ==
  ASSUME IInv, HasPack
  PROVE  /\ gathered.claims \in Seq(RowsOf("claims"))
         /\ gathered.edges \in Seq(RowsOf("edges"))
         /\ gathered.missed # {} /\ Objects <= MaxLimit =>
              Reaches(gathered.claims, Objects)
<1>1. /\ gathered.version \in 1..Len(past)
      /\ Traced(past, gathered, Objects, Relationships, gathered.version)
      /\ phase # "idle" /\ Kept /\ Asked
  BY PackTraced DEF IInv
<1>2. Objects \in Nat /\ Relationships \in Nat
  BY <1>1, AsksForNumbers
<1>3. QED
  BY <1>1, <1>2, TracedRows

LEMMA Stamped ==
  ASSUME IInv
  PROVE  StampCoversReads
<1> SUFFICES ASSUME HasPack
             PROVE  \E v \in 1..answer.pack.graph_version :
                      \E w \in v..answer.pack.graph_version :
                        /\ gathered.claims = Rows(past[v].claims, ReadAt(v))
                        /\ gathered.edges = Rows(past[w].edges, EdgesReadAt(w))
  BY DEF StampCoversReads
<1>1. /\ answer.pack.graph_version = gathered.version
      /\ Traced(past, gathered, Objects, Relationships, gathered.version)
  BY PackTraced
<1>2. QED
  BY <1>1 DEF Traced, ClaimsRead, EdgesRead, ReadAt, EdgesReadAt

LEMMA Withheld ==
  ASSUME IInv
  PROVE  ClaimsAndEdgesWithheld
<1> SUFFICES ASSUME HasPack PROVE ClaimsAndEdgesWithheld
  BY DEF ClaimsAndEdgesWithheld
<1>1. PICK now : /\ answer.pack = AnswerOf(gathered, now)
                 /\ IsPack(AnswerOf(gathered, now))
  BY PackTraced
<1>2. /\ gathered.claims \in Seq(RowsOf("claims"))
      /\ gathered.edges \in Seq(RowsOf("edges"))
      /\ NamesEnds(gathered)
  BY PackRows, PackTraced
<1>3. SaysOnlyOf(gathered, AnswerOf(gathered, now))
  BY <1>1, <1>2, SaysOnlyOfThese
<1>4. SaysOnlyOf(gathered, answer.pack)
  BY <1>1, <1>3
<1>5. QED
  BY <1>4 DEF ClaimsAndEdgesWithheld, SaysOnlyOf

(* Only what is cleared becomes a file.                                    *)
LEMMA ExportFacts ==
  ASSUME NEW name, NEW kind, NEW pack, NEW identity,
         "bytes" \in DOMAIN Export(name, kind, pack, identity)
  PROVE  /\ name \in Names /\ Clear(identity, pack, name) = {}
         /\ Export(name, kind, pack, identity).losses = Losses(name, kind)
<1> DEFINE file == [bytes |-> Emit(name, kind, pack),
                    losses |-> Losses(name, kind)]
<1>1. CASE name \notin Names
  <2>1. Export(name, kind, pack, identity) = [refused |-> "unknown format"]
    BY <1>1 DEF Export
  <2>2. DOMAIN [refused |-> "unknown format"] = {"refused"}
    OBVIOUS
  <2>3. QED
    BY <2>1, <2>2
<1>2. CASE name \in Names /\ Clear(identity, pack, name) # {}
  <2>1. Export(name, kind, pack, identity) = [refused |-> "denied"]
    BY <1>2 DEF Export
  <2>2. DOMAIN [refused |-> "denied"] = {"refused"}
    OBVIOUS
  <2>3. QED
    BY <2>1, <2>2
<1>3. CASE name \in Names /\ Clear(identity, pack, name) = {}
  <2>1. Export(name, kind, pack, identity) = file
    BY <1>3 DEF Export
  <2>2. file.losses = Losses(name, kind)
    OBVIOUS
  <2>3. QED
    BY <1>3, <2>1, <2>2
<1>4. QED
  BY <1>1, <1>2, <1>3

LEMMA Told ==
  ASSUME IInv
  PROVE  CutIsTold
<1> SUFFICES ASSUME HasPack PROVE CutIsTold
  BY DEF CutIsTold
<1> DEFINE pack == answer.pack
<1>1. PICK now : pack = AnswerOf(gathered, now) /\ IsPack(AnswerOf(gathered, now))
  BY PackTraced
<1>2. /\ Reaches(gathered.claims, Objects) /\ ~pack.restricted => pack.exhausted
      /\ pack.exhausted <=> \E e \in pack.exclusions : IsRetryable(e.reason)
  BY <1>1, PackRows, FullPageIsExhausted
<1>3. gathered.missed # {} /\ Objects <= MaxLimit /\ ~pack.restricted
        => pack.exhausted
  BY <1>2, PackRows
<1>4. ASSUME "exported" \in DOMAIN answer, "bytes" \in DOMAIN answer.exported,
             MustDeclareLosses(Registry[answer.format].lossiness)
      PROVE  answer.exported.losses # {}
  <2>1. answer.exported = Export(answer.format, request.kind, pack, Reader)
    BY <1>4, PackTraced
  <2>2. /\ answer.format \in Names
        /\ answer.exported.losses = Losses(answer.format, request.kind)
    BY <1>4, <2>1, ExportFacts
  <2>3. answer.format \in {"stix", "brief"}
    <3>1. Names = {"json", "compact", "yaml", "jsonl", "stix", "markdown",
                   "text", "brief"}
      BY DEF Names, Registry
    <3>2. /\ \A n \in {"json", "compact", "yaml"} :
               Registry[n].lossiness = "lossless"
          /\ Registry["jsonl"].lossiness = "lossless_structural"
          /\ Registry["markdown"].lossiness = "narrative"
          /\ Registry["text"].lossiness = "narrative"
      BY DEF Registry, Metadata
    <3>3. QED
      BY <1>4, <2>2, <3>1, <3>2 DEF MustDeclareLosses
  <2>4. "budget" \in Losses(answer.format, request.kind)
    BY <2>3 DEF Losses
  <2>5. QED
    BY <2>2, <2>4
<1>5. QED
  BY <1>2, <1>3, <1>4 DEF CutIsTold

LEMMA Spread ==
  ASSUME IInv
  PROVE  ClaimsAndEdgesMaySpread
<1> DEFINE edges == MayRead(gathered.edges)
           spread == {r \in ToSet(edges) :
                        Allowed(Reader, r.markings, "redistribute")}
           refused == Exclusion("claims", "policy_restricted")
<1> SUFFICES ASSUME HasPack, "exported" \in DOMAIN answer,
                    "bytes" \in DOMAIN answer.exported,
                    Registry[answer.format].orientation = "interchange"
             PROVE  /\ \A r \in ToSet(MayRead(gathered.claims))
                                  \union ToSet(edges) :
                         Allowed(Reader, r.markings, "redistribute")
                    /\ \A e \in ToSet(answer.pack.graph.entities) :
                         \/ \E r \in spread : e.id \in {r.source, r.target}
                         \/ refused \in answer.pack.exclusions
  BY DEF ClaimsAndEdgesMaySpread
<1>1. PICK now : /\ answer.pack = AnswerOf(gathered, now)
                 /\ IsPack(AnswerOf(gathered, now))
  BY PackTraced
<1>2. answer.exported = Export(answer.format, request.kind, answer.pack, Reader)
  BY PackTraced
<1>3. /\ answer.format \in Names
      /\ Clear(Reader, answer.pack, answer.format) = {}
  BY <1>2, ExportFacts
<1>4. \A r \in ToSet(MayRead(gathered.claims)) \union ToSet(edges) :
        Allowed(Reader, r.markings, "redistribute")
  BY <1>1, <1>3, SpreadOnlyWhatMay
<1>5. ASSUME NEW e \in ToSet(answer.pack.graph.entities)
      PROVE  \/ \E r \in spread : e.id \in {r.source, r.target}
             \/ refused \in answer.pack.exclusions
  <2>1. CASE e.id \in EndsOf(edges)
    <3>1. PICK r \in ToSet(edges) : e.id \in {r.source, r.target}
      BY <2>1 DEF EndsOf
    <3>2. r \in spread
      BY <1>4
    <3>3. QED
      BY <3>1, <3>2
  <2>2. CASE e.id \notin EndsOf(edges)
    <3>1. answer.pack.restricted
      <4>1. e.id \in {x.id : x \in ToSet(answer.pack.graph.entities)}
                       \ EndsOf(edges)
        BY <2>2
      <4>2. QED
        BY <4>1, Withheld DEF ClaimsAndEdgesWithheld
    <3>2. QED
      BY <1>1, <3>1, RestrictedIsSaid
  <2>3. QED
    BY <2>1, <2>2
<1>6. QED
  BY <1>4, <1>5

-----------------------------------------------------------------------------
(* Every version the store has had is kept, and what was read of it for a  *)
(* request, or said in an answer, is of versions it has had.               *)
THEOREM InvHolds == ServingSpec => []IInv
<1>1. ServingInit => IInv
  BY InitSound
<1>2. IInv /\ [ServingNext]_servingVars => IInv'
  BY StepSound
<1>3. QED
  BY <1>1, <1>2, PTL DEF ServingSpec

(* What a pack was made of was there no later than the version it names,   *)
(* whatever other processes commit between its reads (context.rs:183).     *)
THEOREM StampIsHonest == ServingSpec => []StampCoversReads
<1>1. IInv => StampCoversReads
  BY Stamped
<1>2. QED
  BY <1>1, InvHolds, PTL

(* Nothing a pack says, cites or points to comes of a claim or an edge its *)
(* reader may not read (assemble.rs:73, context.rs:205), and a pack is     *)
(* restricted where some were withheld or an entity in it is reached by    *)
(* none that was let through.  Of an entity's or a sighting's own markings *)
(* it says nothing, as the code looks at none.                             *)
THEOREM WithheldHolds == ServingSpec => []ClaimsAndEdgesWithheld
<1>1. IInv => ClaimsAndEdgesWithheld
  BY Withheld
<1>2. QED
  BY <1>1, InvHolds, PTL

(* A pack that had to leave claims unread says that more would help, and a *)
(* file that has to declare what it lost declares it (assemble.rs:138,     *)
(* export/src/lib.rs:308).                                                 *)
THEOREM CutsAreTold == ServingSpec => []CutIsTold
<1>1. IInv => CutIsTold
  BY Told
<1>2. QED
  BY <1>1, InvHolds, PTL

(* A file for another platform leaves only where each claim and each edge  *)
(* of its pack may be redistributed (export/src/lib.rs:277, :344), and an  *)
(* entity in it is the end of such an edge, or the pack says that records  *)
(* were withheld.                                                          *)
THEOREM SpreadHolds == ServingSpec => []ClaimsAndEdgesMaySpread
<1>1. IInv => ClaimsAndEdgesMaySpread
  BY Spread
<1>2. QED
  BY <1>1, InvHolds, PTL

(* A client that follows next_offset to its end is told of every entity    *)
(* that was there when it began, whatever is added meanwhile               *)
(* (routes.rs:66).                                                         *)
THEOREM ListingsComplete == ServingSpec => []ListingMissesNothing
<1>1. IInv => ListingMissesNothing
  BY DEF IInv, Asked, Listed, ListingMissesNothing
<1>2. QED
  BY <1>1, InvHolds, PTL

-----------------------------------------------------------------------------
(* The walk of a graph.                                                    *)
Farthest == Cardinality(Nodes)   \* more crossings reach nothing new

LEMMA NodesCounted ==
  /\ Farthest \in Nat
  /\ \A S \in SUBSET Nodes : IsFiniteSet(S) /\ Cardinality(S) \in Nat
                             /\ Cardinality(S) <= Farthest
  BY WalkAssumption, FS_Subset, FS_CardinalityType DEF Farthest

(* The recursive function of Within is the one its equation describes.     *)
LEMMA WithinSteps ==
  ASSUME NEW rows
  PROVE  /\ Within(rows)[0] = {sought.start}
         /\ \A n \in 1..Farthest :
              Within(rows)[n] =
                Within(rows)[n - 1]
                  \union UNION {Beyond(rows, m) : m \in Within(rows)[n - 1]}
<1> DEFINE Hop(S) == S \union UNION {Beyond(rows, m) : m \in S}
           Solves(f, n) ==
             f = [k \in 0..n |->
                    IF k = 0 THEN {sought.start} ELSE Hop(f[k - 1])]
           S == {n \in Nat : \E f : Solves(f, n)}
<1> HIDE DEF Hop
<1>1. 0 \in S
  <2>1. Solves([k \in 0..0 |-> {sought.start}], 0)
    OBVIOUS
  <2>2. QED
    BY <2>1
<1>2. ASSUME NEW n \in Nat, n \in S
      PROVE  n + 1 \in S
  <2>1. PICK f : Solves(f, n)
    BY <1>2
  <2> DEFINE g == [k \in 0..(n + 1) |-> IF k = n + 1 THEN Hop(f[n])
                                      ELSE f[k]]
  <2>2. \A k \in 0..n : f[k] = IF k = 0 THEN {sought.start} ELSE Hop(f[k - 1])
    BY <2>1
  <2>3. \A k \in 0..n : g[k] = f[k]
    OBVIOUS
  <2>4. g[n + 1] = Hop(g[n])
    BY <2>3
  <2>5. \A k \in 0..(n + 1) :
          g[k] = IF k = 0 THEN {sought.start} ELSE Hop(g[k - 1])
    <3> TAKE k \in 0..(n + 1)
    <3>1. CASE k = n + 1
      BY <2>4, <3>1
    <3>2. CASE k # n + 1 /\ k # 0
      <4>1. k \in 0..n /\ k - 1 \in 0..n
        BY <3>2
      <4>2. QED
        BY <2>2, <2>3, <3>2, <4>1
    <3>3. CASE k = 0
      BY <2>2, <2>3, <3>3
    <3>4. QED
      BY <3>1, <3>2, <3>3
  <2>6. Solves(g, n + 1)
    BY <2>5
  <2> HIDE DEF Solves
  <2>7. QED
    BY <2>6
<1>3. PICK f : Solves(f, Farthest)
  <2>1. Farthest \in S
    <3> HIDE DEF S
    <3>1. QED
      BY <1>1, <1>2, InductionBySet, NodesCounted
  <2>2. QED
    BY <2>1
<1>4. Solves(Within(rows), Farthest)
  BY <1>3, Zenon DEF Within, Hop, Farthest
<1>5. \A k \in 0..Farthest :
        Within(rows)[k] = IF k = 0 THEN {sought.start} ELSE Hop(Within(rows)[k - 1])
  <2> DEFINE R == Within(rows)
  <2>1. R = [k \in 0..Farthest |->
               IF k = 0 THEN {sought.start} ELSE Hop(R[k - 1])]
    BY <1>4
  <2> HIDE DEF R
  <2>2. \A k \in 0..Farthest :
          R[k] = IF k = 0 THEN {sought.start} ELSE Hop(R[k - 1])
    BY <2>1, Zenon
  <2>3. QED
    BY <2>2 DEF R
<1>6. 0 \in 0..Farthest /\ \A n \in 1..Farthest : n \in 0..Farthest /\ n # 0
  BY NodesCounted
<1>7. QED
  BY <1>5, <1>6 DEF Hop

(* Rows are pairs of an id and an edge: those returned, those at a node,   *)
(* those that stay; and the ends of one.                                   *)
Drawn == EdgeRows(collected)
Ever(n) == OpenAt(EverThere, n)
Lasting(n) == OpenAt(AlwaysThere, n)
Reach == Within(EverThere)
Sure == Within(AlwaysThere)
Matching(n) == {r \in EverThere : EdgeMatches(Query(n), r[2])}
Ends(r) == {r[2].source, r[2].target}

WalkTypeOK ==
  /\ links \in versions
  /\ \A g \in versions : IsGraph(g)
  /\ sought \in [start : Nodes, query : Queries, limits : Limits,
                 permitted : PermittedLevels]
  /\ progress \in {"plan", "refused", "walk", "done"}
  /\ IsFiniteSet(DOMAIN collected)
  /\ DOMAIN visited \subseteq Nodes
  /\ \A n \in DOMAIN visited : visited[n] \in Nat
  /\ depth \in Nat
  /\ frontier \subseteq DOMAIN visited /\ upcoming \subseteq DOMAIN visited
  /\ pending \in Seq(EverThere)
  /\ expanding \in Nodes

Walked == progress \in {"walk", "done"}

(* Before it walks it has nothing.                                         *)
NotBegun ==
  ~Walked => /\ visited = [n \in {} |-> 0] /\ collected = [i \in {} |-> 0] /\ depth = 0
             /\ upcoming = {} /\ pending = <<>> /\ frontier = {}
             /\ truncated = {}

InBudget ==
  Walked => /\ Cardinality(DOMAIN visited) <= Limit.nodes
            /\ Cardinality(DOMAIN collected) <= Limit.edges
            /\ depth + 1 <= Limit.depth

(* Where the nodes are that were reached.                                  *)
Placed ==
  /\ \A n \in DOMAIN visited :
       visited[n] <= depth \/ (n \in upcoming /\ visited[n] = depth + 1)
  /\ \A n \in frontier : visited[n] = depth
  /\ \A n \in upcoming : visited[n] = depth + 1
  /\ pending # <<>> => /\ expanding \in DOMAIN visited \ frontier
                      /\ visited[expanding] = depth
  /\ \A k \in 1..Len(pending) : pending[k] \in Matching(expanding)

Joined == \A r \in Drawn : Ends(r) \subseteq DOMAIN visited

(* A depth is only gone down to with one more node: the depths stay below  *)
(* the number of nodes.                                                    *)
Grown ==
  Walked => /\ depth + 1 <= Cardinality(DOMAIN visited)
            /\ upcoming # {} => depth + 2 <= Cardinality(DOMAIN visited)

Led == \A n \in DOMAIN visited : n \in Reach[visited[n]]

(* While nothing was cut off: every node within the depth over rows that   *)
(* stay is reached, no later than that; what a node already expanded opens *)
(* to over those is kept, or is still to be looked at.                     *)
StillToCome(n, r) == n = expanding /\ \E k \in 1..Len(pending) : pending[k] = r

Exact ==
  Walked /\ truncated = {} =>
    /\ \A k \in 0..depth : \A n \in Sure[k] :
         n \in DOMAIN visited /\ visited[n] <= k
    /\ \A n \in DOMAIN visited \ frontier : visited[n] <= depth =>
         \A r \in Lasting(n) : r \in Drawn \/ StillToCome(n, r)

Opened == \A r \in Drawn : \E n \in DOMAIN visited : r \in Ever(n)

Ended ==
  WalkIsComplete => frontier = {} /\ upcoming = {} /\ pending = <<>>

WalkInv ==
  /\ WalkTypeOK /\ NotBegun /\ InBudget /\ Placed /\ Joined /\ Grown /\ Led
  /\ Exact /\ Opened /\ Ended

(* What the walk is over does not change but by an import.                 *)
LEMMA Unmoved ==
  ASSUME UNCHANGED <<versions, sought>>
  PROVE  /\ EverThere' = EverThere /\ AlwaysThere' = AlwaysThere
         /\ Reach' = Reach /\ Sure' = Sure /\ Limit' = Limit
         /\ \A n : /\ Ever(n)' = Ever(n) /\ Lasting(n)' = Lasting(n)
                  /\ Matching(n)' = Matching(n)
<1>1. EverThere' = EverThere /\ AlwaysThere' = AlwaysThere /\ Limit' = Limit
  BY DEF EverThere, AlwaysThere, Limit
<1>2. \A n : Matching(n)' = Matching(n)
  BY DEF Matching, EverThere, Query, EdgeMatches, About, AtNode, Selects,
         IncludesSource, IncludesTarget
<1>3. \A n : Ever(n)' = Ever(n) /\ Lasting(n)' = Lasting(n)
  BY DEF Ever, Lasting, OpenAt, EverThere, AlwaysThere, Query, EdgeMatches,
         About, Permits, AtNode, Selects, IncludesSource, IncludesTarget
<1>4. Reach' = Reach
  BY DEF Reach, Within, Beyond, OtherEnd, OpenAt, EverThere, Query
<1>5. Sure' = Sure
  BY DEF Sure, Within, Beyond, OtherEnd, OpenAt, EverThere, AlwaysThere, Query
<1>6. QED
  BY <1>1, <1>2, <1>3, <1>4, <1>5

LEMMA QueryFacts ==
  ASSUME WalkTypeOK, NEW n
  PROVE  Query(n).node = n /\ Query(n).direction = sought.query.direction
<1>1. DOMAIN sought.query = {"node", "direction", "kinds", "statuses"}
  BY WalkAssumption DEF WalkTypeOK
<1>2. QED
  BY <1>1 DEF Query, About

(* A row at a node joins it with the other end.                            *)
LEMMA EndsOfMatching ==
  ASSUME WalkTypeOK, NEW n, NEW r \in Matching(n)
  PROVE  Ends(r) = {n, OtherEnd(r[2], n)} /\ Ends(r) \subseteq Nodes
<1>1. AtNode(Query(n), r[2]) /\ r \in EverThere
  BY DEF Matching, EdgeMatches
<1>2. Ends(r) = {n, OtherEnd(r[2], n)}
  BY <1>1, QueryFacts DEF Ends, OtherEnd, AtNode
<1>3. PICK g \in versions : r \in EdgeRows(g)
  BY <1>1 DEF EverThere
<1>4. Ends(r) \subseteq Nodes
  <2>1. PICK i \in DOMAIN g : r = <<i, g[i]>>
    BY <1>3 DEF EdgeRows
  <2>2. QED
    BY <2>1 DEF Ends, WalkTypeOK, IsGraph
<1>5. QED
  BY <1>2, <1>4

LEMMA OpenMatches ==
  ASSUME NEW n
  PROVE  /\ Ever(n) = {r \in Matching(n) : Permits(sought.permitted, r[2].level)}
         /\ Lasting(n) = {r \in AlwaysThere : r \in Ever(n)}
  BY DEF Ever, Lasting, OpenAt, Matching, AlwaysThere

(* A row that stays is the only one there was of its id.                   *)
LEMMA SameRow ==
  ASSUME NEW r \in AlwaysThere, NEW row \in EverThere, r[1] = row[1]
  PROVE  r = row
<1>1. PICK g \in versions : row \in EdgeRows(g)
  BY DEF EverThere
<1>2. r \in EdgeRows(g)
  BY DEF AlwaysThere
<1>3. QED
  BY <1>1, <1>2 DEF EdgeRows

(* A read that has no row too many has every row.                          *)
Here(n) == {i \in DOMAIN links : EdgeMatches(Query(n), links[i])}

LEMMA RowsRead ==
  ASSUME WalkTypeOK, NEW n
  PROVE  LET found == EdgesAt(links, Query(n), ProbePage(Limit)) IN
         /\ found \in Seq(Here(n))
         /\ Len(found) <= FanOut(Limit) =>
              \A i \in Here(n) : \E k \in 1..Len(found) : found[k] = i
<1> DEFINE S == Here(n)
           rows == ById(S)
           page == ProbePage(Limit)
           found == Fetched(rows, page)
<1>1. EdgesAt(links, Query(n), ProbePage(Limit)) = found
  BY DEF EdgesAt, IdsMatching, Here
<1>2. Limit.fan_out \in Nat
  BY WalkAssumption DEF WalkTypeOK, Limit
<1>3. /\ page.limit = FanOut(Limit) + 1 /\ page.offset = 0
      /\ FanOut(Limit) \in Nat
  BY <1>2 DEF ProbePage, First, Page, FanOut, MaxFanOut, MaxLimit
<1>4. S \in SUBSET Nat /\ IsFiniteSet(S)
  <2>1. S \subseteq DOMAIN links
    BY DEF Here
  <2>2. DOMAIN links \subseteq Nat /\ IsFiniteSet(DOMAIN links)
    BY DEF WalkTypeOK, IsGraph
  <2> HIDE DEF S
  <2>3. QED
    BY <2>1, <2>2, FS_Subset
<1> HIDE DEF S, page
<1>5. /\ rows \in Seq(S) /\ Len(rows) = Cardinality(S)
      /\ Cardinality(S) \in Nat
      /\ \A i \in S : /\ RankIn(S, i) + 1 \in 1..Cardinality(S)
                     /\ rows[RankIn(S, i) + 1] = i
  BY <1>4, ByIdFacts
<1> HIDE DEF rows
<1>6. /\ found \in Seq(S)
      /\ Len(found) = IF FanOut(Limit) + 1 < Len(rows) THEN FanOut(Limit) + 1
                      ELSE Len(rows)
      /\ \A k \in 1..Len(found) : found[k] = rows[k]
  <2>1. page.limit \in Nat \ {0} /\ page.offset \in Nat
    BY <1>3
  <2>2. /\ Fetched(rows, page) \in Seq(S)
        /\ Len(Fetched(rows, page)) =
             IF page.offset >= Len(rows) THEN 0
             ELSE IF page.offset + page.limit < Len(rows)
             THEN page.limit ELSE Len(rows) - page.offset
        /\ \A k \in 1..Len(Fetched(rows, page)) :
             Fetched(rows, page)[k] = rows[page.offset + k]
    <3> HIDE DEF found
    <3>1. rows \in Seq(S)
      BY <1>5
    <3>2. QED
      BY <3>1, <2>1, FetchedFacts
  <2>3. page.offset + page.limit = FanOut(Limit) + 1
        /\ page.offset = 0 /\ page.limit = FanOut(Limit) + 1
    BY <1>3
  <2>4. /\ Len(found) = IF FanOut(Limit) + 1 < Len(rows) THEN FanOut(Limit) + 1
                        ELSE Len(rows)
    BY <1>3, <1>5, <2>2, <2>3
  <2>5. ASSUME NEW k \in 1..Len(found)
        PROVE  found[k] = rows[k]
    <3>1. found[k] = rows[0 + k] /\ k \in Int
      BY <2>2, <2>3
    <3>2. QED
      BY <3>1
  <2>6. QED
    BY <2>2, <2>4, <2>5
<1> HIDE DEF found
<1>7. ASSUME Len(found) <= FanOut(Limit)
      PROVE  \A i \in S : \E k \in 1..Len(found) : found[k] = i
  <2>1. Len(found) = Len(rows)
    BY <1>3, <1>5, <1>6, <1>7
  <2>2. QED
    BY <1>5, <1>6, <2>1
<1>8. QED
  BY <1>1, <1>6, <1>7 DEF S

(* As rows: rows of a version there was, and each row that stays.          *)
LEMMA RowsInHand ==
  ASSUME WalkTypeOK, NEW n
  PROVE  LET found == EdgesAt(links, Query(n), ProbePage(Limit))
             rows == [k \in DOMAIN found |-> <<found[k], links[found[k]]>>] IN
         /\ rows \in Seq(Matching(n)) /\ Len(rows) = Len(found)
         /\ Len(found) <= FanOut(Limit) =>
              \A r \in Lasting(n) : \E k \in 1..Len(rows) : rows[k] = r
<1> DEFINE found == EdgesAt(links, Query(n), ProbePage(Limit))
           rows == [k \in DOMAIN found |-> <<found[k], links[found[k]]>>]
<1>1. /\ found \in Seq(Here(n))
      /\ Len(found) <= FanOut(Limit) =>
           \A i \in Here(n) : \E k \in 1..Len(found) : found[k] = i
  BY RowsRead
<1> HIDE DEF found
<1>2. \A i \in Here(n) : <<i, links[i]>> \in Matching(n)
  BY DEF Here, Matching, EverThere, EdgeRows, WalkTypeOK
<1>3. /\ rows \in Seq(Matching(n)) /\ Len(rows) = Len(found)
      /\ \A k \in 1..Len(rows) : rows[k] = <<found[k], links[found[k]]>>
  <2>1. /\ DOMAIN found = 1..Len(found) /\ Len(found) \in Nat
        /\ \A k \in 1..Len(found) : found[k] \in Here(n)
    BY <1>1
  <2>2. \A k \in 1..Len(found) : <<found[k], links[found[k]]>> \in Matching(n)
    BY <1>2, <2>1
  <2>3. QED
    BY <2>1, <2>2
<1>4. ASSUME Len(found) <= FanOut(Limit), NEW r \in Lasting(n)
      PROVE  \E k \in 1..Len(rows) : rows[k] = r
  <2>1. r \in EdgeRows(links) /\ EdgeMatches(Query(n), r[2])
    BY DEF Lasting, OpenAt, AlwaysThere, WalkTypeOK
  <2>2. PICK i \in DOMAIN links : r = <<i, links[i]>>
    BY <2>1 DEF EdgeRows
  <2>3. i \in Here(n)
    BY <2>1, <2>2 DEF Here
  <2>4. PICK k \in 1..Len(found) : found[k] = i
    BY <1>1, <1>4, <2>3
  <2>5. QED
    BY <1>3, <2>2, <2>4
<1>5. QED
  BY <1>3, <1>4 DEF found

LEMMA NextRow ==
  ASSUME NEW S, NEW rows \in Seq(S), rows # <<>>
  PROVE  /\ Len(rows) \in Nat \ {0} /\ Head(rows) = rows[1] /\ rows[1] \in S
         /\ Tail(rows) \in Seq(S) /\ Len(Tail(rows)) = Len(rows) - 1
         /\ \A k \in 1..Len(Tail(rows)) : Tail(rows)[k] = rows[k + 1]
         /\ \A k \in 1..Len(rows) :
              k = 1 \/ (k - 1 \in 1..Len(Tail(rows))
                        /\ Tail(rows)[k - 1] = rows[k])
  OBVIOUS

-----------------------------------------------------------------------------
(* The invariant, action by action.                                        *)
LEMMA WalkInitSound == WalkInit => WalkInv
<1> SUFFICES ASSUME WalkInit PROVE WalkInv
  OBVIOUS
<1> USE DEF WalkInit
<1>0. IsFiniteSet(DOMAIN collected) /\ Drawn = {}
  <2>1. DOMAIN collected = {} /\ IsFiniteSet({})
    BY FS_EmptySet
  <2>2. QED
    BY <2>1 DEF Drawn, EdgeRows
<1>1. WalkTypeOK
  <2>1. links \in versions /\ \A g \in versions : IsGraph(g)
    BY WalkAssumption
  <2>2. pending \in Seq(EverThere)
    OBVIOUS
  <2>3. /\ DOMAIN visited \subseteq Nodes /\ depth \in Nat
        /\ \A n \in DOMAIN visited : visited[n] \in Nat
        /\ frontier \subseteq DOMAIN visited /\ upcoming \subseteq DOMAIN visited
    OBVIOUS
  <2>4. expanding \in Nodes
    OBVIOUS
  <2>5. QED
    BY <1>0, <2>1, <2>2, <2>3, <2>4 DEF WalkTypeOK
<1>2. NotBegun /\ InBudget /\ Grown /\ Exact /\ Ended
  BY DEF NotBegun, InBudget, Grown, Exact, Ended, Walked, WalkIsComplete,
         WalkAnswered
<1>3. Placed /\ Joined /\ Led /\ Opened
  BY <1>0 DEF Placed, Joined, Led, Opened
<1>4. QED
  BY <1>1, <1>2, <1>3 DEF WalkInv

LEMMA AnswerableHasRoom ==
  ASSUME WalkTypeOK, RefusedBy = None
  PROVE  1 <= Limit.depth /\ 1 <= Limit.nodes /\ 0 <= Limit.edges
<1>1. Limit.depth \in Nat /\ Limit.nodes \in Nat /\ Limit.edges \in Nat
  BY WalkAssumption DEF WalkTypeOK, Limit
<1>2. /\ None # "empty budget: depth" /\ None # "empty budget: nodes"
      /\ None # "empty budget: edges" /\ None # "empty budget: fan-out"
  BY WalkAssumption
<1>3. Limit.depth = 0 \/ Limit.nodes = 0 =>
        RefusedBy \in {"empty budget: depth", "empty budget: nodes",
                      "empty budget: edges", "empty budget: fan-out"}
  BY Zenon DEF RefusedBy
<1>4. Limit.depth # 0
  BY <1>2, <1>3
<1>5. Limit.nodes # 0
  BY <1>2, <1>3, <1>4
<1>6. QED
  BY <1>1, <1>4, <1>5

LEMMA RefuseKeeps ==
  ASSUME WalkInv, RefuseWalk
  PROVE  WalkInv'
<1> USE DEF WalkInv, RefuseWalk
<1>1. WalkTypeOK'
  BY Unmoved DEF WalkTypeOK
<1>2. ~Walked /\ ~Walked'
  BY DEF Walked
<1>3. NotBegun' /\ InBudget' /\ Grown' /\ Exact' /\ Ended'
  BY <1>2 DEF NotBegun, InBudget, Grown, Exact, Ended, WalkIsComplete,
         WalkAnswered
<1>4. visited = [n \in {} |-> 0] /\ collected = [i \in {} |-> 0] /\ pending = <<>>
      /\ frontier = {} /\ upcoming = {}
  BY <1>2 DEF NotBegun
<1>5. Drawn = {} /\ Drawn' = {}
  BY <1>4 DEF Drawn, EdgeRows
<1>6. Placed' /\ Joined' /\ Led' /\ Opened'
  BY <1>4, <1>5 DEF Placed, Joined, Led, Opened
<1>7. QED
  BY <1>1, <1>3, <1>6

LEMMA PrepareKeeps ==
  ASSUME WalkInv, Prepare
  PROVE  WalkInv'
<1> USE DEF WalkInv, Prepare
<1>1. /\ visited = [n \in {} |-> 0] /\ collected = [i \in {} |-> 0] /\ depth = 0
      /\ upcoming = {} /\ pending = <<>> /\ truncated = {}
  BY DEF NotBegun, Walked
<1>2. /\ DOMAIN collected' = {} /\ depth' = 0 /\ upcoming' = {} /\ pending' = <<>>
      /\ truncated' = {} /\ frontier' = {sought.start}
      /\ DOMAIN visited' = {sought.start}
      /\ visited'[sought.start] = 0 /\ progress' = "walk"
      /\ links' = links /\ versions' = versions /\ sought' = sought
      /\ Drawn' = {}
  BY <1>1 DEF Drawn, EdgeRows
<1>3. sought.start \in Nodes
  BY DEF WalkTypeOK
<1>4. WalkTypeOK'
  BY <1>2, <1>3, Unmoved DEF WalkTypeOK
<1>5. NotBegun' /\ Ended'
  BY <1>2 DEF NotBegun, Walked, Ended, WalkIsComplete, WalkAnswered
<1>6. Cardinality({sought.start}) = 1 /\ Cardinality({}) = 0
  BY FS_Singleton, FS_EmptySet
<1>7. Limit' = Limit /\ Reach' = Reach /\ Sure' = Sure
  BY Unmoved
<1>8. InBudget'
  BY <1>2, <1>6, <1>7, AnswerableHasRoom DEF InBudget
<1>9. Grown'
  BY <1>2, <1>6 DEF Grown
<1>10. Placed' /\ Joined' /\ Opened'
  BY <1>2 DEF Placed, Joined, Opened
<1>11. Reach[0] = {sought.start} /\ Sure[0] = {sought.start}
  BY WithinSteps DEF Reach, Sure
<1>12. Led'
  BY <1>2, <1>7, <1>11 DEF Led
<1>13. Exact'
  <2>1. \A k \in 0..depth' : k = 0
    BY <1>2
  <2>2. \A n \in DOMAIN visited' \ frontier' : FALSE
    BY <1>2
  <2>3. \A k \in 0..depth' : \A n \in Sure'[k] :
          n \in DOMAIN visited' /\ visited'[n] <= k
    BY <1>2, <1>7, <1>11, <2>1
  <2>4. QED
    BY <2>2, <2>3 DEF Exact
<1>14. QED
  BY <1>4, <1>5, <1>8, <1>9, <1>10, <1>12, <1>13

(* A step that moves nothing but the token, or only ends the walk.         *)
LEMMA StandingKeeps ==
  ASSUME WalkInv,
         UNCHANGED <<links, versions, sought, visited, collected, depth, frontier,
                     upcoming, pending, expanding>>,
         Walked' <=> Walked,
         progress' \in {"plan", "refused", "walk", "done"},
         truncated \subseteq truncated',
         ~Walked => truncated' = {},
         WalkIsComplete' => frontier = {} /\ upcoming = {} /\ pending = <<>>
  PROVE  WalkInv'
<1> USE DEF WalkInv
<1>1. WalkTypeOK'
  BY Unmoved DEF WalkTypeOK
<1>2. /\ Limit' = Limit /\ Reach' = Reach /\ Sure' = Sure
      /\ EverThere' = EverThere
      /\ \A n : /\ Ever(n)' = Ever(n) /\ Lasting(n)' = Lasting(n)
               /\ Matching(n)' = Matching(n)
      /\ Drawn' = Drawn
  BY Unmoved DEF Drawn, EdgeRows
<1>3. NotBegun' /\ InBudget' /\ Grown' /\ Led' /\ Ended'
  BY <1>2 DEF NotBegun, InBudget, Grown, Led, Ended
<1>4. Placed' /\ Joined'
  BY <1>2 DEF Placed, Joined
<1>5. Exact'
  BY <1>2 DEF Exact, StillToCome
<1>6. Opened'
  BY <1>2 DEF Opened
<1>7. QED
  BY <1>1, <1>3, <1>4, <1>5, <1>6

LEMMA StopKeeps ==
  ASSUME WalkInv, progress = "walk", NEW reason, Stop(reason)
  PROVE  WalkInv'
<1>1. truncated' # {} /\ truncated \subseteq truncated' /\ progress' = "done"
  BY DEF Stop
<1>2. Walked /\ Walked' /\ ~WalkIsComplete'
  BY <1>1 DEF Walked, WalkIsComplete
<1>3. QED
  BY <1>1, <1>2, StandingKeeps DEF Stop

LEMMA CancelKeeps ==
  ASSUME WalkInv, CancelWalk
  PROVE  WalkInv'
<1>1. (Walked' <=> Walked) /\ ~WalkIsComplete'
  BY DEF Walked, WalkIsComplete, WalkAnswered, CancelWalk
<1>2. /\ progress' \in {"plan", "refused", "walk", "done"}
      /\ truncated' = truncated
  BY DEF CancelWalk
<1>3. ~Walked => truncated' = {}
  BY <1>2 DEF WalkInv, NotBegun
<1>4. QED
  BY <1>1, <1>2, <1>3, StandingKeeps DEF CancelWalk

LEMMA FinishKeeps ==
  ASSUME WalkInv, Finish
  PROVE  WalkInv'
<1>1. progress = "walk" /\ progress' = "done" /\ truncated \subseteq truncated'
  BY DEF Finish, LevelDone
<1>2. Walked /\ Walked'
  BY <1>1 DEF Walked
<1>3. WalkIsComplete' => frontier = {} /\ upcoming = {} /\ pending = <<>>
  BY DEF Finish, LevelDone, WalkIsComplete
<1>4. QED
  BY <1>1, <1>2, <1>3, StandingKeeps DEF Finish

LEMMA WithholdKeeps ==
  ASSUME WalkInv, Withhold
  PROVE  WalkInv'
<1> USE DEF WalkInv
<1>1. /\ links' = links /\ versions' = versions /\ sought' = sought
      /\ visited' = visited
      /\ collected' = collected /\ truncated' = truncated /\ depth' = depth
      /\ frontier' = frontier /\ upcoming' = upcoming
      /\ expanding' = expanding /\ progress' = "walk" /\ progress = "walk"
      /\ pending # <<>> /\ pending' = Tail(pending)
      /\ ~Permits(sought.permitted, Head(pending)[2].level)
  BY DEF Withhold, Looking, Edge
<1>2. pending \in Seq(EverThere)
  BY DEF WalkTypeOK
<1>3. /\ Len(pending) \in Nat \ {0} /\ Head(pending) = pending[1]
      /\ pending' \in Seq(EverThere) /\ Len(pending') = Len(pending) - 1
      /\ \A k \in 1..Len(pending') : pending'[k] = pending[k + 1]
      /\ \A k \in 1..Len(pending) :
           k = 1 \/ (k - 1 \in 1..Len(pending')
                     /\ pending'[k - 1] = pending[k])
  BY <1>1, <1>2, NextRow
<1>5. /\ Limit' = Limit /\ Reach' = Reach /\ Sure' = Sure
      /\ \A n : /\ Ever(n)' = Ever(n) /\ Lasting(n)' = Lasting(n)
               /\ Matching(n)' = Matching(n)
      /\ EverThere' = EverThere /\ Drawn' = Drawn
  BY <1>1, Unmoved DEF Drawn, EdgeRows
<1>4. WalkTypeOK'
  BY <1>1, <1>3, <1>5 DEF WalkTypeOK
<1>6. Walked /\ Walked' /\ ~WalkIsComplete'
  BY <1>1 DEF Walked, WalkIsComplete, WalkAnswered
<1>7. NotBegun' /\ InBudget' /\ Grown' /\ Led' /\ Ended' /\ Joined'
  BY <1>1, <1>5, <1>6 DEF NotBegun, InBudget, Grown, Led, Ended, Joined
<1>8. Placed'
  <2>1. \A k \in 1..Len(pending') : k + 1 \in 1..Len(pending)
    BY <1>3
  <2>2. \A k \in 1..Len(pending') : pending'[k] \in Matching(expanding)
    BY <1>3, <2>1 DEF Placed
  <2>3. Matching(expanding)' = Matching(expanding)
    BY <1>1, <1>5
  <2>4. QED
    BY <1>1, <2>2, <2>3 DEF Placed
<1>9. Exact'
  <2> SUFFICES ASSUME truncated' = {}
               PROVE  Exact'
    BY DEF Exact
  <2>1. \A n : Head(pending) \notin Lasting(n)
    BY <1>1, OpenMatches
  <2>2. ASSUME NEW n, NEW r \in Lasting(n), StillToCome(n, r)
        PROVE  StillToCome(n, r)'
    <3>1. PICK k \in 1..Len(pending) : pending[k] = r
      BY <2>2 DEF StillToCome
    <3>2. k # 1
      BY <1>3, <2>1, <3>1
    <3>3. k - 1 \in 1..Len(pending') /\ pending'[k - 1] = r
      BY <1>3, <3>1, <3>2
    <3>4. QED
      BY <1>1, <2>2, <3>3 DEF StillToCome
  <2>3. QED
    BY <1>1, <1>5, <1>6, <2>2 DEF Exact
<1>10. Opened'
  BY <1>1, <1>5 DEF Opened
<1>11. QED
  BY <1>4, <1>7, <1>8, <1>9, <1>10

(* What a node opens to is all in hand, or the cut is noted.               *)
LEMMA ExpandKeeps ==
  ASSUME WalkInv, Expand
  PROVE  WalkInv'
<1> USE DEF WalkInv
<1>0. PICK e : e = Min(frontier)
  OBVIOUS
<1> DEFINE found == EdgesAt(links, Query(e), ProbePage(Limit))
           rows == [k \in DOMAIN found |-> <<found[k], links[found[k]]>>]
           most == FanOut(Limit)
<1>1. /\ links' = links /\ versions' = versions /\ sought' = sought
      /\ visited' = visited
      /\ collected' = collected /\ depth' = depth /\ upcoming' = upcoming
      /\ progress' = "walk" /\ progress = "walk" /\ pending = <<>>
      /\ frontier # {} /\ expanding' = e /\ frontier' = frontier \ {e}
      /\ pending' = SubSeq(rows, 1, IF Len(found) > most THEN most
                                    ELSE Len(found))
      /\ truncated' = IF Len(found) > most
                      THEN truncated \union {"fan_out"} ELSE truncated
  BY <1>0 DEF Expand, Pausing
<1>2. e \in frontier
  <2>1. frontier \in SUBSET Nat
    BY WalkAssumption DEF WalkTypeOK
  <2>2. \E n \in frontier : \A m \in frontier : n <= m
    BY <1>1, <2>1, LeastNumber
  <2>3. QED
    BY <1>0, <2>2 DEF Min
<1>3. /\ rows \in Seq(Matching(e)) /\ Len(rows) = Len(found)
      /\ Len(found) <= most =>
           \A r \in Lasting(e) : \E k \in 1..Len(rows) : rows[k] = r
  BY RowsInHand
<1>4. most \in Nat
  <2>1. Limit.fan_out \in Nat
    BY WalkAssumption DEF WalkTypeOK, Limit
  <2>2. QED
    BY <2>1 DEF FanOut, MaxFanOut, MaxLimit
<1>5. Matching(e) \subseteq EverThere
  BY DEF Matching
<1> HIDE DEF found, rows, most
<1>6. /\ pending' \in Seq(Matching(e))
      /\ \A k \in 1..Len(pending') : pending'[k] \in Matching(e)
      /\ Len(found) <= most => pending' = rows
  <2>1. Len(found) \in Nat
    BY <1>3
  <2>2. CASE Len(found) > most
    BY <1>1, <1>3, <1>4, <2>1, <2>2
  <2>3. CASE ~(Len(found) > most)
    <3>1. pending' = SubSeq(rows, 1, Len(found))
      BY <1>1, <2>3
    <3>2. SubSeq(rows, 1, Len(found)) = rows
      BY <1>3
    <3>3. QED
      BY <1>3, <3>1, <3>2
  <2>4. QED
    BY <2>2, <2>3
<1>7. e \in DOMAIN visited /\ e \in Nodes /\ visited[e] = depth
  BY <1>2 DEF WalkTypeOK, Placed
<1>8. pending' \in Seq(EverThere)
  BY <1>5, <1>6
<1>10. /\ Limit' = Limit /\ Reach' = Reach /\ Sure' = Sure
       /\ \A n : /\ Ever(n)' = Ever(n) /\ Lasting(n)' = Lasting(n)
                /\ Matching(n)' = Matching(n)
       /\ EverThere' = EverThere /\ Drawn' = Drawn
  BY <1>1, Unmoved DEF Drawn, EdgeRows
<1>9. WalkTypeOK'
  BY <1>1, <1>7, <1>8, <1>10 DEF WalkTypeOK
<1>11. Walked /\ Walked' /\ ~WalkIsComplete'
  BY <1>1 DEF Walked, WalkIsComplete, WalkAnswered
<1>12. NotBegun' /\ InBudget' /\ Grown' /\ Led' /\ Ended' /\ Joined'
  BY <1>1, <1>10, <1>11 DEF NotBegun, InBudget, Grown, Led, Ended, Joined
<1>13. Placed'
  <2>1. Matching(expanding)' = Matching(e)
    BY <1>1, <1>10
  <2>2. QED
    BY <1>1, <1>6, <1>7, <2>1 DEF Placed
<1>14. Exact'
  <2> SUFFICES ASSUME truncated' = {}
               PROVE  Exact'
    BY DEF Exact
  <2>1. truncated = {} /\ ~(Len(found) > most)
    BY <1>1
  <2>2. Len(found) <= most
    BY <1>3, <1>4, <2>1
  <2>3. \A r \in Lasting(e) : StillToCome(e, r)'
    <3>1. \A r \in Lasting(e) : \E k \in 1..Len(pending') : pending'[k] = r
      BY <1>3, <1>6, <2>2
    <3>2. QED
      BY <1>1, <3>1 DEF StillToCome
  <2>4. \A n, r : ~StillToCome(n, r)
    BY <1>1 DEF StillToCome
  <2>5. \A n \in DOMAIN visited \ frontier : visited[n] <= depth =>
          \A r \in Lasting(n) : r \in Drawn
    BY <1>11, <2>1, <2>4 DEF Exact
  <2>6. \A n \in DOMAIN visited \ (frontier \ {e}) :
          n = e \/ n \in DOMAIN visited \ frontier
    OBVIOUS
  <2>7. \A n \in DOMAIN visited \ (frontier \ {e}) : visited[n] <= depth =>
          \A r \in Lasting(n) : r \in Drawn \/ StillToCome(n, r)'
    BY <2>3, <2>5, <2>6
  <2>8. \A k \in 0..depth : \A n \in Sure[k] :
          n \in DOMAIN visited /\ visited[n] <= k
    BY <1>11, <2>1 DEF Exact
  <2>9. QED
    BY <1>1, <1>10, <2>7, <2>8 DEF Exact
<1>15. Opened'
  BY <1>1, <1>10 DEF Opened
<1>16. QED
  BY <1>9, <1>12, <1>13, <1>14, <1>15

(* With a level looked through, what is one crossing further is reached.   *)
LEMMA DeepenKeeps ==
  ASSUME WalkInv, Deepen
  PROVE  WalkInv'
<1> USE DEF WalkInv
<1>1. /\ links' = links /\ versions' = versions /\ sought' = sought
      /\ visited' = visited
      /\ collected' = collected /\ depth' = depth + 1 /\ upcoming' = {}
      /\ progress' = "walk" /\ progress = "walk" /\ pending = <<>>
      /\ pending' = <<>> /\ frontier = {} /\ upcoming # {}
      /\ frontier' = upcoming /\ expanding' = expanding
      /\ truncated' = truncated /\ depth + 1 < Limit.depth
  BY DEF Deepen, LevelDone
<1>2. depth \in Nat /\ \A n \in DOMAIN visited : visited[n] \in Nat
  BY DEF WalkTypeOK
<1>4. /\ Limit' = Limit /\ Reach' = Reach /\ Sure' = Sure
      /\ \A n : /\ Ever(n)' = Ever(n) /\ Lasting(n)' = Lasting(n)
               /\ Matching(n)' = Matching(n)
      /\ EverThere' = EverThere /\ Drawn' = Drawn
  BY <1>1, Unmoved DEF Drawn, EdgeRows
<1>3. WalkTypeOK'
  BY <1>1, <1>4 DEF WalkTypeOK
<1>5. Walked /\ Walked' /\ ~WalkIsComplete'
  BY <1>1 DEF Walked, WalkIsComplete, WalkAnswered
<1>6. NotBegun' /\ Led' /\ Ended' /\ Joined' /\ Opened'
  BY <1>1, <1>4, <1>5 DEF NotBegun, Led, Ended, Joined, Opened
<1>7. Limit.depth \in Nat
  BY WalkAssumption DEF WalkTypeOK, Limit
<1>8. InBudget'
  BY <1>1, <1>2, <1>4, <1>5, <1>7 DEF InBudget
<1>9. /\ DOMAIN visited \in SUBSET Nodes
      /\ Cardinality(DOMAIN visited) \in Nat
      /\ Cardinality(DOMAIN visited) <= Farthest /\ Farthest \in Nat
  BY NodesCounted DEF WalkTypeOK
<1>10. depth + 2 <= Cardinality(DOMAIN visited)
  BY <1>1, <1>5 DEF Grown
<1>11. Grown'
  BY <1>1, <1>2, <1>5, <1>9, <1>10 DEF Grown
<1>12. \A n \in DOMAIN visited : visited[n] <= depth + 1
  BY <1>2 DEF Placed
<1>13. Placed'
  <2>1. \A n \in DOMAIN visited : visited[n] <= depth \/ n \in upcoming
    BY DEF Placed
  <2>2. \A n \in upcoming : visited[n] = depth + 1
    BY DEF Placed
  <2>3. Len(<<>>) = 0
    OBVIOUS
  <2>4. QED
    BY <1>1, <1>12, <2>2, <2>3 DEF Placed
<1>14. Exact'
  <2> SUFFICES ASSUME truncated = {}
               PROVE  Exact'
    BY <1>1 DEF Exact
  <2>1. \A k \in 0..depth : \A n \in Sure[k] :
          n \in DOMAIN visited /\ visited[n] <= k
    BY <1>5 DEF Exact
  <2>2. \A n \in DOMAIN visited : visited[n] <= depth =>
          \A r \in Lasting(n) : r \in Drawn
    <3>1. \A n, r : ~StillToCome(n, r)
      BY <1>1 DEF StillToCome
    <3>2. QED
      BY <1>1, <1>5, <3>1 DEF Exact
  <2>3. \A n \in Sure[depth + 1] : n \in DOMAIN visited
    <3>1. /\ depth + 1 \in 1..Farthest /\ (depth + 1) - 1 = depth
          /\ depth \in 0..depth
      BY <1>2, <1>9, <1>10
    <3>2. Sure[depth + 1] =
            Sure[depth]
              \union UNION {Beyond(AlwaysThere, m) : m \in Sure[depth]}
      BY <3>1, WithinSteps DEF Sure
    <3>3. ASSUME NEW m \in Sure[depth], NEW n \in Beyond(AlwaysThere, m)
          PROVE  n \in DOMAIN visited
      <4>1. PICK r \in Lasting(m) : n = OtherEnd(r[2], m)
        BY DEF Beyond, Lasting
      <4>2. r \in Drawn
        BY <2>1, <2>2, <3>1
      <4>3. r \in Matching(m)
        BY OpenMatches
      <4>4. n \in Ends(r)
        BY <4>1, <4>3, EndsOfMatching
      <4>5. QED
        BY <4>2, <4>4 DEF Joined
    <3>4. QED
      BY <2>1, <3>1, <3>2, <3>3
  <2>4. \A k \in 0..(depth + 1) : \A n \in Sure[k] :
          n \in DOMAIN visited /\ visited[n] <= k
    <3> TAKE k \in 0..(depth + 1)
    <3>1. CASE k = depth + 1
      BY <1>12, <2>3, <3>1
    <3>2. CASE k # depth + 1
      <4>1. k \in 0..depth
        BY <1>2, <3>2
      <4>2. QED
        BY <2>1, <4>1
    <3>3. QED
      BY <3>1, <3>2
  <2>5. \A n \in DOMAIN visited \ upcoming : visited[n] <= depth
    BY DEF Placed
  <2>6. QED
    BY <1>1, <1>4, <2>2, <2>4, <2>5 DEF Exact
<1>15. QED
  BY <1>3, <1>6, <1>8, <1>11, <1>13, <1>14

(* An edge is collected with its far end, which is one crossing from a     *)
(* node of this depth.                                                     *)
LEMMA CollectKeeps ==
  ASSUME WalkInv, Collect
  PROVE  WalkInv'
<1> USE DEF WalkInv
<1>0. PICK row, far : row = Head(pending) /\ far = OtherEnd(row[2], expanding)
  OBVIOUS
<1>1. /\ links' = links /\ versions' = versions /\ sought' = sought
      /\ truncated' = truncated
      /\ depth' = depth /\ frontier' = frontier /\ expanding' = expanding
      /\ progress' = "walk" /\ progress = "walk"
      /\ pending # <<>> /\ pending' = Tail(pending)
      /\ collected' = [i \in DOMAIN collected \union {row[1]} |->
                         IF i = row[1] THEN row[2] ELSE collected[i]]
      /\ DOMAIN visited' = DOMAIN visited \union {far}
      /\ \A n \in DOMAIN visited' :
           visited'[n] = IF n \in DOMAIN visited THEN visited[n] ELSE depth + 1
      /\ upcoming' = IF far \in DOMAIN visited THEN upcoming
                     ELSE upcoming \union {far}
  BY <1>0 DEF Collect, Returning, Looking, Far, Edge, EdgeId
<1>2. /\ Permits(sought.permitted, row[2].level)
      /\ row[1] \in DOMAIN collected
         \/ ~(Cardinality(DOMAIN collected) >= Limit.edges)
      /\ far \in DOMAIN visited
         \/ ~(Cardinality(DOMAIN visited) >= Limit.nodes)
  BY <1>0 DEF Collect, Returning, OverEdges, OverNodes, Edge, EdgeId,
              Far
<1>3. pending \in Seq(EverThere)
  BY DEF WalkTypeOK
<1>4. /\ Len(pending) \in Nat \ {0} /\ row = pending[1]
      /\ pending' \in Seq(EverThere) /\ Len(pending') = Len(pending) - 1
      /\ \A k \in 1..Len(pending') : pending'[k] = pending[k + 1]
      /\ \A k \in 1..Len(pending) :
           k = 1 \/ (k - 1 \in 1..Len(pending')
                     /\ pending'[k - 1] = pending[k])
  BY <1>0, <1>1, <1>3, NextRow
<1>5. /\ row \in Matching(expanding) /\ expanding \in DOMAIN visited \ frontier
      /\ visited[expanding] = depth /\ row \in EverThere
  BY <1>1, <1>4 DEF Placed, Matching
<1>6. row \in Ever(expanding)
  BY <1>2, <1>5, OpenMatches
<1>7. /\ Ends(row) = {expanding, far} /\ Ends(row) \subseteq Nodes
      /\ far \in Beyond(EverThere, expanding)
  BY <1>0, <1>5, <1>6, EndsOfMatching DEF Beyond, Ever
<1>8. depth \in Nat /\ \A n \in DOMAIN visited : visited[n] \in Nat
  BY DEF WalkTypeOK
<1>9. WalkTypeOK'
  <2>1. IsFiniteSet(DOMAIN collected')
    <3>1. DOMAIN collected' = DOMAIN collected \union {row[1]}
      BY <1>1
    <3>2. IsFiniteSet(DOMAIN collected)
      BY DEF WalkTypeOK
    <3>3. QED
      BY <3>1, <3>2, FS_AddElement
  <2>2. DOMAIN visited' \subseteq Nodes
    BY <1>1, <1>7 DEF WalkTypeOK
  <2>3. \A n \in DOMAIN visited' : visited'[n] \in Nat
    BY <1>1, <1>8
  <2>4. /\ frontier' \subseteq DOMAIN visited'
        /\ upcoming' \subseteq DOMAIN visited'
    BY <1>1 DEF WalkTypeOK
  <2>5. QED
    BY <1>1, <1>4, <2>1, <2>2, <2>3, <2>4, Unmoved DEF WalkTypeOK
<1>10. /\ Limit' = Limit /\ Reach' = Reach /\ Sure' = Sure
       /\ \A n : /\ Ever(n)' = Ever(n) /\ Lasting(n)' = Lasting(n)
                /\ Matching(n)' = Matching(n)
  BY <1>1, Unmoved
<1>11. /\ row \in Drawn' /\ \A r \in Drawn' : r \in Drawn \/ r = row
       /\ \A r \in Drawn : r[1] # row[1] => r \in Drawn'
  <2>1. row = <<row[1], row[2]>>
    BY <1>5 DEF EverThere, EdgeRows
  <2> DEFINE held == collected
             next == [i \in DOMAIN held \union {row[1]} |->
                        IF i = row[1] THEN row[2] ELSE held[i]]
  <2>2. Drawn' = {<<i, next[i]>> : i \in DOMAIN next}
    BY <1>1 DEF Drawn, EdgeRows
  <2>3. Drawn = {<<i, held[i]>> : i \in DOMAIN held}
    BY DEF Drawn, EdgeRows
  <2>4. /\ DOMAIN next = DOMAIN held \union {row[1]} /\ next[row[1]] = row[2]
        /\ \A i \in DOMAIN held : i # row[1] => next[i] = held[i]
    OBVIOUS
  <2> HIDE DEF held, next
  <2>5. row \in Drawn'
    BY <2>1, <2>2, <2>4
  <2>6. ASSUME NEW r \in Drawn'
        PROVE  r \in Drawn \/ r = row
    <3>1. PICK i \in DOMAIN next : r = <<i, next[i]>>
      BY <2>2
    <3>2. CASE i = row[1]
      BY <2>1, <2>4, <3>1, <3>2
    <3>3. CASE i # row[1]
      BY <2>3, <2>4, <3>1, <3>3
    <3>4. QED
      BY <3>2, <3>3
  <2>7. ASSUME NEW r \in Drawn, r[1] # row[1]
        PROVE  r \in Drawn'
    <3>1. PICK i \in DOMAIN held : r = <<i, held[i]>>
      BY <2>3
    <3>2. i # row[1] /\ next[i] = held[i] /\ i \in DOMAIN next
      BY <2>4, <2>7, <3>1
    <3>3. QED
      BY <2>2, <3>1, <3>2
  <2>8. QED
    BY <2>5, <2>6, <2>7
<1>12. Walked /\ Walked' /\ ~WalkIsComplete'
  BY <1>1 DEF Walked, WalkIsComplete, WalkAnswered
<1>13. NotBegun' /\ Ended'
  BY <1>12 DEF NotBegun, Ended
<1>14. /\ IsFiniteSet(DOMAIN visited) /\ Cardinality(DOMAIN visited) \in Nat
       /\ IsFiniteSet(DOMAIN visited') /\ Cardinality(DOMAIN visited') \in Nat
       /\ Cardinality(DOMAIN visited') <= Farthest /\ Farthest \in Nat
  BY <1>9, NodesCounted DEF WalkTypeOK
<1>15. Cardinality(DOMAIN visited') =
         IF far \in DOMAIN visited THEN Cardinality(DOMAIN visited)
         ELSE Cardinality(DOMAIN visited) + 1
  BY <1>1, <1>14, FS_AddElement
<1>16. InBudget'
  <2>1. IsFiniteSet(DOMAIN collected)
    BY DEF WalkTypeOK
  <2>2. DOMAIN collected' = DOMAIN collected \union {row[1]}
    BY <1>1
  <2>3. /\ Cardinality(DOMAIN collected) \in Nat
        /\ Cardinality(DOMAIN collected') = IF row[1] \in DOMAIN collected
                                            THEN Cardinality(DOMAIN collected)
                                            ELSE Cardinality(DOMAIN collected) + 1
    BY <2>1, <2>2, FS_AddElement, FS_CardinalityType
  <2>4. Limit.edges \in Nat /\ Limit.nodes \in Nat
    BY WalkAssumption DEF WalkTypeOK, Limit
  <2>5. Cardinality(DOMAIN collected') <= Limit.edges
    BY <1>2, <1>12, <2>3, <2>4 DEF InBudget
  <2>6. Cardinality(DOMAIN visited') <= Limit.nodes
    BY <1>2, <1>12, <1>14, <1>15, <2>4 DEF InBudget
  <2>7. QED
    BY <1>1, <1>10, <1>12, <2>5, <2>6 DEF InBudget
<1>17. Grown'
  BY <1>1, <1>8, <1>12, <1>14, <1>15 DEF Grown
<1>18. Placed'
  <2>1. Matching(expanding)' = Matching(expanding)
    BY <1>1, <1>10
  <2>2. \A k \in 1..Len(pending') : pending'[k] \in Matching(expanding)
    <3>1. \A k \in 1..Len(pending') : k + 1 \in 1..Len(pending)
      BY <1>4
    <3>2. QED
      BY <1>4, <3>1 DEF Placed
  <2>3. \A n \in DOMAIN visited' :
          visited'[n] <= depth \/ (n \in upcoming' /\ visited'[n] = depth + 1)
    BY <1>1 DEF Placed
  <2>4. \A n \in frontier : visited'[n] = depth
    BY <1>1 DEF Placed, WalkTypeOK
  <2>5. \A n \in upcoming' : visited'[n] = depth + 1
    BY <1>1 DEF Placed, WalkTypeOK
  <2>6. visited'[expanding] = depth /\ expanding \in DOMAIN visited' \ frontier
    BY <1>1, <1>5
  <2>7. QED
    BY <1>1, <2>1, <2>2, <2>3, <2>4, <2>5, <2>6 DEF Placed
<1>19. Joined'
  <2>1. Ends(row) \subseteq DOMAIN visited'
    BY <1>1, <1>5, <1>7
  <2>2. \A r \in Drawn : Ends(r) \subseteq DOMAIN visited'
    BY <1>1 DEF Joined
  <2>3. \A r \in Drawn' : Ends(r) \subseteq DOMAIN visited'
    BY <1>11, <2>1, <2>2
  <2>4. QED
    BY <2>3 DEF Joined
<1>20. Led'
  <2>1. \A n \in DOMAIN visited : n \in Reach[visited'[n]]
    BY <1>1 DEF Led
  <2>2. ASSUME far \notin DOMAIN visited
        PROVE  far \in Reach[visited'[far]]
    <3>1. depth + 1 \in 1..Farthest /\ (depth + 1) - 1 = depth
      BY <1>8, <1>12, <1>14, <1>15, <2>2 DEF Grown
    <3>2. Reach[depth + 1] =
            Reach[depth]
              \union UNION {Beyond(EverThere, m) : m \in Reach[depth]}
      BY <3>1, WithinSteps DEF Reach
    <3>3. expanding \in Reach[depth]
      BY <1>5 DEF Led
    <3>4. visited'[far] = depth + 1
      BY <1>1, <2>2
    <3>5. QED
      BY <1>7, <3>2, <3>3, <3>4
  <2>3. \A n \in DOMAIN visited' : n \in Reach'[visited'[n]]
    BY <1>1, <1>10, <2>1, <2>2
  <2>4. QED
    BY <2>3 DEF Led
<1>21. Opened'
  <2>1. \A r \in Drawn : \E n \in DOMAIN visited : r \in Ever(n)
    BY DEF Opened
  <2>2. \A r \in Drawn' : \E n \in DOMAIN visited' : r \in Ever(n)
    BY <1>1, <1>5, <1>6, <1>11, <2>1
  <2>3. QED
    BY <1>10, <2>2 DEF Opened
<1>22. Exact'
  <2> SUFFICES ASSUME truncated = {}
               PROVE  Exact'
    BY <1>1 DEF Exact
  <2>1. \A k \in 0..depth : \A n \in Sure[k] :
          n \in DOMAIN visited' /\ visited'[n] <= k
    BY <1>1, <1>12 DEF Exact
  <2>2. ASSUME NEW n, NEW r, StillToCome(n, r), r # row
        PROVE  StillToCome(n, r)'
    <3>1. PICK place \in 1..Len(pending) : pending[place] = r
      BY <2>2 DEF StillToCome
    <3>2. place # 1
      BY <1>4, <2>2, <3>1
    <3>3. place - 1 \in 1..Len(pending') /\ pending'[place - 1] = r
      BY <1>4, <3>1, <3>2
    <3>4. QED
      BY <1>1, <2>2, <3>3 DEF StillToCome
  <2>3. ASSUME NEW n \in DOMAIN visited' \ frontier, visited'[n] <= depth
        PROVE  \A r \in Lasting(n) : r \in Drawn' \/ StillToCome(n, r)'
    <3>1. n \in DOMAIN visited \ frontier /\ visited[n] <= depth
      BY <1>1, <1>8, <2>3
    <3>2. \A r \in Lasting(n) : r \in Drawn \/ StillToCome(n, r)
      BY <1>12, <3>1 DEF Exact
    <3>3. ASSUME NEW r \in Lasting(n), r # row
          PROVE  r[1] # row[1]
      BY <1>5, <3>3, SameRow, OpenMatches
    <3>4. QED
      BY <1>11, <2>2, <3>2, <3>3
  <2>4. QED
    BY <1>1, <1>10, <2>1, <2>3 DEF Exact
<1>23. QED
  BY <1>9, <1>13, <1>16, <1>17, <1>18, <1>19, <1>20, <1>21, <1>22

(* No node is further than there are nodes.                                *)
LEMMA DepthsCounted ==
  ASSUME WalkInv, Walked
  PROVE  /\ depth \in Nat /\ depth <= Farthest /\ Farthest \in Nat
         /\ \A n \in DOMAIN visited : visited[n] \in 0..Farthest
                                      /\ visited[n] <= depth + 1
<1> USE DEF WalkInv
<1>1. /\ DOMAIN visited \in SUBSET Nodes
      /\ Cardinality(DOMAIN visited) \in Nat
      /\ Cardinality(DOMAIN visited) <= Farthest /\ Farthest \in Nat
  BY NodesCounted DEF WalkTypeOK
<1>2. depth \in Nat /\ depth <= Farthest
  BY <1>1 DEF Grown, WalkTypeOK
<1>3. ASSUME NEW n \in DOMAIN visited
      PROVE  visited[n] \in 0..Farthest /\ visited[n] <= depth + 1
  <2>1. visited[n] \in Nat /\ depth \in Nat
    BY DEF WalkTypeOK
  <2>2. CASE visited[n] <= depth
    BY <1>1, <2>1, <2>2 DEF Grown
  <2>3. CASE n \in upcoming /\ visited[n] = depth + 1
    BY <1>1, <2>1, <2>3 DEF Grown
  <2>4. QED
    BY <2>2, <2>3 DEF Placed
<1>4. QED
  BY <1>1, <1>2, <1>3

(* Over more rows no less is within reach.                                 *)
LEMMA WithinMore ==
  ASSUME NEW rows, NEW more, rows \subseteq more
  PROVE  \A k \in 0..Farthest : Within(rows)[k] \subseteq Within(more)[k]
<1> DEFINE few == Within(rows)
           many == Within(more)
           S == {k \in Nat : k <= Farthest => few[k] \subseteq many[k]}
<1>1. \A m : Beyond(rows, m) \subseteq Beyond(more, m)
  BY DEF Beyond, OpenAt
<1>2. few[0] = {sought.start} /\ many[0] = {sought.start}
  BY WithinSteps
<1>3. \A n \in 1..Farthest :
        /\ few[n] = few[n - 1] \union UNION {Beyond(rows, m) : m \in few[n - 1]}
        /\ many[n] = many[n - 1]
                       \union UNION {Beyond(more, m) : m \in many[n - 1]}
  BY WithinSteps
<1> HIDE DEF few, many
<1>4. 0 \in S
  BY <1>2
<1>5. ASSUME NEW k \in Nat, k \in S
      PROVE  k + 1 \in S
  <2> SUFFICES ASSUME k + 1 <= Farthest
               PROVE  few[k + 1] \subseteq many[k + 1]
    OBVIOUS
  <2>1. k + 1 \in 1..Farthest /\ (k + 1) - 1 = k /\ k <= Farthest
    BY NodesCounted
  <2>2. few[k] \subseteq many[k]
    BY <1>5, <2>1
  <2>3. /\ few[k + 1] = few[k] \union UNION {Beyond(rows, m) : m \in few[k]}
        /\ many[k + 1] = many[k] \union UNION {Beyond(more, m) : m \in many[k]}
    BY <1>3, <2>1
  <2>4. QED
    BY <1>1, <2>2, <2>3
<1>6. Nat \subseteq S
  <2> HIDE DEF S
  <2>1. QED
    BY <1>4, <1>5, InductionBySet
<1>7. \A k \in 0..Farthest : k \in Nat /\ k <= Farthest
  BY NodesCounted
<1>8. QED
  BY <1>6, <1>7 DEF few, many

(* After an import there are more rows that were there at some time, and   *)
(* no more that stay.                                                      *)
LEMMA ImportKeeps ==
  ASSUME WalkInv, ImportElsewhere
  PROVE  WalkInv'
<1> USE DEF WalkInv
<1>1. PICK rows \in Imports :
        links' = [i \in DOMAIN links \union DOMAIN rows |->
                    IF i \in DOMAIN rows THEN rows[i] ELSE links[i]]
  BY DEF ImportElsewhere
<1>2. /\ versions' = versions \union {links'} /\ sought' = sought
      /\ progress' = "walk" /\ progress = "walk" /\ pending = <<>>
      /\ pending' = <<>> /\ visited' = visited /\ collected' = collected
      /\ truncated' = truncated /\ depth' = depth /\ frontier' = frontier
      /\ upcoming' = upcoming /\ expanding' = expanding
  BY DEF ImportElsewhere, Pausing
<1>3. IsGraph(links')
  <2>1. IsGraph(links) /\ IsGraph(rows)
    BY WalkAssumption DEF WalkTypeOK
  <2>2. PICK g : g = links'
    OBVIOUS
  <2>3. DOMAIN g = DOMAIN links \union DOMAIN rows
        /\ \A i \in DOMAIN g :
             g[i] = IF i \in DOMAIN rows THEN rows[i] ELSE links[i]
    BY <1>1, <2>2
  <2>4. IsFiniteSet(DOMAIN g)
    BY <2>1, <2>3, FS_Union DEF IsGraph
  <2>5. IsGraph(g)
    BY <2>1, <2>3, <2>4 DEF IsGraph
  <2>6. QED
    BY <2>2, <2>5
<1>4. EverThere \subseteq EverThere' /\ AlwaysThere' \subseteq AlwaysThere
  <2>1. EverThere \subseteq EverThere'
    BY <1>2 DEF EverThere
  <2>2. ASSUME NEW r \in AlwaysThere'
        PROVE  r \in AlwaysThere
    <3>1. \A g \in versions : r \in EdgeRows(g)
      BY <1>2 DEF AlwaysThere
    <3>2. r \in EverThere
      BY <3>1 DEF EverThere, WalkTypeOK
    <3>3. QED
      BY <3>1, <3>2 DEF AlwaysThere
  <2>3. QED
    BY <2>1, <2>2
<1>5. WalkTypeOK'
  <2>1. pending' \in Seq(EverThere')
    BY <1>2
  <2>2. QED
    BY <1>2, <1>3, <2>1 DEF WalkTypeOK
<1>6. \A n : /\ Ever(n) \subseteq Ever(n)' /\ Lasting(n)' \subseteq Lasting(n)
             /\ Matching(n) \subseteq Matching(n)'
  <2>1. PICK ever, always : ever = EverThere' /\ always = AlwaysThere'
    OBVIOUS
  <2>2. \A n : /\ Ever(n)' = OpenAt(ever, n) /\ Lasting(n)' = OpenAt(always, n)
    BY <1>2, <2>1 DEF Ever, Lasting, OpenAt, Query, EdgeMatches, About, Permits,
         AtNode, Selects, IncludesSource, IncludesTarget
  <2>3. \A n : Matching(n)' = {r \in ever : EdgeMatches(Query(n), r[2])}
    BY <1>2, <2>1 DEF Matching, Query, EdgeMatches, About, AtNode, Selects,
         IncludesSource, IncludesTarget
  <2>4. EverThere \subseteq ever /\ always \subseteq AlwaysThere
    BY <1>4, <2>1
  <2>5. \A n : OpenAt(EverThere, n) \subseteq OpenAt(ever, n)
               /\ OpenAt(always, n) \subseteq OpenAt(AlwaysThere, n)
    BY <2>4 DEF OpenAt
  <2>6. \A n : Matching(n) \subseteq {r \in ever : EdgeMatches(Query(n), r[2])}
    BY <2>4 DEF Matching
  <2>7. QED
    BY <2>2, <2>3, <2>5, <2>6 DEF Ever, Lasting
<1>7. \A k \in 0..Farthest : Reach[k] \subseteq Reach'[k] /\ Sure'[k] \subseteq Sure[k]
  <2>1. PICK ever, always : ever = EverThere' /\ always = AlwaysThere'
    OBVIOUS
  <2>2. Reach' = Within(ever)
    BY <1>2, <2>1 DEF Reach, Within, Beyond, OtherEnd, OpenAt, Query
  <2>3. Sure' = Within(always)
    BY <1>2, <2>1 DEF Sure, Within, Beyond, OtherEnd, OpenAt, Query
  <2>4. EverThere \subseteq ever /\ always \subseteq AlwaysThere
    BY <1>4, <2>1
  <2>5. /\ \A k \in 0..Farthest : Within(EverThere)[k] \subseteq Within(ever)[k]
        /\ \A k \in 0..Farthest : Within(always)[k] \subseteq Within(AlwaysThere)[k]
    BY <2>4, WithinMore
  <2>6. QED
    BY <2>2, <2>3, <2>5 DEF Reach, Sure
<1>8. Walked /\ Walked' /\ ~WalkIsComplete'
  BY <1>2 DEF Walked, WalkIsComplete, WalkAnswered
<1>9. Drawn' = Drawn /\ Limit' = Limit
  BY <1>2 DEF Drawn, EdgeRows, Limit
<1>10. NotBegun' /\ InBudget' /\ Grown' /\ Joined' /\ Ended'
  BY <1>2, <1>8, <1>9 DEF NotBegun, InBudget, Grown, Joined, Ended
<1>11. Placed'
  <2>1. Len(<<>>) = 0
    OBVIOUS
  <2>2. QED
    BY <1>2, <2>1 DEF Placed
<1>12. \A n \in DOMAIN visited : visited[n] \in 0..Farthest
  BY DepthsCounted, <1>8
<1>13. Led'
  BY <1>2, <1>7, <1>12 DEF Led
<1>14. Opened'
  BY <1>2, <1>6, <1>9 DEF Opened
<1>15. Exact'
  <2> SUFFICES ASSUME truncated = {}
               PROVE  Exact'
    BY <1>2 DEF Exact
  <2>1. \A k \in 0..depth : k \in 0..Farthest
    BY DepthsCounted, <1>8
  <2>2. \A k \in 0..depth : \A n \in Sure'[k] :
          n \in DOMAIN visited /\ visited[n] <= k
    BY <1>7, <1>8, <2>1 DEF Exact
  <2>3. \A n, r : ~StillToCome(n, r)
    BY <1>2 DEF StillToCome
  <2>4. \A n \in DOMAIN visited \ frontier : visited[n] <= depth =>
          \A r \in Lasting(n) : r \in Drawn
    BY <1>8, <2>3 DEF Exact
  <2>5. \A n \in DOMAIN visited \ frontier : visited[n] <= depth =>
          \A r \in Lasting(n)' : r \in Drawn
    BY <1>6, <2>4
  <2>6. QED
    BY <1>2, <1>9, <2>2, <2>5 DEF Exact
<1>16. QED
  BY <1>5, <1>10, <1>11, <1>13, <1>14, <1>15

LEMMA WalkStepSound == WalkInv /\ [WalkNext]_walkVars => WalkInv'
<1> SUFFICES ASSUME WalkInv, [WalkNext]_walkVars
             PROVE  WalkInv'
  OBVIOUS
<1>1. CASE RefuseWalk
  BY <1>1, RefuseKeeps
<1>2. CASE Prepare
  BY <1>2, PrepareKeeps
<1>3. CASE StopCancelled \/ StopAtEdges \/ StopAtNodes
  <2>1. PICK reason : Stop(reason)
    BY <1>3 DEF StopCancelled, StopAtEdges, StopAtNodes
  <2>2. progress = "walk"
    BY <1>3 DEF StopCancelled, StopAtEdges, StopAtNodes, Pausing, Returning,
                Looking
  <2>3. QED
    BY <2>1, <2>2, StopKeeps
<1>4. CASE Expand
  BY <1>4, ExpandKeeps
<1>5. CASE Withhold
  BY <1>5, WithholdKeeps
<1>6. CASE Collect
  BY <1>6, CollectKeeps
<1>7. CASE Deepen
  BY <1>7, DeepenKeeps
<1>8. CASE Finish
  BY <1>8, FinishKeeps
<1>9. CASE CancelWalk
  BY <1>9, CancelKeeps
<1>10. CASE ImportElsewhere
  BY <1>10, ImportKeeps
<1>11. CASE UNCHANGED walkVars
  <2>1. /\ UNCHANGED <<links, versions, sought, visited, collected, depth, frontier,
                       upcoming, pending, expanding>>
        /\ progress' = progress /\ truncated' = truncated
    BY <1>11 DEF walkVars
  <2>2. (Walked' <=> Walked) /\ (WalkIsComplete' <=> WalkIsComplete)
    BY <2>1 DEF Walked, WalkIsComplete, WalkAnswered
  <2>3. /\ progress' \in {"plan", "refused", "walk", "done"}
        /\ ~Walked => truncated' = {}
        /\ WalkIsComplete' => frontier = {} /\ upcoming = {} /\ pending = <<>>
    BY <2>1, <2>2 DEF WalkInv, WalkTypeOK, NotBegun, Ended
  <2>4. QED
    BY <2>1, <2>2, <2>3, StandingKeeps
<1>12. QED
  BY <1>1, <1>2, <1>3, <1>4, <1>5, <1>6, <1>7, <1>8, <1>9, <1>10,
     <1>11 DEF WalkNext, WalkStep

(* What is within reach in some steps is within reach in more.             *)
LEMMA WithinGrows ==
  ASSUME NEW rows, NEW k \in 0..Farthest
  PROVE  Within(rows)[k] \subseteq Within(rows)[Farthest]
<1> DEFINE S == {d \in Nat : k + d <= Farthest =>
                              Within(rows)[k] \subseteq Within(rows)[k + d]}
<1>1. 0 \in S
  OBVIOUS
<1>2. ASSUME NEW d \in Nat, d \in S
      PROVE  d + 1 \in S
  <2> SUFFICES ASSUME k + (d + 1) <= Farthest
               PROVE  Within(rows)[k] \subseteq Within(rows)[k + (d + 1)]
    OBVIOUS
  <2>1. /\ k + (d + 1) \in 1..Farthest /\ (k + (d + 1)) - 1 = k + d
        /\ k + d <= Farthest
    BY NodesCounted
  <2>2. Within(rows)[k + d] \subseteq Within(rows)[k + (d + 1)]
    BY <2>1, WithinSteps
  <2>3. QED
    BY <1>2, <2>1, <2>2
<1>3. Farthest - k \in Nat /\ k + (Farthest - k) = Farthest
      /\ Farthest <= Farthest
  BY NodesCounted
<1>4. Farthest - k \in S
  <2> HIDE DEF S
  <2>1. QED
    BY <1>1, <1>2, <1>3, InductionBySet
<1>5. QED
  BY <1>3, <1>4

-----------------------------------------------------------------------------
LEMMA VisitedIsReachable ==
  ASSUME WalkInv, Walked
  PROVE  DOMAIN visited \subseteq Reachable(EverThere)
<1> SUFFICES ASSUME NEW n \in DOMAIN visited
             PROVE  n \in Reachable(EverThere)
  OBVIOUS
<1>1. n \in Within(EverThere)[visited[n]]
  BY DEF WalkInv, Led, Reach
<1>2. visited[n] \in 0..Farthest
  BY DepthsCounted
<1>3. n \in Within(EverThere)[Farthest]
  BY <1>1, <1>2, WithinGrows
<1>4. QED
  BY <1>3 DEF Reachable, Farthest

LEMMA Inside == WalkInv => StaysInside
<1> SUFFICES ASSUME WalkInv, Walked
             PROVE  /\ Cardinality(DOMAIN visited) <= Limit.nodes
                    /\ Cardinality(DOMAIN collected) <= Limit.edges
                    /\ \A n \in DOMAIN visited : visited[n] <= Limit.depth
                    /\ \A i \in DOMAIN collected :
                         /\ {collected[i].source, collected[i].target}
                              \subseteq DOMAIN visited
                         /\ \E n \in DOMAIN visited :
                              <<i, collected[i]>> \in OpenAt(EverThere, n)
                    /\ DOMAIN visited \subseteq Reachable(EverThere)
  BY DEF StaysInside, Walked
<1>1. Limit.depth \in Nat /\ depth \in Nat
      /\ \A n \in DOMAIN visited : visited[n] \in Nat
  BY WalkAssumption DEF WalkInv, WalkTypeOK, Limit
<1>2. \A n \in DOMAIN visited : visited[n] <= depth + 1
  BY DepthsCounted
<1>3. \A n \in DOMAIN visited : visited[n] <= Limit.depth
  BY <1>1, <1>2 DEF WalkInv, InBudget
<1>4. ASSUME NEW i \in DOMAIN collected
      PROVE  /\ {collected[i].source, collected[i].target} \subseteq DOMAIN visited
             /\ \E n \in DOMAIN visited :
                  <<i, collected[i]>> \in OpenAt(EverThere, n)
  <2> DEFINE r == <<i, collected[i]>>
  <2>1. r \in Drawn /\ r[2] = collected[i]
    BY DEF Drawn, EdgeRows
  <2>2. Ends(r) \subseteq DOMAIN visited
    BY <2>1 DEF WalkInv, Joined
  <2>3. \E n \in DOMAIN visited : r \in Ever(n)
    BY <2>1 DEF WalkInv, Opened
  <2>4. QED
    BY <2>1, <2>2, <2>3 DEF Ends, Ever
<1>5. QED
  BY <1>3, <1>4, VisitedIsReachable DEF WalkInv, InBudget

LEMMA Completed == WalkInv => CompleteIsReachable
<1> SUFFICES ASSUME WalkInv, WalkIsComplete
             PROVE  /\ Reachable(AlwaysThere) \subseteq DOMAIN visited
                    /\ \A n \in DOMAIN visited :
                         /\ Lasting(n) \subseteq Drawn
                         /\ n \in Reach[visited[n]]
                         /\ \A d \in 0..(visited[n] - 1) : n \notin Sure[d]
  BY DEF CompleteIsReachable, Lasting, Drawn, Reach, Sure
<1> USE DEF WalkInv
<1>1. Walked /\ truncated = {}
  BY DEF WalkIsComplete, WalkAnswered, Walked
<1>2. frontier = {} /\ upcoming = {} /\ pending = <<>>
  BY DEF Ended
<1>3. /\ depth \in Nat /\ \A n \in DOMAIN visited : visited[n] \in Nat
      /\ \A n \in DOMAIN visited : visited[n] <= depth
  BY <1>2 DEF WalkTypeOK, Placed
<1>4. \A n \in DOMAIN visited : \A r \in Lasting(n) : r \in Drawn
  <2>1. \A n, r : ~StillToCome(n, r)
    BY <1>2 DEF StillToCome
  <2>2. QED
    BY <1>1, <1>2, <1>3, <2>1 DEF Exact
<1>5. ASSUME NEW m \in DOMAIN visited
      PROVE  Beyond(AlwaysThere, m) \subseteq DOMAIN visited
  <2> SUFFICES ASSUME NEW r \in Lasting(m)
               PROVE  OtherEnd(r[2], m) \in DOMAIN visited
    BY DEF Beyond, Lasting
  <2>1. r \in Drawn /\ r \in Matching(m)
    BY <1>4, OpenMatches
  <2>2. QED
    BY <2>1, EndsOfMatching DEF Joined
<1>6. Reachable(AlwaysThere) \subseteq DOMAIN visited
  <2> DEFINE S == {d \in Nat : d <= Farthest => Sure[d] \subseteq DOMAIN visited}
  <2>1. 0 \in S
    <3>1. \A n \in Sure[0] : n \in DOMAIN visited
      BY <1>1, <1>3 DEF Exact
    <3>2. QED
      BY <3>1
  <2>2. ASSUME NEW d \in Nat, d \in S
        PROVE  d + 1 \in S
    <3> SUFFICES ASSUME d + 1 <= Farthest
                 PROVE  Sure[d + 1] \subseteq DOMAIN visited
      OBVIOUS
    <3>1. d + 1 \in 1..Farthest /\ (d + 1) - 1 = d /\ d <= Farthest
      BY NodesCounted
    <3>2. Sure[d + 1] =
            Sure[d] \union UNION {Beyond(AlwaysThere, m) : m \in Sure[d]}
      BY <3>1, WithinSteps DEF Sure
    <3>3. Sure[d] \subseteq DOMAIN visited
      BY <2>2, <3>1
    <3>4. QED
      BY <1>5, <3>2, <3>3
  <2>3. Farthest \in S
    <3> HIDE DEF S
    <3>1. QED
      BY <2>1, <2>2, InductionBySet, NodesCounted
  <2>4. Sure[Farthest] \subseteq DOMAIN visited
    BY <2>3, NodesCounted
  <2>5. QED
    BY <2>4 DEF Reachable, Farthest, Sure
<1>7. ASSUME NEW n \in DOMAIN visited, NEW d \in 0..(visited[n] - 1)
      PROVE  n \notin Sure[d]
  <2>1. visited[n] \in Nat /\ visited[n] <= depth
    BY <1>3
  <2>2. d \in 0..depth /\ ~(visited[n] <= d)
    BY <1>3, <2>1
  <2>3. QED
    BY <1>1, <2>2 DEF Exact
<1>8. \A n \in DOMAIN visited : n \in Reach[visited[n]]
  BY DEF Led
<1>9. QED
  BY <1>4, <1>6, <1>7, <1>8

(* However far a walk gets, whatever cuts it short and whatever is imported *)
(* meanwhile, it stays inside the budgets asked for, what it returns is    *)
(* closed, and it gets nowhere over an edge the policy withholds           *)
(* (traverse.rs:499-606).                                                  *)
THEOREM WalksStayInside == WalkSpec => []StaysInside
<1>1. WalkInv => StaysInside
  BY Inside
<1>2. QED
  BY WalkInitSound, WalkStepSound, <1>1, PTL DEF WalkSpec

(* A walk that says it is complete has reached everything there is to      *)
(* reach over edges that stayed as they were, each node no later than at   *)
(* its distance, with every such edge between them (traverse.rs:512).      *)
THEOREM CompleteWalks == WalkSpec => []CompleteIsReachable
<1>1. WalkInv => CompleteIsReachable
  BY Completed
<1>2. QED
  BY WalkInitSound, WalkStepSound, <1>1, PTL DEF WalkSpec

-----------------------------------------------------------------------------
(* A store opened: every number of openers, every set of builds, edited or *)
(* not, and every number of failures.                                      *)

(* Rows fill up from the first.                                            *)
RowsContiguous ==
  \A i \in Ids : \A j \in 1..i : recorded[i] # NotApplied => recorded[j] # NotApplied

(* What an opener knows about the rows it has compared or written: they    *)
(* are its own, and rows never change.                                     *)
Knows(p) ==
  /\ pc[p] \in {"verify", "apply"} =>
       from[p] <= Latest[p] /\ at[p] \in 1..(LastId + 1)
  /\ pc[p] = "verify" =>
       \A j \in Ids : j <= from[p] =>
         recorded[j] # NotApplied /\ (j < at[p] => recorded[j] = Ships[p][j])
  /\ pc[p] = "apply" => \A j \in Ids : j < at[p] => recorded[j] = Ships[p][j]

SchemaInv ==
  /\ TypeOK
  /\ RowsContiguous
  /\ SchemaIsOneBuilds
  /\ OpenedOnItsSchema
  /\ \A p \in Openers : Knows(p)

-----------------------------------------------------------------------------
(* The initial database is empty and nothing runs.                         *)
LEMMA SchemaInitially == Init => SchemaInv
BY MigrationsAssumption DEF Init, SchemaInv, TypeOK, RowsContiguous,
   SchemaIsOneBuilds, OpenedOnItsSchema, Knows, Outcomes, Ids

(* A step of p that leaves the rows alone and brings p to a state in which *)
(* it knows what it must know disturbs nothing.                            *)
LEMMA OthersUndisturbed ==
  ASSUME SchemaInv, TypeOK', NEW p \in Openers, recorded' = recorded,
         \A q \in Openers : q # p =>
           /\ pc'[q] = pc[q] /\ from'[q] = from[q] /\ at'[q] = at[q]
           /\ outcome'[q] = outcome[q],
         Knows(p)',
         outcome'[p] = "ok" =>
           \A i \in 1..Latest[p] : recorded[i] = Ships[p][i]
  PROVE  SchemaInv'
<1>1. RowsContiguous' /\ SchemaIsOneBuilds'
  BY DEF SchemaInv, RowsContiguous, SchemaIsOneBuilds, IsPrefixOf
<1>2. OpenedOnItsSchema'
  BY DEF SchemaInv, OpenedOnItsSchema
<1>3. ASSUME NEW q \in Openers, q # p PROVE Knows(q)'
  BY <1>3 DEF SchemaInv, Knows
<1>4. QED
  BY <1>1, <1>2, <1>3 DEF SchemaInv

(* A call that returns without ok leaves nothing to know.                  *)
LEMMA ReturningIsSafe ==
  ASSUME SchemaInv, NEW p \in Openers, NEW result \in Outcomes, Returns(p, result),
         UNCHANGED recorded, faults' \in 0..MaxFaults,
         result = "ok" => \A i \in 1..Latest[p] : recorded[i] = Ships[p][i]
  PROVE  SchemaInv'
<1>1. TypeOK'
  BY MigrationsAssumption DEF SchemaInv, TypeOK, Returns, Outcomes
<1>2. pc'[p] = "closed" /\ outcome'[p] = result
  BY DEF SchemaInv, TypeOK, Returns
<1>3. \A q \in Openers : q # p =>
        /\ pc'[q] = pc[q] /\ from'[q] = from[q] /\ at'[q] = at[q]
        /\ outcome'[q] = outcome[q]
  BY DEF SchemaInv, TypeOK, Returns
<1>4. Knows(p)'
  BY <1>2 DEF Knows
<1>5. QED
  BY <1>1, <1>2, <1>3, <1>4, OthersUndisturbed

LEMMA OpenStoreKeeps ==
  ASSUME SchemaInv, NEW p \in Openers, OpenStore(p) PROVE SchemaInv'
<1>1. TypeOK'
  BY DEF SchemaInv, TypeOK, OpenStore, Outcomes
<1>2. pc'[p] = "version" /\ outcome'[p] = "none"
  BY DEF SchemaInv, TypeOK, OpenStore
<1>3. \A q \in Openers : q # p =>
        /\ pc'[q] = pc[q] /\ from'[q] = from[q] /\ at'[q] = at[q]
        /\ outcome'[q] = outcome[q]
  BY DEF SchemaInv, TypeOK, OpenStore
<1>4. Knows(p)'
  BY <1>2 DEF Knows
<1>5. QED
  BY <1>1, <1>2, <1>3, <1>4, OthersUndisturbed DEF OpenStore

LEMMA SchemaVersionKeeps ==
  ASSUME SchemaInv, NEW p \in Openers, ReadSchemaVersion(p) PROVE SchemaInv'
<1>1. PICK v \in 0..LastId :
        /\ IsVersion(v)
        /\ IF v > Latest[p]
           THEN Returns(p, "too_new")
           ELSE /\ pc' = [pc EXCEPT ![p] = "verify"]
                /\ from' = [from EXCEPT ![p] = v]
                /\ at' = [at EXCEPT ![p] = 1]
                /\ UNCHANGED outcome
  BY DEF ReadSchemaVersion
<1>2. CASE v > Latest[p]
  BY <1>1, <1>2, ReturningIsSafe DEF ReadSchemaVersion, Outcomes, SchemaInv, TypeOK
<1>3. CASE ~(v > Latest[p])
  <2>1. TypeOK'
    <3>1. recorded' = recorded /\ outcome' = outcome /\ faults' = faults
      BY <1>1, <1>3 DEF ReadSchemaVersion
    <3>2. pc' \in [Openers -> {"closed", "version", "verify", "apply"}]
      BY <1>1, <1>3 DEF SchemaInv, TypeOK
    <3>3. from' \in [Openers -> 0..LastId]
      BY <1>1, <1>3 DEF SchemaInv, TypeOK
    <3>4. 1 \in 0..(LastId + 1)
      BY MigrationsAssumption
    <3>5. at' \in [Openers -> 0..(LastId + 1)]
      BY <1>1, <1>3, <3>4 DEF SchemaInv, TypeOK
    <3>6. QED
      BY <3>1, <3>2, <3>3, <3>5 DEF SchemaInv, TypeOK
  <2>2. /\ pc'[p] = "verify" /\ from'[p] = v /\ at'[p] = 1
        /\ outcome' = outcome /\ recorded' = recorded
    BY <1>1, <1>3 DEF SchemaInv, TypeOK, ReadSchemaVersion
  <2>3. \A q \in Openers : q # p =>
          /\ pc'[q] = pc[q] /\ from'[q] = from[q] /\ at'[q] = at[q]
          /\ outcome'[q] = outcome[q]
    BY <1>1, <1>3 DEF SchemaInv, TypeOK
  <2>4. \A j \in Ids : j <= v => recorded[j] # NotApplied
    <3>1. CASE v = 0
      BY <3>1 DEF Ids
    <3>2. CASE v # 0
      BY <1>1, <3>2 DEF IsVersion, SchemaInv, RowsContiguous, Ids
    <3>3. QED BY <3>1, <3>2
  <2>5. Knows(p)'
    BY <1>3, <2>2, <2>4, MigrationsAssumption DEF Knows, Ids
  <2>6. outcome'[p] = "ok" => \A i \in 1..Latest[p] : recorded[i] = Ships[p][i]
    BY <2>2 DEF SchemaInv, OpenedOnItsSchema
  <2>7. QED
    BY <2>1, <2>2, <2>3, <2>5, <2>6, OthersUndisturbed
<1>4. QED BY <1>2, <1>3

LEMMA VerifyKeeps ==
  ASSUME SchemaInv, NEW p \in Openers, Verify(p) PROVE SchemaInv'
<1> USE MigrationsAssumption
<1>1. CASE ~Agrees(p, at[p])
  BY <1>1, ReturningIsSafe DEF Verify, Outcomes, SchemaInv, TypeOK
<1>2. CASE Agrees(p, at[p])
  <2>1. at[p] \in Ids /\ at[p] <= Latest[p] /\ pc[p] = "verify"
    BY DEF Verify, SchemaInv, Knows, Ids
  <2>2. /\ at' = [at EXCEPT ![p] = at[p] + 1]
        /\ UNCHANGED <<recorded, pc, from, outcome, faults>>
    BY <1>2 DEF Verify
  <2>3. TypeOK'
    BY <2>1, <2>2 DEF SchemaInv, TypeOK, Ids
  <2>4. at'[p] = at[p] + 1 /\ \A q \in Openers : q # p => at'[q] = at[q]
    BY <2>2 DEF SchemaInv, TypeOK
  <2>5. from[p] <= Latest[p] /\ from[p] \in Nat
    BY <2>1 DEF SchemaInv, Knows, TypeOK
  <2>6. \A j \in Ids : j <= from[p] =>
          recorded[j] # NotApplied
          /\ (j < at[p] + 1 => recorded[j] = Ships[p][j])
    BY <1>2, <2>1 DEF SchemaInv, Knows, Agrees, Ids
  <2>7. Knows(p)'
    <3>1. at'[p] \in 1..(LastId + 1)
      BY <2>1, <2>4 DEF Ids
    <3>2. pc'[p] = "verify" /\ from'[p] = from[p] /\ recorded' = recorded
      BY <2>1, <2>2
    <3>3. QED
      BY <2>4, <2>5, <2>6, <3>1, <3>2 DEF Knows
  <2>8. outcome'[p] = "ok" => \A i \in 1..Latest[p] : recorded[i] = Ships[p][i]
    BY <2>2 DEF SchemaInv, OpenedOnItsSchema
  <2>9. QED
    BY <2>2, <2>3, <2>4, <2>7, <2>8, OthersUndisturbed
<1>3. QED BY <1>1, <1>2

LEMMA VerifiedKeeps ==
  ASSUME SchemaInv, NEW p \in Openers, Verified(p) PROVE SchemaInv'
<1> USE MigrationsAssumption
<1>1. /\ pc[p] = "verify" /\ at[p] > Latest[p]
      /\ from[p] <= Latest[p] /\ from[p] \in 0..LastId /\ at[p] \in Nat
      /\ Latest[p] \in 0..LastId
  <2>1. pc[p] = "verify" /\ at[p] > Latest[p]
    BY DEF Verified
  <2>2. from[p] <= Latest[p]
    BY <2>1 DEF SchemaInv, Knows
  <2>3. from[p] \in 0..LastId /\ at[p] \in 0..(LastId + 1)
    BY DEF SchemaInv, TypeOK
  <2>4. Latest[p] \in 0..LastId /\ LastId \in Nat
    OBVIOUS
  <2>5. QED
    BY <2>1, <2>2, <2>3, <2>4
<1>2. TypeOK'
  BY <1>1 DEF Verified, SchemaInv, TypeOK
<1>3. pc'[p] = "apply" /\ at'[p] = from[p] + 1
  BY DEF Verified, SchemaInv, TypeOK
<1>4. \A q \in Openers : q # p => pc'[q] = pc[q] /\ at'[q] = at[q]
  BY DEF Verified, SchemaInv, TypeOK
<1>5. \A j \in Ids : j < from[p] + 1 => recorded[j] = Ships[p][j]
  BY <1>1 DEF SchemaInv, Knows, Ids
<1>6. Knows(p)'
  BY <1>1, <1>3, <1>5 DEF Knows, Verified, Ids
<1>7. outcome'[p] = "ok" => \A i \in 1..Latest[p] : recorded[i] = Ships[p][i]
  BY DEF Verified, SchemaInv, OpenedOnItsSchema
<1>8. QED
  BY <1>2, <1>4, <1>6, <1>7, OthersUndisturbed DEF Verified

(* The heart of it: the row written is the next one, and all rows below it *)
(* are already this opener's.                                              *)
LEMMA ApplyKeeps ==
  ASSUME SchemaInv, NEW p \in Openers, Apply(p) PROVE SchemaInv'
<1> USE MigrationsAssumption
<1> DEFINE i == at[p]
<1>1. i \in Ids /\ i <= Latest[p] /\ pc[p] = "apply" /\ recorded[i] = NotApplied
  BY DEF Apply, SchemaInv, Knows, Ids
<1>2. Ships[p][i] \in Checksums /\ Ships[p][i] # NotApplied
  BY <1>1
<1>3. recorded'[i] = Ships[p][i] /\ \A j \in Ids : j # i => recorded'[j] = recorded[j]
  BY <1>1 DEF Apply, SchemaInv, TypeOK
<1>4. at'[p] = at[p] + 1 /\ \A q \in Openers : q # p => at'[q] = at[q]
  BY DEF Apply, SchemaInv, TypeOK
<1>5. UNCHANGED <<pc, from, outcome, faults>>
  BY DEF Apply
<1>6. \A j \in Ids : recorded[j] # NotApplied => recorded'[j] = recorded[j]
  BY <1>1, <1>3
<1>7. \A j \in Ids : j < i => recorded[j] = Ships[p][j] /\ recorded[j] # NotApplied
  BY <1>1 DEF SchemaInv, Knows
<1>8. \A j \in Ids : j > i => recorded[j] = NotApplied
  BY <1>1 DEF SchemaInv, RowsContiguous, Ids
<1>9. TypeOK'
  <2>1. recorded' \in [Ids -> Checksums \union {NotApplied}]
    BY <1>2 DEF Apply, SchemaInv, TypeOK
  <2>2. at' \in [Openers -> 0..(LastId + 1)]
    BY <1>1 DEF Apply, SchemaInv, TypeOK, Ids
  <2>3. QED
    BY <2>1, <2>2, <1>5 DEF SchemaInv, TypeOK
<1>10. RowsContiguous'
  <2>1. ASSUME NEW k \in Ids, NEW j \in 1..k, recorded'[k] # NotApplied
        PROVE  recorded'[j] # NotApplied
    <3>1. k <= i /\ j \in Ids
      BY <1>1, <1>3, <1>8, <2>1 DEF Ids
    <3>2. j = i \/ j < i
      BY <1>1, <3>1 DEF Ids
    <3>3. QED
      BY <3>1, <3>2, <1>2, <1>3, <1>6, <1>7
  <2>2. QED
    BY <2>1 DEF RowsContiguous
<1>11. SchemaIsOneBuilds'
  <2>1. ASSUME NEW k \in Ids, recorded'[k] # NotApplied
        PROVE  /\ k <= Latest[p] /\ recorded'[k] = Ships[p][k]
               /\ \A j \in 1..k : recorded'[j] # NotApplied
    <3>1. k <= i
      BY <1>1, <1>3, <1>8, <2>1 DEF Ids
    <3>2. QED
      <4>1. \A j \in 1..k : j \in Ids /\ (j = i \/ j < i)
        BY <3>1, <1>1 DEF Ids
      <4>2. \A j \in 1..k : recorded'[j] # NotApplied
        BY <4>1, <1>2, <1>3, <1>6, <1>7
      <4>3. k = i \/ k < i
        BY <3>1, <1>1 DEF Ids
      <4>4. k <= Latest[p] /\ recorded'[k] = Ships[p][k]
        <5>1. CASE k = i
          BY <5>1, <1>1, <1>3
        <5>2. CASE k < i
          BY <5>2, <1>1, <1>6, <1>7 DEF Ids
        <5>3. QED BY <4>3, <5>1, <5>2
      <4>5. QED BY <4>2, <4>4
  <2>2. IsPrefixOf(p)'
    BY <2>1 DEF IsPrefixOf
  <2>3. QED BY <2>2 DEF SchemaIsOneBuilds
<1>12. OpenedOnItsSchema'
  <2>1. ASSUME NEW q \in Openers, outcome[q] = "ok", NEW k \in 1..Latest[q]
        PROVE  recorded'[k] = Ships[q][k]
    <3>1. k \in Ids
      BY <2>1 DEF Ids
    <3>2. recorded[k] = Ships[q][k] /\ Ships[q][k] # NotApplied
      BY <2>1, <3>1 DEF SchemaInv, OpenedOnItsSchema
    <3>3. QED BY <3>1, <3>2, <1>6
  <2>2. QED
    BY <2>1, <1>5 DEF OpenedOnItsSchema
<1>13. ASSUME NEW q \in Openers PROVE Knows(q)'
  <2>1. CASE q = p
    <3>1. \A j \in Ids : j < at'[p] => recorded'[j] = Ships[p][j]
      BY <1>1, <1>3, <1>4, <1>7 DEF Ids
    <3>2. from[p] <= Latest[p] /\ at'[p] \in 1..(LastId + 1)
      BY <1>1, <1>4 DEF SchemaInv, Knows, Ids
    <3>3. pc'[p] = "apply" /\ from'[p] = from[p]
      BY <1>1, <1>5
    <3>4. QED
      BY <2>1, <3>1, <3>2, <3>3 DEF Knows
  <2>2. CASE q # p
    <3>1. \A j \in Ids : recorded[j] = Ships[q][j] => recorded'[j] = Ships[q][j]
      BY <1>6
    <3>2. QED
      BY <2>2, <3>1, <1>4, <1>5, <1>6 DEF SchemaInv, Knows
  <2>3. QED BY <2>1, <2>2
<1>14. QED
  BY <1>9, <1>10, <1>11, <1>12, <1>13 DEF SchemaInv

LEMMA FinishOpeningKeeps ==
  ASSUME SchemaInv, NEW p \in Openers, FinishOpening(p) PROVE SchemaInv'
<1>1. \A i \in 1..Latest[p] : recorded[i] = Ships[p][i]
  BY MigrationsAssumption DEF FinishOpening, SchemaInv, Knows, TypeOK, Ids
<1>2. QED
  BY <1>1, ReturningIsSafe DEF FinishOpening, Outcomes, SchemaInv, TypeOK

LEMMA SchemaPreserved == SchemaInv /\ [Next]_vars => SchemaInv'
<1> SUFFICES ASSUME SchemaInv, [Next]_vars PROVE SchemaInv'
  OBVIOUS
<1>1. ASSUME NEW p \in Openers, ApplyCollides(p) PROVE SchemaInv'
  BY <1>1, ReturningIsSafe DEF ApplyCollides, Outcomes, SchemaInv, TypeOK
<1>2. ASSUME NEW p \in Openers, Fails(p) PROVE SchemaInv'
  <2>1. faults' \in 0..MaxFaults
    BY <1>2, MigrationsAssumption DEF Fails, Fault, SchemaInv, TypeOK
  <2>2. QED
    BY <1>2, <2>1, ReturningIsSafe DEF Fails, Outcomes
<1>3. CASE UNCHANGED vars
  BY <1>3 DEF vars, SchemaInv, TypeOK, RowsContiguous, SchemaIsOneBuilds,
     IsPrefixOf, OpenedOnItsSchema, Knows
<1>4. QED
  BY <1>1, <1>2, <1>3, OpenStoreKeeps, SchemaVersionKeeps, VerifyKeeps,
     VerifiedKeeps, ApplyKeeps, FinishOpeningKeeps DEF Next, Step

(* Every state of migrate has the types the module declares.               *)
THEOREM SchemaTypes == Spec => []TypeOK
<1>1. SchemaInv => TypeOK
  BY DEF SchemaInv
<1>2. QED
  BY <1>1, SchemaInitially, SchemaPreserved, PTL DEF Spec

(* Openers of any builds, racing, failing and dying at any point, leave a  *)
(* schema that is the first migrations of one build, in order.             *)
THEOREM SchemaSound == Spec => []SchemaIsOneBuilds
<1>1. SchemaInv => SchemaIsOneBuilds
  BY DEF SchemaInv
<1>2. QED
  BY <1>1, SchemaInitially, SchemaPreserved, PTL DEF Spec

(* A migrate that returned Ok left its caller on its own build's schema,   *)
(* and no later open changes that.                                         *)
THEOREM OpenedSound == Spec => []OpenedOnItsSchema
<1>1. SchemaInv => OpenedOnItsSchema
  BY DEF SchemaInv
<1>2. QED
  BY <1>1, SchemaInitially, SchemaPreserved, PTL DEF Spec
=============================================================================
