---------------------------- MODULE FairClaimProofs ----------------------------
(***************************************************************************)
(* Theorems about FairClaim for any number of items, classes, levels of    *)
(* partitions, limits and batches.                                         *)
(*                                                                         *)
(* The selection is recursive twice over: the candidate loop of            *)
(* selectFairCandidate, and the loop of claimTx around it.  What either    *)
(* computes is shown by induction, which is had from the well-foundedness  *)
(* of the naturals (Least, UpTo): the loops end, the ranking always has a  *)
(* first partition (FirstRanked), and the one that is picked has capacity, *)
(* or none has (PickIs).                                                   *)
(*                                                                         *)
(* Three facts about every visit follow.  The slots that are passed over   *)
(* had no work, and no visit's slot is before its turn (Slotted): hence a   *)
(* class that has work all along is passed over in none of its slots.      *)
(* What a claim keeps free for siblings stays free when it goes on (Kept). *)
(* And a claim that ends early has no candidate left in any class.         *)
(***************************************************************************)
EXTENDS FairClaim, SumTheorems, WellFoundedInduction, TLAPS

\* A set of natural numbers has a least one.
LEMMA Least ==
  ASSUME NEW T \in SUBSET Nat, T # {}
  PROVE  \E x \in T : \A y \in T : x <= y
<1> DEFINE R == OpToRel(<, Nat)
<1>1. IsWellFoundedOn(R, Nat)
  BY NatLessThanWellFounded
<1>2. \A x, y \in Nat : x < y => <<x, y>> \in R
  BY DEF OpToRel
<1> HIDE DEF R
<1>3. PICK x \in T : \A y \in T : ~(<<y, x>> \in R)
  BY <1>1, WFMin
<1>4. \A y \in T : ~(y < x)
  BY <1>2, <1>3
<1> QED
  BY <1>4

\* Induction up to n, with the set of those that satisfy the claim.
LEMMA UpTo ==
  ASSUME NEW n \in Nat, NEW S, 0 \in S, \A k \in 1..n : k - 1 \in S => k \in S
  PROVE  0..n \subseteq S
<1> SUFFICES ASSUME (0..n) \ S # {} PROVE FALSE
  OBVIOUS
<1> DEFINE T == (0..n) \ S
<1>a. T \in SUBSET Nat /\ T # {}
  OBVIOUS
<1> HIDE DEF T
<1>b. PICK k \in T : \A j \in T : k <= j
  BY <1>a, Least
<1> USE DEF T
<1>1. k \in T /\ \A j \in T : k <= j
  BY <1>b
<1>2. k \in 1..n /\ k - 1 \in 0..n
  OBVIOUS
<1>3. k - 1 \in S
  BY <1>1, <1>2
<1> QED
  BY <1>1, <1>2, <1>3

-----------------------------------------------------------------------------
(***************************************************************************)
(* The slots of the cycle.                                                 *)
(***************************************************************************)
LEMMA CycleTypes ==
  /\ Len(PriorityCycle) \in Nat \ {0} /\ DOMAIN PriorityCycle = 1..Len(PriorityCycle)
  /\ TopClass \in Nat \ {0} /\ Classes = 1..TopClass
<1>1. PriorityCycle \in Seq(Nat) /\ TopClass \in Nat \ {0} /\ Classes = 1..TopClass
  BY FairClaimAssumption
<1>2. Len(PriorityCycle) \in Nat /\ DOMAIN PriorityCycle = 1..Len(PriorityCycle)
  BY <1>1
<1>3. 1 \in Classes
  BY <1>1
<1> QED
  BY <1>1, <1>2, <1>3 DEF Classes

LEMMA Remainders ==
  ASSUME NEW x \in Nat, NEW m \in Nat \ {0}
  PROVE  x % m \in 0..(m - 1)
OBVIOUS

\* The slot with a given remainder among m in a row.
LEMMA DivMod ==
  ASSUME NEW x \in Nat, NEW m \in Nat \ {0}
  PROVE  x \div m \in Nat /\ x = m * (x \div m) + (x % m)
OBVIOUS

LEMMA ModUnique ==
  ASSUME NEW d \in Nat, NEW m \in Nat \ {0}, NEW r \in 0..(m - 1)
  PROVE  (m * d + r) % m = r
OBVIOUS

\* Among m numbers in a row there is one with any given remainder.
LEMMA SlotAmong ==
  ASSUME NEW x \in Nat, NEW m \in Nat \ {0}, NEW k \in 0..(m - 1)
  PROVE  \E j \in 0..(m - 1) : (x + j) % m = k
<1> DEFINE d == x \div m
           e == x % m
<1>1. d \in Nat /\ e \in 0..(m - 1) /\ x = m * d + e
  BY DivMod, Remainders
<1> HIDE DEF d, e
<1>2. CASE e <= k
  <2>1. k - e \in 0..(m - 1) /\ x + (k - e) = m * d + k
    BY <1>1, <1>2
  <2> QED
    BY <1>1, <2>1, ModUnique
<1>3. CASE k < e
  <2>1. m * (d + 1) = m * d + m
    BY <1>1
  <2>2. k + m - e \in 0..(m - 1) /\ x + (k + m - e) = m * (d + 1) + k
    BY <1>1, <1>3, <2>1
  <2>3. (m * (d + 1) + k) % m = k
    BY <1>1, ModUnique
  <2> QED
    BY <2>2, <2>3
<1> QED
  BY <1>1, <1>2, <1>3

-----------------------------------------------------------------------------
(***************************************************************************)
(* The first of the ranking.                                               *)
(***************************************************************************)

\* A finite set that is strictly ordered has a first element.
LEMMA FirstOf ==
  ASSUME NEW E, IsFiniteSet(E), E # {}, NEW R,
         \A x \in E : <<x, x>> \notin R,
         \A x, y, z \in E : <<x, y>> \in R /\ <<y, z>> \in R => <<x, z>> \in R,
         \A x, y \in E : x # y => <<x, y>> \in R \/ <<y, x>> \in R
  PROVE  \E x \in E : \A y \in E \ {x} : <<x, y>> \in R
<1> DEFINE Under(x) == {y \in E : <<y, x>> \in R}
           count == [x \in E |-> Cardinality(Under(x))]
           T == {count[x] : x \in E}
<1>1. \A x \in E : IsFiniteSet(Under(x)) /\ Cardinality(Under(x)) \in Nat
  BY FS_Subset, FS_CardinalityType
<1>2. count \in [E -> Nat] /\ \A x \in E : count[x] = Cardinality(Under(x))
  BY <1>1
<1> HIDE DEF count
<1>3. T \in SUBSET Nat /\ T # {}
  BY <1>2
<1>4. PICK least \in T : \A n \in T : least <= n
  <2> HIDE DEF T
  <2> QED
    BY <1>3, Least
<1>5. PICK x \in E : least = count[x]
  OBVIOUS
<1>6. \A y \in E : count[x] <= count[y]
  BY <1>4, <1>5
<1>7. ASSUME NEW y \in E \ {x}, <<y, x>> \in R
      PROVE  FALSE
  <2>1. Under(y) \subseteq Under(x)
    BY <1>7
  <2>2. y \in Under(x) /\ y \notin Under(y)
    BY <1>7
  <2>3. IsFiniteSet(Under(x)) /\ Under(y) # Under(x)
    BY <1>1, <2>2
  <2>4. Cardinality(Under(y)) < Cardinality(Under(x))
    <3>1. Cardinality(Under(y)) \in Nat /\ Cardinality(Under(x)) \in Nat
      BY <1>1
    <3> HIDE DEF Under
    <3> QED
      BY <2>1, <2>3, <3>1, FS_Subset
  <2> QED
    BY <1>1, <1>2, <1>6, <2>4
<1> QED
  BY <1>7

\* Lexicographic order.
LEMMA PrecedesIsAnOrder ==
  ASSUME NEW depth \in Nat, NEW s \in [1..depth -> Nat], NEW t \in [1..depth -> Nat],
         NEW u \in [1..depth -> Nat]
  PROVE  /\ ~Precedes(s, s)
         /\ Precedes(s, t) /\ Precedes(t, u) => Precedes(s, u)
         /\ s # t => Precedes(s, t) \/ Precedes(t, s)
<1>1. ~Precedes(s, s)
  BY DEF Precedes
<1>2. ASSUME Precedes(s, t), Precedes(t, u)
      PROVE  Precedes(s, u)
  <2>1. PICK k \in 1..depth : s[k] < t[k] /\ \A j \in 1..(k - 1) : s[j] = t[j]
    BY <1>2 DEF Precedes
  <2>2. PICK m \in 1..depth : t[m] < u[m] /\ \A j \in 1..(m - 1) : t[j] = u[j]
    BY <1>2 DEF Precedes
  <2>3. CASE k <= m
    <3>1. s[k] < u[k]
      BY <2>1, <2>2, <2>3
    <3>2. \A j \in 1..(k - 1) : s[j] = u[j]
      BY <2>1, <2>2, <2>3
    <3> QED
      BY <3>1, <3>2 DEF Precedes
  <2>4. CASE m < k
    <3>1. s[m] < u[m]
      BY <2>1, <2>2, <2>4
    <3>2. \A j \in 1..(m - 1) : s[j] = u[j]
      BY <2>1, <2>2, <2>4
    <3> QED
      BY <3>1, <3>2 DEF Precedes
  <2> QED
    BY <2>3, <2>4
<1>3. ASSUME s # t
      PROVE  Precedes(s, t) \/ Precedes(t, s)
  <2> DEFINE T == {k \in 1..depth : s[k] # t[k]}
  <2>1. T \in SUBSET Nat /\ T # {}
    <3>1. \E k \in 1..depth : s[k] # t[k]
      <4> SUFFICES ASSUME \A k \in 1..depth : s[k] = t[k] PROVE s = t
        BY <1>3
      <4> QED
        OBVIOUS
    <3>2. PICK k \in 1..depth : s[k] # t[k]
      BY <3>1
    <3>3. k \in T
      BY <3>2
    <3>4. T \subseteq Nat
      OBVIOUS
    <3> QED
      BY <3>3, <3>4
  <2>2. PICK k \in T : \A j \in T : k <= j
    <3> HIDE DEF T
    <3> QED
      BY <2>1, Least
  <2>3. \A j \in 1..(k - 1) : s[j] = t[j]
    BY <2>2
  <2>4. k \in 1..depth /\ (s[k] < t[k] \/ t[k] < s[k])
    OBVIOUS
  <2> QED
    BY <2>3, <2>4 DEF Precedes
<1> QED
  BY <1>1, <1>2, <1>3

-----------------------------------------------------------------------------
(***************************************************************************)
(* Partitions and their ranking.                                           *)
(***************************************************************************)
Depth == Len(LeaseLimits) - 1

LEMMA PartitionTypes ==
  /\ Depth \in Nat /\ Levels = 1..Depth
  /\ \A p \in Partitions : /\ p \in Seq(Nat) /\ Len(p) = Depth /\ DOMAIN p = 1..Depth
                           /\ p \in [1..Depth -> Nat]
<1>1. LeaseLimits \in Seq(Nat) /\ LeaseLimits # <<>>
  BY FairClaimAssumption
<1>2. Len(LeaseLimits) \in Nat \ {0}
  BY <1>1
<1>3. ASSUME NEW p \in Partitions
      PROVE  p \in Seq(Nat) /\ Len(p) + 1 = Len(LeaseLimits)
  BY FairClaimAssumption
<1>4. ASSUME NEW p \in Partitions
      PROVE  p \in Seq(Nat) /\ Len(p) = Depth
  BY <1>2, <1>3 DEF Depth
<1>5. ASSUME NEW p \in Partitions
      PROVE  DOMAIN p = 1..Depth /\ p \in [1..Depth -> Nat]
  BY <1>4
<1> QED
  BY <1>2, <1>4, <1>5 DEF Depth, Levels

LEMMA SamePrefix ==
  ASSUME NEW p \in Partitions, NEW q \in Partitions, NEW k \in 0..Depth
  PROVE  Prefix(p, k) = Prefix(q, k) <=> \A i \in 1..k : p[i] = q[i]
<1>1. \A r \in Partitions : Prefix(r, k) = [i \in 1..k |-> r[i]]
  BY PartitionTypes DEF Prefix
<1> QED
  BY <1>1

\* The parts of the ranking of p at level k.
SiblingNames(S, p, k) == {q[k] : q \in {s \in S : Prefix(s, k - 1) = Prefix(p, k - 1)}}
ClaimsAt(v, c, A, p, k) ==
  SumFunctionOnSet([q \in A |-> v[<<c, q>>]], {q \in A : Prefix(q, k) = Prefix(p, k)})
PlaceAt(E, p, k) == Cardinality({x \in SiblingNames(E, p, k) : x < p[k]})

LEMMA RankingIs ==
  ASSUME NEW v, NEW c, NEW A, NEW E, NEW p
  PROVE  Ranking(v, c, A, E, p) =
           [k \in 1..Len(p) |->
              ClaimsAt(v, c, A, p, k) * Cardinality(SiblingNames(A, p, k)) + PlaceAt(E, p, k)]
BY DEF Ranking, SiblingNames, ClaimsAt, PlaceAt

\* What the ranking reads.
Ranked(v, c, A, E) ==
  /\ E \subseteq A /\ A \subseteq Partitions /\ IsFiniteSet(A)
  /\ \A q \in A : v[<<c, q>>] \in Nat

LEMMA RankingParts ==
  ASSUME NEW v, NEW c, NEW A, NEW E, Ranked(v, c, A, E), NEW p \in E, NEW k \in 1..Depth
  PROVE  /\ ClaimsAt(v, c, A, p, k) \in Nat
         /\ IsFiniteSet(SiblingNames(A, p, k)) /\ SiblingNames(A, p, k) \subseteq Nat
         /\ IsFiniteSet(SiblingNames(E, p, k))
         /\ p[k] \in SiblingNames(E, p, k)
         /\ PlaceAt(E, p, k) \in Nat
         /\ PlaceAt(E, p, k) < Cardinality(SiblingNames(A, p, k))
<1> DEFINE f == [q \in A |-> v[<<c, q>>]]
           S == {q \in A : Prefix(q, k) = Prefix(p, k)}
           kin(X) == {s \in X : Prefix(s, k - 1) = Prefix(p, k - 1)}
           Lower == {x \in SiblingNames(E, p, k) : x < p[k]}
<1>1. ClaimsAt(v, c, A, p, k) \in Nat
  <2>1. IsFiniteSet(S) /\ Naturals(f, S)
    <3>1. IsFiniteSet(S)
      BY FS_Subset DEF Ranked
    <3> QED
      BY <3>1 DEF Ranked, Naturals
  <2> HIDE DEF f, S
  <2>2. SumFunctionOnSet(f, S) \in Nat
    BY <2>1, SumType
  <2> QED
    BY <2>2 DEF ClaimsAt, f, S
<1>2. ASSUME NEW X \in SUBSET A
      PROVE  IsFiniteSet(SiblingNames(X, p, k)) /\ SiblingNames(X, p, k) \subseteq Nat
  <2>1. IsFiniteSet(kin(X))
    <3>1. kin(X) \in SUBSET A
      OBVIOUS
    <3> HIDE DEF kin
    <3> QED
      BY <3>1, FS_Subset DEF Ranked
  <2>2. SiblingNames(X, p, k) = {q[k] : q \in kin(X)}
    BY DEF SiblingNames
  <2>3. \A q \in kin(X) : q[k] \in Nat
    BY PartitionTypes DEF Ranked
  <2> HIDE DEF kin
  <2>4. IsFiniteSet({q[k] : q \in kin(X)})
    <3> DEFINE g == [q \in kin(X) |-> q[k]]
               Im == {q[k] : q \in kin(X)}
    <3>1. g \in Surjection(kin(X), Im)
      BY DEF Surjection
    <3> HIDE DEF g, Im
    <3>2. IsFiniteSet(Im)
      BY <2>1, <3>1, FS_Surjection
    <3> QED
      BY <3>2 DEF Im
  <2> QED
    BY <2>2, <2>3, <2>4
<1>3. /\ IsFiniteSet(SiblingNames(A, p, k)) /\ SiblingNames(A, p, k) \subseteq Nat
      /\ IsFiniteSet(SiblingNames(E, p, k))
  BY <1>2 DEF Ranked
<1>4. p[k] \in SiblingNames(E, p, k) /\ SiblingNames(E, p, k) \subseteq SiblingNames(A, p, k)
  BY DEF SiblingNames, Ranked
<1>5. Lower \subseteq SiblingNames(A, p, k) /\ p[k] \in SiblingNames(A, p, k) \ Lower
  BY <1>3, <1>4
<1>6. IsFiniteSet(Lower) /\ Cardinality(Lower) \in Nat
      /\ Cardinality(Lower) < Cardinality(SiblingNames(A, p, k))
  <2> HIDE DEF Lower
  <2> QED
    BY <1>3, <1>5, FS_Subset, FS_CardinalityType
<1> QED
  BY <1>1, <1>3, <1>4, <1>6 DEF PlaceAt

\* A number and a place determine both.
LEMMA NumberAndPlace ==
  ASSUME NEW m \in Nat, NEW n \in Nat, NEW a \in Nat, NEW b \in Nat, NEW size \in Nat,
         a < size, b < size, m * size + a = n * size + b
  PROVE  a = b
<1>1. (size * m + a) % size = a /\ (size * n + b) % size = b
  BY ModUnique
<1>2. size * m = m * size /\ size * n = n * size
  OBVIOUS
<1> QED
  BY <1>1, <1>2

LEMMA RankingType ==
  ASSUME NEW v, NEW c, NEW A, NEW E, Ranked(v, c, A, E), NEW p \in E
  PROVE  Ranking(v, c, A, E, p) \in [1..Depth -> Nat]
<1>1. \A k \in 1..Depth :
        ClaimsAt(v, c, A, p, k) * Cardinality(SiblingNames(A, p, k)) + PlaceAt(E, p, k) \in Nat
  <2> TAKE k \in 1..Depth
  <2>1. /\ ClaimsAt(v, c, A, p, k) \in Nat /\ PlaceAt(E, p, k) \in Nat
        /\ Cardinality(SiblingNames(A, p, k)) \in Nat
    BY RankingParts, FS_CardinalityType
  <2>2. \A x, y, z \in Nat : x * y + z \in Nat
    OBVIOUS
  <2> QED
    BY <2>1, <2>2
<1>2. Len(p) = Depth
  BY PartitionTypes DEF Ranked
<1> QED
  BY <1>1, <1>2, RankingIs

\* Where two partitions part, their places differ.
LEMMA RankingsDiffer ==
  ASSUME NEW v, NEW c, NEW A, NEW E, Ranked(v, c, A, E), NEW p \in E, NEW q \in E, p # q
  PROVE  Ranking(v, c, A, E, p) # Ranking(v, c, A, E, q)
<1>p. p \in Partitions /\ q \in Partitions /\ Len(p) = Depth /\ Len(q) = Depth /\ Depth \in Nat
      /\ p \in [1..Depth -> Nat] /\ q \in [1..Depth -> Nat]
  BY PartitionTypes DEF Ranked
<1> DEFINE T == {k \in 1..Depth : p[k] # q[k]}
<1>1. T \in SUBSET Nat /\ T # {}
  <2>1. \E k \in 1..Depth : p[k] # q[k]
    BY <1>p
  <2>2. PICK k \in 1..Depth : p[k] # q[k]
    BY <2>1
  <2>3. k \in T
    BY <2>2
  <2>4. T \subseteq Nat
    OBVIOUS
  <2> QED
    BY <2>3, <2>4
<1>2. PICK k \in T : \A j \in T : k <= j
  <2> HIDE DEF T
  <2> QED
    BY <1>1, Least
<1>3. k \in 1..Depth /\ p[k] # q[k] /\ \A j \in 1..(k - 1) : p[j] = q[j]
  <2>1. k \in 1..Depth /\ p[k] # q[k]
    OBVIOUS
  <2>2. ASSUME NEW j \in 1..(k - 1), p[j] # q[j] PROVE FALSE
    <3>1. j \in T
      BY <1>p, <2>1, <2>2
    <3> QED
      BY <1>2, <2>1, <3>1
  <2> QED
    BY <2>1, <2>2
<1>4. Prefix(p, k - 1) = Prefix(q, k - 1)
  <2>1. k - 1 \in 0..Depth
    BY <1>p, <1>3
  <2> HIDE DEF T
  <2> QED
    BY <1>p, <1>3, <2>1, SamePrefix
<1>5. /\ SiblingNames(A, p, k) = SiblingNames(A, q, k)
      /\ SiblingNames(E, p, k) = SiblingNames(E, q, k)
  BY <1>4 DEF SiblingNames
<1>6. PlaceAt(E, p, k) # PlaceAt(E, q, k)
  <2>1. ASSUME NEW x \in E, NEW y \in E, SiblingNames(E, x, k) = SiblingNames(E, y, k),
               x[k] < y[k]
        PROVE  PlaceAt(E, x, k) # PlaceAt(E, y, k)
    <3> DEFINE Names == SiblingNames(E, x, k)
               X == {n \in Names : n < x[k]}
               Y == {n \in Names : n < y[k]}
    <3>1. /\ IsFiniteSet(Names) /\ x[k] \in Names /\ y[k] \in Names /\ Names \subseteq Nat
      <4>1. IsFiniteSet(Names) /\ x[k] \in Names /\ y[k] \in Names
        BY <1>3, <2>1, RankingParts
      <4>2. Names \subseteq SiblingNames(A, x, k) /\ SiblingNames(A, x, k) \subseteq Nat
        <5>1. SiblingNames(A, x, k) \subseteq Nat
          BY <1>3, RankingParts
        <5>2. Names \subseteq SiblingNames(A, x, k)
          BY DEF SiblingNames, Ranked
        <5> QED
          BY <5>1, <5>2
      <4> QED
        BY <4>1, <4>2
    <3> HIDE DEF Names
    <3>2. X \subseteq Y /\ x[k] \in Y /\ x[k] \notin X
      <4>1. \A n \in Names : n \in Nat
        BY <3>1
      <4>a. x[k] \in Nat /\ y[k] \in Nat
        BY <3>1
      <4>2. x[k] \in Nat /\ y[k] \in Nat /\ ~(x[k] < x[k])
        BY <4>a
      <4>3. \A n \in Names : n < x[k] => n < y[k]
        BY <2>1, <4>1, <4>2
      <4> QED
        BY <2>1, <3>1, <4>2, <4>3
    <3>3. IsFiniteSet(Y)
      BY <3>1, FS_Subset
    <3> HIDE DEF X, Y
    <3>4. Cardinality(X) # Cardinality(Y)
      BY <3>2, <3>3, FS_Subset
    <3> QED
      BY <2>1, <3>4 DEF PlaceAt, X, Y, Names
  <2>2. p[k] < q[k] \/ q[k] < p[k]
    BY <1>p, <1>3
  <2> QED
    BY <1>5, <2>1, <2>2
<1>7. ClaimsAt(v, c, A, p, k) * Cardinality(SiblingNames(A, p, k)) + PlaceAt(E, p, k)
        # ClaimsAt(v, c, A, q, k) * Cardinality(SiblingNames(A, q, k)) + PlaceAt(E, q, k)
  <2>1. /\ ClaimsAt(v, c, A, p, k) \in Nat /\ PlaceAt(E, p, k) \in Nat
        /\ PlaceAt(E, p, k) < Cardinality(SiblingNames(A, p, k))
        /\ Cardinality(SiblingNames(A, p, k)) \in Nat
    BY <1>3, RankingParts, FS_CardinalityType
  <2>2. /\ ClaimsAt(v, c, A, q, k) \in Nat /\ PlaceAt(E, q, k) \in Nat
        /\ PlaceAt(E, q, k) < Cardinality(SiblingNames(A, q, k))
    BY <1>3, RankingParts
  <2> QED
    BY <1>5, <1>6, <2>1, <2>2, NumberAndPlace
<1>8. /\ Ranking(v, c, A, E, p)[k] =
           ClaimsAt(v, c, A, p, k) * Cardinality(SiblingNames(A, p, k)) + PlaceAt(E, p, k)
      /\ Ranking(v, c, A, E, q)[k] =
           ClaimsAt(v, c, A, q, k) * Cardinality(SiblingNames(A, q, k)) + PlaceAt(E, q, k)
  BY <1>p, <1>3, RankingIs
<1> QED
  BY <1>7, <1>8

\* There is a first one.
LEMMA FirstRanked ==
  ASSUME NEW v, NEW c, NEW A, NEW E, Ranked(v, c, A, E), E # {}
  PROVE  \E p \in E : \A q \in E \ {p} :
           Precedes(Ranking(v, c, A, E, p), Ranking(v, c, A, E, q))
<1> DEFINE rank == [p \in E |-> Ranking(v, c, A, E, p)]
           R == {x \in E \X E : Precedes(rank[x[1]], rank[x[2]])}
<1>1. rank \in [E -> [1..Depth -> Nat]] /\ \A p, q \in E : p # q => rank[p] # rank[q]
  BY RankingType, RankingsDiffer
<1>2. \A p \in E : rank[p] = Ranking(v, c, A, E, p)
  OBVIOUS
<1>3. IsFiniteSet(E) /\ Depth \in Nat
  BY FS_Subset, PartitionTypes DEF Ranked
<1> HIDE DEF rank
<1>4. \A p, q \in E : <<p, q>> \in R <=> Precedes(rank[p], rank[q])
  OBVIOUS
<1> HIDE DEF R
<1>5. \A p, q, r \in E :
        /\ ~Precedes(rank[p], rank[p])
        /\ Precedes(rank[p], rank[q]) /\ Precedes(rank[q], rank[r]) => Precedes(rank[p], rank[r])
        /\ rank[p] # rank[q] => Precedes(rank[p], rank[q]) \/ Precedes(rank[q], rank[p])
  <2> TAKE p, q, r \in E
  <2>1. /\ rank[p] \in [1..Depth -> Nat] /\ rank[q] \in [1..Depth -> Nat]
        /\ rank[r] \in [1..Depth -> Nat]
    BY <1>1
  <2> QED
    BY <1>3, <2>1, PrecedesIsAnOrder
<1>6. /\ \A x \in E : <<x, x>> \notin R
      /\ \A x, y, z \in E : <<x, y>> \in R /\ <<y, z>> \in R => <<x, z>> \in R
      /\ \A x, y \in E : x # y => <<x, y>> \in R \/ <<y, x>> \in R
  BY <1>1, <1>4, <1>5
<1>7. \E x \in E : \A y \in E \ {x} : <<x, y>> \in R
  BY <1>3, <1>6, FirstOf
<1> QED
  BY <1>2, <1>4, <1>7

-----------------------------------------------------------------------------
(***************************************************************************)
(* The selection of a partition.                                           *)
(***************************************************************************)
Remaining(r, v, c, R) == Eligible(r, v, c) \ R

\* fairRankedCandidate without the rejected partitions R.
FirstLeft(r, v, c, R) ==
  LET A == {p \in Partitions \ R : <<c, p>> \in DOMAIN v}
      E == Remaining(r, v, c, R)
  IN CHOOSE p \in E : \A q \in E \ {p} :
       Precedes(Ranking(v, c, A, E, p), Ranking(v, c, A, E, q))

\* The candidate loop of selectFairCandidate, which goes on with g.
LoopFrom(r, v, c, g, R) ==
  IF Remaining(r, v, c, R) = {} THEN {}
  ELSE IF HasLeaseCapacity(r, FirstLeft(r, v, c, R)) THEN {FirstLeft(r, v, c, R)}
  ELSE g[R \cup {FirstLeft(r, v, c, R)}]

Picks(r, v, c, pick) == pick = [R \in SUBSET Partitions |-> LoopFrom(r, v, c, pick, R)]

LEMMA PickDef ==
  ASSUME NEW r, NEW v, NEW c
  PROVE  PickPartition(r, v, c) = (CHOOSE pick : Picks(r, v, c, pick))[{}]
BY DEF PickPartition, Picks, LoopFrom, FirstLeft, Remaining

Counts(v) == \A key \in DOMAIN v : v[key] \in Nat

LEMMA FirstLeftIs ==
  ASSUME IsFiniteSet(Partitions), NEW r, NEW v, Counts(v), NEW c, NEW R \in SUBSET Partitions,
         Remaining(r, v, c, R) # {}
  PROVE  FirstLeft(r, v, c, R) \in Remaining(r, v, c, R)
<1> DEFINE A == {p \in Partitions \ R : <<c, p>> \in DOMAIN v}
           E == Remaining(r, v, c, R)
<1>1. Ranked(v, c, A, E)
  <2>1. IsFiniteSet(A)
    BY FS_Subset
  <2> QED
    BY <2>1 DEF Ranked, Counts, Remaining, Eligible
<1> HIDE DEF A, E
<1>2. E # {}
  BY DEF E
<1>3. \E p \in E : \A q \in E \ {p} :
        Precedes(Ranking(v, c, A, E, p), Ranking(v, c, A, E, q))
  BY <1>1, <1>2, FirstRanked
<1>4. (CHOOSE p \in E : \A q \in E \ {p} :
         Precedes(Ranking(v, c, A, E, p), Ranking(v, c, A, E, q))) \in E
  BY <1>3
<1> QED
  BY <1>4 DEF FirstLeft, A, E

\* Each turn of the loop leaves fewer partitions.
LEMMA FewerLeft ==
  ASSUME IsFiniteSet(Partitions), NEW r, NEW v, Counts(v), NEW c, NEW R \in SUBSET Partitions,
         Remaining(r, v, c, R) # {}
  PROVE  /\ R \cup {FirstLeft(r, v, c, R)} \in SUBSET Partitions
         /\ Cardinality(Partitions \ R) \in Nat
         /\ Cardinality(Partitions \ (R \cup {FirstLeft(r, v, c, R)})) \in Nat
         /\ Cardinality(Partitions \ (R \cup {FirstLeft(r, v, c, R)}))
              < Cardinality(Partitions \ R)
<1> DEFINE p == FirstLeft(r, v, c, R)
<1>1. p \in Partitions \ R
  BY FirstLeftIs DEF Remaining, Eligible
<1> HIDE DEF p
<1> DEFINE U == Partitions \ R
           V == Partitions \ (R \cup {p})
<1>2. V \in SUBSET U /\ p \in U /\ p \notin V
  BY <1>1
<1>3. IsFiniteSet(U) /\ IsFiniteSet(V)
  BY FS_Subset
<1>4. Cardinality(U) \in Nat /\ Cardinality(V) \in Nat /\ Cardinality(V) < Cardinality(U)
  <2> HIDE DEF U, V
  <2> QED
    BY <1>2, <1>3, FS_Subset, FS_CardinalityType
<1> QED
  BY <1>1, <1>4 DEF p

LEMMA PickExists ==
  ASSUME IsFiniteSet(Partitions), NEW r, NEW v, Counts(v), NEW c
  PROVE  \E pick : Picks(r, v, c, pick)
<1> DEFINE size(R) == Cardinality(Partitions \ R)
           n == Cardinality(Partitions)
           Upto(g, m) == \A R \in SUBSET Partitions :
                           size(R) <= m => g[R] = LoopFrom(r, v, c, g, R)
           S == {m \in 0..n : \E g : Upto(g, m)}
<1>1. n \in Nat /\ \A R \in SUBSET Partitions : size(R) \in Nat /\ size(R) <= n
  <2>1. n \in Nat
    BY FS_CardinalityType
  <2>2. ASSUME NEW R \in SUBSET Partitions PROVE size(R) \in Nat /\ size(R) <= n
    BY FS_Subset, FS_CardinalityType
  <2> QED
    BY <2>1, <2>2
<1>2. \A R \in SUBSET Partitions :
        Remaining(r, v, c, R) # {} =>
          LET T == R \cup {FirstLeft(r, v, c, R)}
          IN T \in SUBSET Partitions /\ size(T) < size(R)
  BY FewerLeft
<1> HIDE DEF n
<1>3. 0 \in S
  <2>1. ASSUME NEW R \in SUBSET Partitions, size(R) <= 0
        PROVE  Remaining(r, v, c, R) = {}
    <3>1. size(R) = 0
      BY <1>1, <2>1
    <3>2. Partitions \ R = {}
      BY <3>1, FS_Subset, FS_EmptySet
    <3> QED
      BY <3>2 DEF Remaining, Eligible
  <2> DEFINE g == [R \in SUBSET Partitions |-> {}]
  <2>2. Upto(g, 0)
    BY <2>1 DEF LoopFrom
  <2>3. 0 \in 0..n
    BY <1>1
  <2> HIDE DEF g, Upto
  <2> QED
    BY <2>2, <2>3
<1>4. ASSUME NEW m \in 1..n, m - 1 \in S
      PROVE  m \in S
  <2>1. PICK g : Upto(g, m - 1)
    BY <1>4
  <2> DEFINE h == [R \in SUBSET Partitions |->
                     IF size(R) <= m - 1 THEN g[R] ELSE LoopFrom(r, v, c, g, R)]
  <2>2. ASSUME NEW R \in SUBSET Partitions
        PROVE  h[R] = LoopFrom(r, v, c, g, R)
    BY <2>1
  <2>3. ASSUME NEW R \in SUBSET Partitions, size(R) <= m
        PROVE  LoopFrom(r, v, c, h, R) = LoopFrom(r, v, c, g, R)
    <3>1. CASE Remaining(r, v, c, R) = {}
      BY <3>1 DEF LoopFrom
    <3>2. CASE Remaining(r, v, c, R) # {}
      <4> DEFINE T == R \cup {FirstLeft(r, v, c, R)}
      <4>1. T \in SUBSET Partitions /\ size(T) < size(R)
        BY <1>2, <3>2
      <4>2. size(T) <= m - 1
        <5>1. size(T) \in Nat /\ size(R) \in Nat
          BY <1>1, <4>1
        <5>2. n \in Nat /\ m \in 1..n
          BY <1>1
        <5>3. m \in Nat \ {0}
          BY <5>2
        <5> HIDE DEF size
        <5> QED
          BY <2>3, <4>1, <5>1, <5>3
      <4> HIDE DEF T, size
      <4>3. h[T] = g[T]
        BY <4>1, <4>2
      <4> QED
        BY <4>3 DEF LoopFrom, T
    <3> QED
      BY <3>1, <3>2
  <2> HIDE DEF h
  <2>4. Upto(h, m)
    BY <2>2, <2>3
  <2> HIDE DEF Upto
  <2> QED
    BY <1>1, <2>4
<1>5. n \in S
  <2>1. 0..n \subseteq S
    <3> HIDE DEF S
    <3> QED
      BY <1>1, <1>3, <1>4, UpTo
  <2> QED
    BY <1>1, <2>1
<1>6. PICK g : Upto(g, n)
  BY <1>5
<1>7. \A R \in SUBSET Partitions : g[R] = LoopFrom(r, v, c, g, R)
  BY <1>1, <1>6
<1> DEFINE pick == [R \in SUBSET Partitions |-> LoopFrom(r, v, c, g, R)]
<1>8. ASSUME NEW R \in SUBSET Partitions
      PROVE  LoopFrom(r, v, c, pick, R) = LoopFrom(r, v, c, g, R)
  <2>1. CASE Remaining(r, v, c, R) = {}
    BY <2>1 DEF LoopFrom
  <2>2. CASE Remaining(r, v, c, R) # {}
    <3> DEFINE T == R \cup {FirstLeft(r, v, c, R)}
    <3>1. T \in SUBSET Partitions
      BY <1>2, <2>2
    <3> HIDE DEF T
    <3>2. pick[T] = g[T]
      BY <1>7, <3>1
    <3> HIDE DEF pick
    <3> QED
      BY <3>2 DEF LoopFrom, T
  <2> QED
    BY <2>1, <2>2
<1>9. Picks(r, v, c, pick)
  BY <1>8 DEF Picks
<1> QED
  BY <1>9

\* A partition is picked unless none has capacity, and it has capacity itself.
LEMMA PickIs ==
  ASSUME IsFiniteSet(Partitions), NEW r, NEW v, Counts(v), NEW c
  PROVE  \/ /\ PickPartition(r, v, c) = {}
            /\ \A p \in Eligible(r, v, c) : ~HasLeaseCapacity(r, p)
         \/ \E p \in Eligible(r, v, c) : PickPartition(r, v, c) = {p} /\ HasLeaseCapacity(r, p)
<1> DEFINE size(R) == Cardinality(Partitions \ R)
           n == Cardinality(Partitions)
           pick == CHOOSE g : Picks(r, v, c, g)
           Rejectable(R) == \A p \in R \cap Eligible(r, v, c) : ~HasLeaseCapacity(r, p)
           Good(X) == \/ X = {} /\ \A p \in Eligible(r, v, c) : ~HasLeaseCapacity(r, p)
                      \/ \E p \in Eligible(r, v, c) : X = {p} /\ HasLeaseCapacity(r, p)
           S == {m \in 0..n : \A R \in SUBSET Partitions :
                   size(R) <= m /\ Rejectable(R) => Good(pick[R])}
<1>1. n \in Nat /\ \A R \in SUBSET Partitions : size(R) \in Nat /\ size(R) <= n
  <2>1. n \in Nat
    BY FS_CardinalityType
  <2>2. ASSUME NEW R \in SUBSET Partitions PROVE size(R) \in Nat /\ size(R) <= n
    BY FS_Subset, FS_CardinalityType
  <2> QED
    BY <2>1, <2>2
<1>2. \A R \in SUBSET Partitions : pick[R] = LoopFrom(r, v, c, pick, R)
  <2>1. Picks(r, v, c, pick)
    BY PickExists
  <2> HIDE DEF pick
  <2> QED
    BY <2>1 DEF Picks
<1> HIDE DEF n, pick
<1>3. ASSUME NEW R \in SUBSET Partitions, Rejectable(R), Remaining(r, v, c, R) = {}
      PROVE  Good(pick[R])
  <2>1. pick[R] = {}
    BY <1>2, <1>3 DEF LoopFrom
  <2>2. \A p \in Eligible(r, v, c) : ~HasLeaseCapacity(r, p)
    BY <1>3 DEF Remaining
  <2> QED
    BY <2>1, <2>2
<1>4. 0 \in S
  <2>1. ASSUME NEW R \in SUBSET Partitions, size(R) <= 0
        PROVE  Remaining(r, v, c, R) = {}
    <3>1. size(R) = 0
      BY <1>1, <2>1
    <3>2. Partitions \ R = {}
      BY <3>1, FS_Subset, FS_EmptySet
    <3> QED
      BY <3>2 DEF Remaining, Eligible
  <2>2. \A R \in SUBSET Partitions : size(R) <= 0 /\ Rejectable(R) => Good(pick[R])
    <3> HIDE DEF size, Rejectable, Good
    <3> QED
      BY <1>3, <2>1
  <2>3. 0 \in 0..n
    BY <1>1
  <2> HIDE DEF size, Rejectable, Good
  <2> QED
    BY <2>2, <2>3
<1>5. ASSUME NEW m \in 1..n, m - 1 \in S
      PROVE  m \in S
  <2>1. ASSUME NEW R \in SUBSET Partitions, size(R) <= m, Rejectable(R)
        PROVE  Good(pick[R])
    <3>1. CASE Remaining(r, v, c, R) = {}
      <4> HIDE DEF Rejectable, Good
      <4> QED
        BY <1>3, <2>1, <3>1
    <3>2. CASE Remaining(r, v, c, R) # {}
      <4> DEFINE p == FirstLeft(r, v, c, R)
                 T == R \cup {p}
      <4>1. T \in SUBSET Partitions /\ size(T) \in Nat /\ size(R) \in Nat /\ size(T) < size(R)
        BY <3>2, FewerLeft
      <4>2. p \in Eligible(r, v, c)
        BY <3>2, FirstLeftIs DEF Remaining
      <4>3. size(T) <= m - 1
        <5>1. n \in Nat /\ m \in 1..n
          BY <1>1
        <5>2. m \in Nat \ {0}
          BY <5>1
        <5> HIDE DEF size
        <5> QED
          BY <2>1, <4>1, <5>2
      <4>4. pick[R] = IF HasLeaseCapacity(r, p) THEN {p} ELSE pick[T]
        BY <1>2, <3>2 DEF LoopFrom
      <4> HIDE DEF p, size
      <4>5. CASE HasLeaseCapacity(r, p)
        BY <4>2, <4>4, <4>5
      <4>6. CASE ~HasLeaseCapacity(r, p)
        <5>1. Rejectable(T)
          BY <2>1, <4>6
        <5>2. Good(pick[T])
          <6> HIDE DEF Good, Rejectable, T
          <6> QED
            BY <1>5, <4>1, <4>3, <5>1
        <5>3. pick[R] = pick[T]
          BY <4>4, <4>6
        <5> HIDE DEF Good, T
        <5> QED
          BY <5>2, <5>3
      <4> QED
        BY <4>5, <4>6
    <3> QED
      BY <3>1, <3>2
  <2> HIDE DEF Good, Rejectable, size
  <2>2. m \in 0..n
    BY <1>1
  <2> QED
    BY <2>1, <2>2
<1>6. n \in S
  <2>1. 0..n \subseteq S
    <3> HIDE DEF S
    <3> QED
      BY <1>1, <1>4, <1>5, UpTo
  <2> QED
    BY <1>1, <2>1
<1>7. Good(pick[{}])
  <2>1. {} \in SUBSET Partitions /\ size({}) <= n
    BY <1>1
  <2>2. Rejectable({})
    OBVIOUS
  <2> HIDE DEF Good, size, Rejectable
  <2> QED
    BY <1>6, <2>1, <2>2
<1>8. PickPartition(r, v, c) = pick[{}]
  BY PickDef DEF pick
<1> QED
  BY <1>7, <1>8

-----------------------------------------------------------------------------
(***************************************************************************)
(* The selection of an item, and the slots passed over.                    *)
(***************************************************************************)
LEMMA PartitionsFinite ==
  ASSUME IsFiniteSet(WorkItems)
  PROVE  IsFiniteSet(Partitions)
<1> DEFINE g == [i \in WorkItems |-> Partition[i]]
<1>1. g \in Surjection(WorkItems, Partitions)
  BY DEF Surjection, Partitions
<1> QED
  BY <1>1, FS_Surjection

LEMMA CandidatesAre ==
  ASSUME IsFiniteSet(WorkItems), NEW r, NEW v, Counts(v), NEW c
  PROVE  \A i \in Candidates(r, v, c) :
           /\ i \in WorkItems /\ r[i].state = "queued" /\ r[i].class = c
           /\ <<c, Partition[i]>> \in DOMAIN v /\ HasLeaseCapacity(r, Partition[i])
<1> SUFFICES ASSUME NEW i \in Candidates(r, v, c)
             PROVE  /\ i \in WorkItems /\ r[i].state = "queued" /\ r[i].class = c
                    /\ <<c, Partition[i]>> \in DOMAIN v /\ HasLeaseCapacity(r, Partition[i])
  OBVIOUS
<1>1. /\ i \in WorkItems /\ r[i].state = "queued" /\ r[i].class = c
      /\ Partition[i] \in PickPartition(r, v, c)
  BY DEF Candidates
<1>2. PICK p \in Eligible(r, v, c) : PickPartition(r, v, c) = {p} /\ HasLeaseCapacity(r, p)
  BY <1>1, PickIs, PartitionsFinite
<1> QED
  BY <1>1, <1>2 DEF Eligible

\* A class without a candidate has no partition that could be leased from.
LEMMA NoCandidates ==
  ASSUME IsFiniteSet(WorkItems), NEW r, \A i \in WorkItems : r[i].since \in Nat,
         NEW v, Counts(v), NEW c, Candidates(r, v, c) = {}
  PROVE  \A i \in WorkItems :
           r[i].state = "queued" /\ r[i].class = c /\ <<c, Partition[i]>> \in DOMAIN v
             => ~HasLeaseCapacity(r, Partition[i])
<1>1. ASSUME NEW p \in Eligible(r, v, c), PickPartition(r, v, c) = {p}
      PROVE  FALSE
  <2> DEFINE I == {i \in WorkItems : r[i].state = "queued" /\ r[i].class = c
                                     /\ Partition[i] \in PickPartition(r, v, c)}
             T == {r[i].since : i \in I}
  <2>1. I # {}
    BY <1>1 DEF Eligible
  <2>2. T \in SUBSET Nat /\ T # {}
    BY <2>1
  <2>3. PICK x \in T : \A y \in T : x <= y
    <3> HIDE DEF T
    <3> QED
      BY <2>2, Least
  <2>4. PICK i \in I : r[i].since = x
    OBVIOUS
  <2>5. \A j \in I : r[i].since <= r[j].since
    BY <2>3, <2>4
  <2>6. i \in Candidates(r, v, c)
    BY <2>4, <2>5 DEF Candidates
  <2> QED
    BY <2>6
<1>2. \A p \in Eligible(r, v, c) : ~HasLeaseCapacity(r, p)
  BY <1>1, PickIs, PartitionsFinite
<1> QED
  BY <1>2 DEF Eligible, Partitions

LEMMA SlotClasses ==
  /\ \A q \in Nat : ClassAt(q) \in Classes
  /\ \A q \in Nat : q % Len(PriorityCycle) \in 0..(Len(PriorityCycle) - 1)
<1>1. Len(PriorityCycle) \in Nat \ {0} /\ DOMAIN PriorityCycle = 1..Len(PriorityCycle)
  BY CycleTypes
<1>2. ASSUME NEW q \in Nat
      PROVE  q % Len(PriorityCycle) \in 0..(Len(PriorityCycle) - 1)
  BY <1>1, Remainders
<1>3. ASSUME NEW q \in Nat
      PROVE  ClassAt(q) \in Classes
  <2>1. (q % Len(PriorityCycle)) + 1 \in DOMAIN PriorityCycle
    <3>1. \A m \in Nat \ {0} : \A x \in 0..(m - 1) : x + 1 \in 1..m
      OBVIOUS
    <3> QED
      BY <1>1, <1>2, <3>1
  <2> QED
    BY <2>1 DEF ClassAt, Classes
<1> QED
  BY <1>2, <1>3

\* The slot taken is the first one with work; there is one if any class has work.
LEMMA SlotsAheadAre ==
  ASSUME NEW r, NEW v, NEW cursor \in Nat
  PROVE  /\ \A k \in SlotsAhead(r, v, cursor) :
              /\ k \in Nat /\ Candidates(r, v, ClassAt(cursor + k)) # {}
              /\ \A j \in 0..(k - 1) : Candidates(r, v, ClassAt(cursor + j)) = {}
         /\ SlotsAhead(r, v, cursor) = {} => \A c \in Classes : Candidates(r, v, c) = {}
<1> DEFINE len == Len(PriorityCycle)
           S == {k \in 0..(len - 1) : Candidates(r, v, ClassAt(cursor + k)) # {}}
<1>1. len \in Nat \ {0} /\ DOMAIN PriorityCycle = 1..len
  BY CycleTypes
<1>2. SlotsAhead(r, v, cursor) = {k \in S : \A j \in S : k <= j}
  BY DEF SlotsAhead
<1>3. ASSUME NEW k \in SlotsAhead(r, v, cursor), NEW j \in 0..(k - 1)
      PROVE  Candidates(r, v, ClassAt(cursor + j)) = {}
  <2>1. k \in 0..(len - 1) /\ j \in 0..(len - 1) /\ j < k
    <3>1. k \in 0..(len - 1)
      BY <1>2
    <3> QED
      BY <1>1, <3>1
  <2>2. ~(k <= j)
    BY <2>1
  <2>3. j \notin S
    BY <1>2, <2>2
  <2> QED
    BY <2>1, <2>3
<1>4. ASSUME NEW c \in Classes, Candidates(r, v, c) # {}
      PROVE  S # {}
  <2>1. PICK k \in 1..len : PriorityCycle[k] = c
    BY <1>1 DEF Classes
  <2>2. PICK j \in 0..(len - 1) : (cursor + j) % len = k - 1
    <3>1. k - 1 \in 0..(len - 1)
      BY <1>1
    <3> HIDE DEF len
    <3> QED
      BY <1>1, <3>1, SlotAmong
  <2>3. ClassAt(cursor + j) = c
    <3>1. (k - 1) + 1 = k
      BY <1>1
    <3> QED
      BY <2>1, <2>2, <3>1 DEF ClassAt
  <2> QED
    BY <1>4, <2>3
<1>5. ASSUME S # {}
      PROVE  SlotsAhead(r, v, cursor) # {}
  <2>1. S \in SUBSET Nat
    BY <1>1
  <2> HIDE DEF S
  <2>2. PICK k \in S : \A j \in S : k <= j
    BY <1>5, <2>1, Least
  <2> QED
    BY <1>2, <2>2
<1>6. \A k \in SlotsAhead(r, v, cursor) :
        k \in Nat /\ Candidates(r, v, ClassAt(cursor + k)) # {}
  BY <1>1, <1>2
<1> QED
  BY <1>3, <1>4, <1>5, <1>6

-----------------------------------------------------------------------------
(***************************************************************************)
(* The loop of claimTx.                                                    *)
(***************************************************************************)
Ready(s) == {c \in Classes : Candidates(s.rows, s.visits, c) # {}}

\* The state after the visit that takes item i, k slots ahead.
Taken(s, k, i) ==
  [rows |-> [s.rows EXCEPT ![i].state = "running"],
   visits |-> [s.visits EXCEPT ![<<s.rows[i].class, Partition[i]>>] = @ + 1],
   cursor |-> s.cursor + k + 1,
   served |-> Append(s.served, [class |-> s.rows[i].class, ready |-> Ready(s),
                                slot |-> s.cursor + k, first |-> s.first]),
   first |-> FALSE]

LEMMA VisitDef ==
  ASSUME NEW s
  PROVE  Visit(s) =
           UNION {{Taken(s, k, i) : i \in Candidates(s.rows, s.visits, ClassAt(s.cursor + k))} :
                    k \in SlotsAhead(s.rows, s.visits, s.cursor)}
BY DEF Visit, Taken, Ready

LEMMA VisitIs ==
  ASSUME NEW s, s.cursor \in Nat, NEW t \in Visit(s)
  PROVE  \E k \in Nat : \E i \in Candidates(s.rows, s.visits, ClassAt(s.cursor + k)) :
           /\ t = Taken(s, k, i)
           /\ \A j \in 0..(k - 1) : Candidates(s.rows, s.visits, ClassAt(s.cursor + j)) = {}
<1>1. PICK k \in SlotsAhead(s.rows, s.visits, s.cursor) :
        \E i \in Candidates(s.rows, s.visits, ClassAt(s.cursor + k)) : t = Taken(s, k, i)
  BY VisitDef
<1>2. /\ k \in Nat
      /\ \A j \in 0..(k - 1) : Candidates(s.rows, s.visits, ClassAt(s.cursor + j)) = {}
  BY SlotsAheadAre
<1> QED
  BY <1>1, <1>2

LEMMA NoVisit ==
  ASSUME NEW s, s.cursor \in Nat, Visit(s) = {}
  PROVE  \A c \in Classes : Candidates(s.rows, s.visits, c) = {}
<1>1. ASSUME NEW k \in SlotsAhead(s.rows, s.visits, s.cursor)
      PROVE  FALSE
  <2>1. PICK i : i \in Candidates(s.rows, s.visits, ClassAt(s.cursor + k))
    BY SlotsAheadAre
  <2>2. Taken(s, k, i) \in Visit(s)
    <3> DEFINE SlotVisits(l) ==
                 {Taken(s, l, x) : x \in Candidates(s.rows, s.visits, ClassAt(s.cursor + l))}
    <3>1. Taken(s, k, i) \in SlotVisits(k)
      BY <2>1
    <3>2. Visit(s) = UNION {SlotVisits(l) : l \in SlotsAhead(s.rows, s.visits, s.cursor)}
      BY VisitDef
    <3> HIDE DEF SlotVisits
    <3> QED
      BY <3>1, <3>2
  <2> QED
    BY <2>2
<1> QED
  BY <1>1, SlotsAheadAre

\* The states after up to k visits.
AfterVisit(start, f, k) ==
  IF k = 0 THEN {start}
  ELSE UNION {IF Visit(s) = {} THEN {s} ELSE Visit(s) : s \in f[k - 1]}

Loop(start, n, after) == after = [k \in 0..n |-> AfterVisit(start, after, k)]

LEMMA VisitsDef ==
  ASSUME NEW start, NEW n
  PROVE  Visits(start, n) = (CHOOSE after : Loop(start, n, after))[n]
BY DEF Visits, Loop, AfterVisit

LEMMA LoopExists ==
  ASSUME NEW start, NEW n \in Nat
  PROVE  \E after : Loop(start, n, after)
<1> DEFINE Upto(g, m) == \A k \in 0..m : g[k] = AfterVisit(start, g, k)
           S == {m \in 0..n : \E g : Upto(g, m)}
<1>1. 0 \in S
  <2> DEFINE g == [k \in {0} |-> {start}]
  <2>1. Upto(g, 0)
    BY DEF AfterVisit
  <2>2. 0 \in 0..n
    OBVIOUS
  <2> HIDE DEF g, Upto
  <2> QED
    BY <2>1, <2>2
<1>2. ASSUME NEW m \in 1..n, m - 1 \in S
      PROVE  m \in S
  <2>1. PICK g : Upto(g, m - 1)
    BY <1>2
  <2> DEFINE h == [k \in 0..m |-> IF k = m THEN AfterVisit(start, g, m) ELSE g[k]]
  <2>m. m \in Nat /\ m # 0 /\ m - 1 \in 0..(m - 1) /\ m - 1 \in 0..m /\ m - 1 # m
    OBVIOUS
  <2>2. ASSUME NEW k \in 0..(m - 1)
        PROVE  h[k] = AfterVisit(start, h, k)
    <3>1. k \in 0..m /\ k # m /\ (k # 0 => k - 1 \in 0..m /\ k - 1 # m)
      BY <2>m
    <3>2. h[k] = g[k] /\ (k # 0 => h[k - 1] = g[k - 1])
      BY <3>1
    <3>3. g[k] = AfterVisit(start, g, k)
      BY <2>1
    <3> HIDE DEF h
    <3> QED
      BY <3>2, <3>3 DEF AfterVisit
  <2>3. h[m] = AfterVisit(start, h, m)
    <3>1. h[m] = AfterVisit(start, g, m) /\ h[m - 1] = g[m - 1]
      BY <2>m
    <3> HIDE DEF h
    <3> QED
      BY <3>1, <2>m DEF AfterVisit
  <2>4. \A k \in 0..m : k = m \/ k \in 0..(m - 1)
    BY <2>m
  <2> HIDE DEF h
  <2>5. Upto(h, m)
    BY <2>2, <2>3, <2>4
  <2>6. m \in 0..n
    OBVIOUS
  <2> HIDE DEF Upto
  <2> QED
    BY <2>5, <2>6
<1>3. n \in S
  <2>1. 0..n \subseteq S
    <3> HIDE DEF S
    <3> QED
      BY <1>1, <1>2, UpTo
  <2> QED
    BY <2>1
<1>4. PICK g : Upto(g, n)
  BY <1>3
<1> DEFINE after == [k \in 0..n |-> AfterVisit(start, g, k)]
<1>5. ASSUME NEW k \in 0..n
      PROVE  AfterVisit(start, after, k) = AfterVisit(start, g, k)
  <2>1. CASE k = 0
    BY <2>1 DEF AfterVisit
  <2>2. CASE k # 0
    <3>1. k - 1 \in 0..n
      BY <2>2
    <3>2. after[k - 1] = g[k - 1]
      BY <1>4, <3>1
    <3> HIDE DEF after
    <3> QED
      BY <2>2, <3>2 DEF AfterVisit
  <2> QED
    BY <2>1, <2>2
<1> QED
  BY <1>5 DEF Loop

\* What holds before the first visit, and of each state if it held before the visit
\* that led to it, holds in the end.
LEMMA LoopRule ==
  ASSUME NEW start, NEW n \in Nat, NEW Inv, start \in Inv[0],
         \A k \in 1..n : \A s \in Inv[k - 1] :
           IF Visit(s) = {} THEN s \in Inv[k] ELSE Visit(s) \subseteq Inv[k]
  PROVE  Visits(start, n) \subseteq Inv[n]
<1> DEFINE after == CHOOSE f : Loop(start, n, f)
           S == {k \in 0..n : after[k] \subseteq Inv[k]}
<1>1. \A k \in 0..n : after[k] = AfterVisit(start, after, k)
  <2>1. Loop(start, n, after)
    BY LoopExists
  <2> HIDE DEF after
  <2> QED
    BY <2>1 DEF Loop
<1> HIDE DEF after
<1>2. 0 \in S
  <2>1. 0 \in 0..n
    OBVIOUS
  <2> QED
    BY <1>1, <2>1 DEF AfterVisit
<1>3. ASSUME NEW k \in 1..n, k - 1 \in S
      PROVE  k \in S
  <2>1. k \in 0..n /\ k # 0
    OBVIOUS
  <2>2. after[k] = UNION {IF Visit(s) = {} THEN {s} ELSE Visit(s) : s \in after[k - 1]}
    BY <1>1, <2>1 DEF AfterVisit
  <2>3. after[k - 1] \subseteq Inv[k - 1]
    BY <1>3
  <2> QED
    BY <2>1, <2>2, <2>3
<1>4. n \in S
  <2>1. 0..n \subseteq S
    <3> HIDE DEF S
    <3> QED
      BY <1>2, <1>3, UpTo
  <2> QED
    BY <2>1
<1> QED
  BY <1>4, VisitsDef DEF after

-----------------------------------------------------------------------------
(***************************************************************************)
(* The slots of the visits.                                                *)
(***************************************************************************)
VisitRecord == [class : Classes, ready : SUBSET Classes, slot : Nat, first : BOOLEAN]

PassedOver(ready, from, to) == \A q \in from..(to - 1) : ClassAt(q) \notin ready

\* The visit j of those counted in total: it is not before its turn, and passed over
\* only slots without work, from where the claim began or from the visit before it.
SlotOf(visited, total, j) ==
  LET turn == total - Len(visited) + j - 1
      visit == visited[j]
  IN /\ visit.class = ClassAt(visit.slot) /\ turn <= visit.slot
     /\ visit.first => PassedOver(visit.ready, turn, visit.slot)
     /\ ~visit.first /\ j > 1 =>
          /\ visited[j - 1].slot < visit.slot
          /\ PassedOver(visit.ready, visited[j - 1].slot + 1, visit.slot)

Slotted(visited, total) ==
  /\ visited \in Seq(VisitRecord) /\ total \in Nat /\ Len(visited) <= total
  /\ \A j \in 1..Len(visited) : SlotOf(visited, total, j)

LEMMA SlottedAppend ==
  ASSUME NEW visited, NEW total, Slotted(visited, total), NEW e \in VisitRecord,
         e.class = ClassAt(e.slot), total <= e.slot,
         e.first => PassedOver(e.ready, total, e.slot),
         ~e.first /\ visited # <<>> =>
           /\ visited[Len(visited)].slot < e.slot
           /\ PassedOver(e.ready, visited[Len(visited)].slot + 1, e.slot)
  PROVE  Slotted(Append(visited, e), total + 1)
<1> DEFINE n == Len(visited)
           s == Append(visited, e)
<1>1. visited \in Seq(VisitRecord) /\ total \in Nat /\ n \in Nat /\ n <= total
  BY DEF Slotted
<1>2. s \in Seq(VisitRecord) /\ Len(s) = n + 1 /\ s[n + 1] = e /\ \A j \in 1..n : s[j] = visited[j]
  BY <1>1
<1> HIDE DEF s
<1>3. ASSUME NEW j \in 1..n
      PROVE  SlotOf(s, total + 1, j)
  <2>1. SlotOf(visited, total, j)
    BY DEF Slotted
  <2>2. (total + 1) - Len(s) + j - 1 = total - Len(visited) + j - 1
    BY <1>1, <1>2
  <2>3. s[j] = visited[j] /\ (j > 1 => s[j - 1] = visited[j - 1])
    BY <1>1, <1>2
  <2> QED
    BY <2>1, <2>2, <2>3 DEF SlotOf
<1>4. SlotOf(s, total + 1, n + 1)
  <2>1. (total + 1) - Len(s) + (n + 1) - 1 = total
    BY <1>1, <1>2
  <2>2. n + 1 > 1 => visited # <<>> /\ s[(n + 1) - 1] = visited[n]
    BY <1>1, <1>2
  <2> QED
    BY <1>2, <2>1, <2>2 DEF SlotOf
<1>5. \A j \in 1..(n + 1) : j \in 1..n \/ j = n + 1
  BY <1>1
<1>6. total + 1 \in Nat /\ n + 1 <= total + 1
  BY <1>1
<1> QED
  BY <1>2, <1>3, <1>4, <1>5, <1>6 DEF Slotted, s

LEMMA SlottedLast ==
  ASSUME NEW visited, NEW total, Slotted(visited, total)
  PROVE  Slotted(LastOf(visited), total) /\ Len(LastOf(visited)) <= Len(PriorityCycle)
<1> DEFINE n == Len(visited)
           len == Len(PriorityCycle)
           s == SubSeq(visited, n - len + 1, n)
<1>1. /\ visited \in Seq(VisitRecord) /\ total \in Nat /\ n \in Nat /\ n <= total
      /\ len \in Nat \ {0}
  BY CycleTypes DEF Slotted
<1>2. CASE n <= len
  BY <1>2 DEF LastOf
<1>3. CASE len < n
  <2>1. LastOf(visited) = s
    BY <1>1, <1>3 DEF LastOf
  <2>2. s \in Seq(VisitRecord) /\ Len(s) = len /\ \A j \in 1..len : s[j] = visited[n - len + j]
    BY <1>1, <1>3
  <2> HIDE DEF s
  <2>3. ASSUME NEW j \in 1..len
        PROVE  SlotOf(s, total, j)
    <3> DEFINE i == n - len + j
    <3>1. i \in 1..n /\ j \in Nat /\ (j > 1 => i > 1 /\ j - 1 \in 1..len /\ n - len + (j - 1) = i - 1)
      BY <1>1, <1>3
    <3>2. SlotOf(visited, total, i)
      BY <3>1 DEF Slotted
    <3>3. total - Len(s) + j - 1 = total - Len(visited) + i - 1
      <4>1. Len(s) = len /\ total \in Nat /\ n \in Nat /\ len \in Nat /\ j \in Nat
        BY <1>1, <2>2, <3>1
      <4> HIDE DEF len
      <4> QED
        BY <4>1
    <3>4. s[j] = visited[i] /\ (j > 1 => s[j - 1] = visited[i - 1])
      BY <2>2, <3>1
    <3> HIDE DEF i
    <3> QED
      BY <3>1, <3>2, <3>3, <3>4 DEF SlotOf
  <2>4. len <= total /\ len <= len
    BY <1>1, <1>3
  <2> QED
    BY <1>1, <2>1, <2>2, <2>3, <2>4 DEF Slotted
<1> QED
  BY <1>1, <1>2, <1>3

\* Over a cycle's worth of visits from the beginning of a claim, the slots of a class
\* that always has work are all served: none can be passed over.
LEMMA EverySlotIsServed ==
  ASSUME NEW visited, NEW total, Slotted(visited, total),
         NEW len \in Nat \ {0}, Len(visited) = len, visited[1].first,
         NEW c, \A j \in 1..len : c \in visited[j].ready,
         NEW q \in Nat, total - len <= q, q < total, ClassAt(q) = c
  PROVE  \E j \in 1..len : visited[j].slot = q /\ visited[j].class = c
<1> DEFINE base == total - len
           n == q - base + 1
           Reached == \E j \in 1..len : visited[j].slot = q
           S == {j \in 0..n : j >= 1 => visited[j].slot < q}
<1>1. /\ total \in Nat /\ base \in Nat /\ n \in 1..len
      /\ \A j \in 1..len : SlotOf(visited, total, j) /\ visited[j] \in VisitRecord
                           /\ visited[j].slot \in Nat /\ visited[j].first \in BOOLEAN
  <2>1. /\ visited \in Seq(VisitRecord) /\ total \in Nat /\ len <= total
        /\ \A j \in 1..len : SlotOf(visited, total, j)
    BY DEF Slotted
  <2>2. \A j \in 1..len : visited[j] \in VisitRecord
    BY <2>1
  <2> QED
    BY <2>1, <2>2 DEF VisitRecord
<1>2. \A j \in 1..len :
        /\ visited[j].class = ClassAt(visited[j].slot)
        /\ base + j - 1 <= visited[j].slot
        /\ visited[j].first => \A x \in (base + j - 1)..(visited[j].slot - 1) : ClassAt(x) # c
        /\ ~visited[j].first /\ j > 1 =>
             \A x \in (visited[j - 1].slot + 1)..(visited[j].slot - 1) : ClassAt(x) # c
  BY <1>1 DEF SlotOf, PassedOver
<1> HIDE DEF base
<1>3. SUFFICES ASSUME ~Reached PROVE FALSE
  BY <1>2
<1>4. ASSUME NEW j \in 1..n, j - 1 \in S
      PROVE  j \in S
  <2>1. j \in Nat /\ j \in 1..len /\ visited[j].slot \in Nat /\ visited[j].slot # q
    BY <1>1, <1>3
  <2>2. base + j - 1 \in Nat /\ base + j - 1 <= q
    BY <1>1, <2>1
  <2>3. visited[j].slot < q
    <3>1. CASE visited[j].first
      <4>1. q \notin (base + j - 1)..(visited[j].slot - 1)
        BY <1>2, <2>1, <3>1
      <4> QED
        BY <2>1, <2>2, <4>1
    <3>2. CASE ~visited[j].first
      <4>1. j > 1 /\ j - 1 \in 1..len
        BY <1>1, <2>1, <3>2
      <4>2. visited[j - 1].slot \in Nat /\ visited[j - 1].slot < q
        BY <1>1, <1>4, <4>1
      <4>3. q \notin (visited[j - 1].slot + 1)..(visited[j].slot - 1)
        BY <1>2, <2>1, <3>2, <4>1
      <4> QED
        BY <2>1, <4>2, <4>3
    <3> QED
      BY <3>1, <3>2
  <2> QED
    BY <1>1, <2>3
<1>5. 0 \in S
  BY <1>1
<1>6. n \in S
  <2>1. n \in Nat /\ n \in 0..n
    BY <1>1
  <2> HIDE DEF S, n
  <2>2. 0..n \subseteq S
    BY <1>4, <1>5, <2>1, UpTo
  <2> QED
    BY <2>1, <2>2
<1>7. visited[n].slot < q /\ base + n - 1 <= visited[n].slot /\ visited[n].slot \in Nat
  BY <1>1, <1>2, <1>6
<1> QED
  BY <1>1, <1>7

LEMMA ShareOfSlotted ==
  ASSUME NEW visited, NEW total, Slotted(visited, total),
         Len(visited) = Len(PriorityCycle), visited[1].first,
         NEW c \in Classes, \A j \in DOMAIN visited : c \in visited[j].ready
  PROVE  Cardinality({j \in DOMAIN visited : visited[j].class = c})
           >= Cardinality({k \in DOMAIN PriorityCycle : PriorityCycle[k] = c})
<1> DEFINE len == Len(PriorityCycle)
           base == total - len
           A == {k \in DOMAIN PriorityCycle : PriorityCycle[k] = c}
           B == {j \in DOMAIN visited : visited[j].class = c}
<1>1. /\ len \in Nat \ {0} /\ DOMAIN PriorityCycle = 1..len /\ DOMAIN visited = 1..len
      /\ total \in Nat /\ base \in Nat
  BY CycleTypes DEF Slotted
<1> HIDE DEF len
<1>2. ASSUME NEW k \in A
      PROVE  \E j \in B : visited[j].slot % len = k - 1
  <2>1. k \in 1..len /\ k - 1 \in 0..(len - 1) /\ PriorityCycle[k] = c
    BY <1>1
  <2>2. PICK x \in 0..(len - 1) : (base + x) % len = k - 1
    <3> HIDE DEF base
    <3> QED
      BY <1>1, <2>1, SlotAmong
  <2>3. base + x \in Nat /\ total - len <= base + x /\ base + x < total
    BY <1>1
  <2>4. ClassAt(base + x) = c
    <3>1. (k - 1) + 1 = k
      BY <1>1
    <3> QED
      BY <2>1, <2>2, <3>1 DEF ClassAt, len
  <2>5. PICK j \in 1..len : visited[j].slot = base + x /\ visited[j].class = c
    <3> DEFINE y == base + x
    <3>1. Len(visited) = len /\ \A j \in 1..len : c \in visited[j].ready
      BY <1>1 DEF len
    <3>2. y \in Nat /\ total - len <= y /\ y < total /\ ClassAt(y) = c
      BY <2>3, <2>4
    <3> HIDE DEF y, base
    <3>3. \E j \in 1..len : visited[j].slot = y /\ visited[j].class = c
      BY <1>1, <3>1, <3>2, EverySlotIsServed
    <3> QED
      BY <3>3 DEF y
  <2> QED
    BY <1>1, <2>2, <2>5
<1> DEFINE f == [k \in A |-> CHOOSE j \in B : visited[j].slot % len = k - 1]
<1>3. \A k \in A : f[k] \in B /\ visited[f[k]].slot % len = k - 1
  BY <1>2
<1>4. A \subseteq Nat /\ IsFiniteSet(A) /\ IsFiniteSet(B)
  <2>1. IsFiniteSet(1..len)
    BY <1>1, FS_Interval
  <2>2. A \in SUBSET (1..len) /\ B \in SUBSET (1..len)
    BY <1>1
  <2>3. A \subseteq Nat
    BY <2>2
  <2> HIDE DEF A, B
  <2> QED
    BY <2>1, <2>2, <2>3, FS_Subset
<1>5. f \in [A -> B]
  BY <1>3
<1> HIDE DEF f, A, B
<1>6. ASSUME NEW k \in A, NEW m \in A, f[k] = f[m]
      PROVE  k = m
  <2>1. k - 1 = m - 1 /\ k \in Nat /\ m \in Nat
    BY <1>3, <1>4, <1>6
  <2> QED
    BY <2>1
<1>7. f \in Injection(A, B)
  BY <1>5, <1>6 DEF Injection, IsInjective
<1>8. Cardinality(A) <= Cardinality(B) /\ Cardinality(A) \in Nat /\ Cardinality(B) \in Nat
  BY <1>4, <1>7, FS_Injection, FS_CardinalityType
<1>9. Cardinality(B) >= Cardinality(A)
  BY <1>8
<1> QED
  BY <1>9 DEF A, B

-----------------------------------------------------------------------------
(***************************************************************************)
(* The counts of visits.                                                   *)
(***************************************************************************)
CountMaps == UNION {[D -> Nat] : D \in SUBSET (Classes \X Partitions)}

LEMMA CountMapsAre ==
  ASSUME NEW v
  PROVE  v \in CountMaps <=> v \in [DOMAIN v -> Nat] /\ DOMAIN v \subseteq Classes \X Partitions
BY DEF CountMaps

LEMMA TotalType ==
  ASSUME IsFiniteSet(WorkItems), NEW v \in CountMaps
  PROVE  /\ Counts(v) /\ IsFiniteSet(DOMAIN v) /\ Naturals(v, DOMAIN v) /\ Total(v) \in Nat
         /\ \A key \in DOMAIN v : v[key] <= Total(v)
<1>1. v \in [DOMAIN v -> Nat] /\ DOMAIN v \subseteq Classes \X Partitions
  BY CountMapsAre
<1>2. IsFiniteSet(DOMAIN v)
  <2>1. IsFiniteSet(Classes)
    BY CycleTypes, FS_Interval
  <2>2. IsFiniteSet(Classes \X Partitions)
    BY <2>1, PartitionsFinite, FS_Product
  <2> QED
    BY <1>1, <2>2, FS_Subset
<1>3. Counts(v) /\ Naturals(v, DOMAIN v)
  BY <1>1 DEF Counts, Naturals
<1>4. Total(v) = SumFunctionOnSet(v, DOMAIN v)
  BY DEF Total, SumFunction
<1>5. Total(v) \in Nat
  BY <1>2, <1>3, <1>4, SumType
<1>6. ASSUME NEW key \in DOMAIN v
      PROVE  v[key] <= Total(v)
  <2>1. Total(v) = v[key] + SumFunctionOnSet(v, DOMAIN v \ {key})
    BY <1>2, <1>3, <1>4, SumWithout
  <2>2. SumFunctionOnSet(v, DOMAIN v \ {key}) \in Nat
    <3>1. IsFiniteSet(DOMAIN v \ {key}) /\ Naturals(v, DOMAIN v \ {key})
      BY <1>2, <1>3, FS_Subset DEF Naturals
    <3> QED
      BY <3>1, SumType
  <2> QED
    BY <1>1, <2>1, <2>2
<1> QED
  BY <1>2, <1>3, <1>5, <1>6

\* A visit is counted once.
LEMMA TotalCounts ==
  ASSUME IsFiniteSet(WorkItems), NEW v \in CountMaps, NEW key \in DOMAIN v
  PROVE  LET w == [v EXCEPT ![key] = @ + 1]
         IN w \in CountMaps /\ DOMAIN w = DOMAIN v /\ Total(w) = Total(v) + 1
<1> DEFINE w == [v EXCEPT ![key] = @ + 1]
           D == DOMAIN v
<1>1. v \in [D -> Nat] /\ D \subseteq Classes \X Partitions
  BY CountMapsAre
<1>2. DOMAIN w = D /\ w \in [D -> Nat] /\ w[key] = v[key] + 1 /\ \A k \in D \ {key} : w[k] = v[k]
  BY <1>1
<1> HIDE DEF w
<1>3. w \in CountMaps
  BY <1>1, <1>2, CountMapsAre
<1>4. /\ IsFiniteSet(D) /\ Naturals(v, D) /\ Naturals(w, D)
      /\ Total(v) \in Nat /\ Total(w) \in Nat /\ v[key] \in Nat
  BY <1>1, <1>2, <1>3, TotalType
<1>5. Total(v) = SumFunctionOnSet(v, D) /\ Total(w) = SumFunctionOnSet(w, D)
  BY <1>2 DEF Total, SumFunction
<1>6. SumFunctionOnSet(w, D) + v[key] = SumFunctionOnSet(v, D) + w[key]
  <2> HIDE DEF D
  <2> QED
    BY <1>2, <1>4, SumChange DEF D
<1>7. Total(w) = Total(v) + 1
  BY <1>2, <1>4, <1>5, <1>6
<1> QED
  BY <1>2, <1>3, <1>7 DEF w

\* A new row counts nothing.
LEMMA TotalAdds ==
  ASSUME IsFiniteSet(WorkItems), NEW v \in CountMaps, NEW key \in Classes \X Partitions
  PROVE  LET w == [k \in DOMAIN v \cup {key} |-> IF k \in DOMAIN v THEN v[k] ELSE 0]
         IN w \in CountMaps /\ Total(w) = Total(v)
<1> DEFINE w == [k \in DOMAIN v \cup {key} |-> IF k \in DOMAIN v THEN v[k] ELSE 0]
           D == DOMAIN v
           E == DOMAIN v \cup {key}
<1>1. v \in [D -> Nat] /\ D \subseteq Classes \X Partitions
  BY CountMapsAre
<1>2. DOMAIN w = E /\ w \in [E -> Nat] /\ E \subseteq Classes \X Partitions
  BY <1>1
<1>3. (\A k \in D : w[k] = v[k]) /\ (\A k \in E \ D : w[k] = 0)
  OBVIOUS
<1> HIDE DEF w
<1>4. w \in CountMaps
  BY <1>2, CountMapsAre
<1>5. /\ IsFiniteSet(D) /\ Naturals(v, D) /\ IsFiniteSet(E) /\ Naturals(w, E)
      /\ Total(v) = SumFunctionOnSet(v, D) /\ Total(w) = SumFunctionOnSet(w, E)
      /\ Total(v) \in Nat
  <2>1. IsFiniteSet(D) /\ Naturals(v, D) /\ Total(v) \in Nat
    BY TotalType
  <2>2. IsFiniteSet(E) /\ Naturals(w, E)
    BY <1>2, <1>4, TotalType
  <2> QED
    BY <1>2, <2>1, <2>2 DEF Total, SumFunction
<1>6. Total(w) = Total(v)
  <2> DEFINE U == E \ D
  <2>1. D \cup U = E /\ D \cap U = {} /\ IsFiniteSet(U)
    BY <1>5, FS_Subset
  <2>2. \A k \in U : w[k] = 0
    BY <1>3
  <2>3. Naturals(w, D)
    BY <1>5 DEF Naturals
  <2> HIDE DEF U, D, E
  <2>4. SumFunctionOnSet(w, D \cup U) = SumFunctionOnSet(w, D) + SumFunctionOnSet(w, U)
    BY <1>5, <2>1, SumDisjoint
  <2>5. SumFunctionOnSet(w, U) = 0
    BY <2>1, <2>2, SumOfNothing
  <2>6. SumFunctionOnSet(w, D) = SumFunctionOnSet(v, D)
    BY <1>3, <1>5, SumSame
  <2>7. Total(w) = Total(v) + 0
    BY <1>5, <2>1, <2>4, <2>5, <2>6
  <2> QED
    BY <1>5, <2>7
<1> QED
  BY <1>4, <1>6 DEF w

LEMMA TotalOfNone == <<>> \in CountMaps /\ Total(<<>>) = 0
<1>1. DOMAIN <<>> = {} /\ <<>> \in [{} -> Nat]
  OBVIOUS
<1>2. <<>> \in CountMaps
  BY <1>1 DEF CountMaps
<1>3. Total(<<>>) = 0
  BY <1>1, SumEmpty DEF Total, SumFunction
<1> QED
  BY <1>2, <1>3

-----------------------------------------------------------------------------
(***************************************************************************)
(* One visit.                                                              *)
(***************************************************************************)
LoopState ==
  [rows : [WorkItems -> Row], visits : CountMaps, cursor : Nat, served : Seq(VisitRecord),
   first : BOOLEAN]

\* The cursor is where the claim began, or past the slot that was served last.
CursorIs(s) ==
  /\ Total(s.visits) <= s.cursor
  /\ s.first => s.cursor = Total(s.visits)
  /\ ~s.first => s.served # <<>> /\ s.cursor = s.served[Len(s.served)].slot + 1

InLoop(s) == s \in LoopState /\ Slotted(s.served, Total(s.visits)) /\ CursorIs(s)

\* What a visit does.
Takes(s, t, i) ==
  /\ i \in WorkItems /\ s.rows[i].state = "queued" /\ HasLeaseCapacity(s.rows, Partition[i])
  /\ t.rows = [s.rows EXCEPT ![i].state = "running"]
  /\ Total(t.visits) = Total(s.visits) + 1

LEMMA RowTypes ==
  ASSUME NEW r \in [WorkItems -> Row]
  PROVE  \A i \in WorkItems : r[i] \in Row /\ r[i].since \in Nat /\ r[i].class \in Classes
<1>1. MaxTime \in Nat /\ Classes = 1..TopClass
  BY FairClaimAssumption, CycleTypes
<1> QED
  BY <1>1 DEF Row

LEMMA AppendIs ==
  ASSUME NEW T, NEW s \in Seq(T), NEW e \in T
  PROVE  /\ Append(s, e) \in Seq(T) /\ Append(s, e) # <<>>
         /\ Append(s, e)[Len(Append(s, e))] = e
OBVIOUS

LEMMA VisitStep ==
  ASSUME IsFiniteSet(WorkItems), NEW s, InLoop(s), NEW t \in Visit(s)
  PROVE  InLoop(t) /\ \E i \in WorkItems : Takes(s, t, i)
<1>1. /\ s.rows \in [WorkItems -> Row] /\ s.visits \in CountMaps /\ s.cursor \in Nat
      /\ s.served \in Seq(VisitRecord) /\ s.first \in BOOLEAN
  BY DEF InLoop, LoopState
<1>2. Counts(s.visits) /\ Total(s.visits) \in Nat
  BY <1>1, TotalType
<1>a. PICK k \in Nat : \E i \in Candidates(s.rows, s.visits, ClassAt(s.cursor + k)) :
        /\ t = Taken(s, k, i)
        /\ \A j \in 0..(k - 1) : Candidates(s.rows, s.visits, ClassAt(s.cursor + j)) = {}
  BY <1>1, VisitIs
<1>3. PICK i \in Candidates(s.rows, s.visits, ClassAt(s.cursor + k)) :
        /\ t = Taken(s, k, i)
        /\ \A j \in 0..(k - 1) : Candidates(s.rows, s.visits, ClassAt(s.cursor + j)) = {}
  BY <1>a
<1>4. /\ i \in WorkItems /\ s.rows[i].state = "queued"
      /\ s.rows[i].class = ClassAt(s.cursor + k)
      /\ <<s.rows[i].class, Partition[i]>> \in DOMAIN s.visits
      /\ HasLeaseCapacity(s.rows, Partition[i])
  <2> DEFINE c == ClassAt(s.cursor + k)
  <2>1. i \in Candidates(s.rows, s.visits, c)
    OBVIOUS
  <2> HIDE DEF c
  <2>2. /\ i \in WorkItems /\ s.rows[i].state = "queued" /\ s.rows[i].class = c
        /\ <<c, Partition[i]>> \in DOMAIN s.visits /\ HasLeaseCapacity(s.rows, Partition[i])
    BY <1>2, <2>1, CandidatesAre
  <2> QED
    BY <2>2 DEF c
<1> DEFINE e == [class |-> s.rows[i].class, ready |-> Ready(s),
                 slot |-> s.cursor + k, first |-> s.first]
           key == <<s.rows[i].class, Partition[i]>>
<1>5. /\ t.rows = [s.rows EXCEPT ![i].state = "running"]
      /\ t.visits = [s.visits EXCEPT ![key] = @ + 1]
      /\ t.cursor = s.cursor + k + 1 /\ t.served = Append(s.served, e) /\ t.first = FALSE
      /\ t = [rows |-> t.rows, visits |-> t.visits, cursor |-> t.cursor, served |-> t.served,
              first |-> t.first]
  BY <1>3 DEF Taken
<1>6. t.visits \in CountMaps /\ Total(t.visits) = Total(s.visits) + 1
  <2>1. key \in DOMAIN s.visits /\ t.visits = [s.visits EXCEPT ![key] = @ + 1]
    BY <1>4, <1>5
  <2> HIDE DEF key
  <2> QED
    BY <1>1, <2>1, TotalCounts
<1>7. e \in VisitRecord /\ e.slot = s.cursor + k /\ e.slot \in Nat /\ e.first = s.first
      /\ e.class = ClassAt(e.slot) /\ e.ready = Ready(s)
  <2>1. s.rows[i].class \in Classes
    BY <1>1, <1>4, RowTypes
  <2>2. Ready(s) \in SUBSET Classes
    BY DEF Ready
  <2> QED
    BY <1>1, <1>4, <2>1, <2>2 DEF VisitRecord
<1> HIDE DEF e
<1>8. t.rows \in [WorkItems -> Row]
  <2>1. s.rows[i] \in Row
    BY <1>1, <1>4
  <2>2. [s.rows[i] EXCEPT !.state = "running"] \in Row
    BY <2>1 DEF Row
  <2>3. t.rows = [s.rows EXCEPT ![i] = [s.rows[i] EXCEPT !.state = "running"]]
    BY <1>5
  <2> QED
    BY <1>1, <2>2, <2>3
<1>9. t \in LoopState
  <2>1. t.cursor \in Nat /\ t.first \in BOOLEAN
    <3>1. t.cursor = s.cursor + k + 1 /\ t.first = FALSE
      BY <1>5
    <3>2. s.cursor + k + 1 \in Nat
      BY <1>1
    <3> QED
      BY <3>1, <3>2
  <2>2. t.served \in Seq(VisitRecord)
    BY <1>1, <1>5, <1>7, AppendIs
  <2> QED
    BY <1>5, <1>6, <1>8, <2>1, <2>2 DEF LoopState
<1>10. PassedOver(e.ready, s.cursor, e.slot)
  <2> SUFFICES ASSUME NEW q \in s.cursor..(e.slot - 1) PROVE ClassAt(q) \notin e.ready
    BY DEF PassedOver
  <2>1. q - s.cursor \in 0..(k - 1) /\ s.cursor + (q - s.cursor) = q
    BY <1>1, <1>7
  <2>2. Candidates(s.rows, s.visits, ClassAt(q)) = {}
    <3> DEFINE j == q - s.cursor
    <3>1. j \in 0..(k - 1) /\ s.cursor + j = q
      BY <2>1
    <3> HIDE DEF j
    <3> QED
      BY <1>3, <3>1
  <2> QED
    BY <1>7, <2>2 DEF Ready
<1>11. Slotted(t.served, Total(t.visits))
  <2>1. Slotted(s.served, Total(s.visits)) /\ CursorIs(s)
    BY DEF InLoop
  <2>2. Total(s.visits) <= e.slot
    BY <1>1, <1>2, <1>7, <2>1 DEF CursorIs
  <2>3. e.first => PassedOver(e.ready, Total(s.visits), e.slot)
    BY <1>7, <1>10, <2>1 DEF CursorIs
  <2>4. ASSUME ~e.first, s.served # <<>>
        PROVE  /\ s.served[Len(s.served)].slot < e.slot
               /\ PassedOver(e.ready, s.served[Len(s.served)].slot + 1, e.slot)
    <3>1. s.cursor = s.served[Len(s.served)].slot + 1
      BY <1>7, <2>1, <2>4 DEF CursorIs
    <3>2. s.served[Len(s.served)].slot \in Nat
      <4>1. s.served[Len(s.served)] \in VisitRecord
        BY <1>1, <2>4
      <4> QED
        BY <4>1 DEF VisitRecord
    <3>3. s.served[Len(s.served)].slot < e.slot
      BY <1>1, <1>7, <3>1, <3>2
    <3> QED
      BY <1>10, <3>1, <3>3
  <2> QED
    BY <1>5, <1>6, <1>7, <2>1, <2>2, <2>3, <2>4, SlottedAppend
<1>12. CursorIs(t)
  <2>1. Total(s.visits) <= s.cursor
    BY DEF InLoop, CursorIs
  <2>2. Total(t.visits) <= t.cursor
    BY <1>1, <1>2, <1>5, <1>6, <2>1
  <2>3. t.served # <<>> /\ t.served[Len(t.served)] = e
    BY <1>1, <1>5, <1>7, AppendIs
  <2>4. t.cursor = e.slot + 1
    BY <1>5, <1>7
  <2> QED
    BY <1>5, <2>2, <2>3, <2>4 DEF CursorIs
<1> QED
  BY <1>4, <1>5, <1>6, <1>9, <1>11, <1>12 DEF InLoop, Takes

-----------------------------------------------------------------------------
(***************************************************************************)
(* What a lease does to the counts of leases.                              *)
(***************************************************************************)
Lease(r, i) == [r EXCEPT ![i].state = "running"]

LEMMA LeaseIs ==
  ASSUME NEW r \in [WorkItems -> Row], NEW i \in WorkItems
  PROVE  /\ Lease(r, i)[i].state = "running" /\ Lease(r, i)[i].class = r[i].class
         /\ \A j \in WorkItems \ {i} : Lease(r, i)[j] = r[j]
BY DEF Lease, Row

LEMMA LeasedType ==
  ASSUME IsFiniteSet(WorkItems), NEW r, NEW p, NEW k
  PROVE  Leased(r, p, k) \in Nat
<1>1. IsFiniteSet({i \in WorkItems : r[i].state = "running" /\ Below(i, p, k)})
  BY FS_Subset
<1> QED
  BY <1>1, FS_CardinalityType DEF Leased

LEMMA LeasedAfter ==
  ASSUME IsFiniteSet(WorkItems), NEW r \in [WorkItems -> Row], NEW i \in WorkItems,
         r[i].state = "queued", NEW p, NEW k
  PROVE  /\ Below(i, p, k) => Leased(Lease(r, i), p, k) = Leased(r, p, k) + 1
         /\ ~Below(i, p, k) => Leased(Lease(r, i), p, k) = Leased(r, p, k)
<1> DEFINE A == {j \in WorkItems : r[j].state = "running" /\ Below(j, p, k)}
           B == {j \in WorkItems : Lease(r, i)[j].state = "running" /\ Below(j, p, k)}
<1>1. IsFiniteSet(A) /\ i \notin A
  BY FS_Subset
<1>2. (Below(i, p, k) => B = A \cup {i}) /\ (~Below(i, p, k) => B = A)
  BY LeaseIs
<1>3. Leased(r, p, k) = Cardinality(A) /\ Leased(Lease(r, i), p, k) = Cardinality(B)
  BY DEF Leased
<1> HIDE DEF A, B
<1>4. Cardinality(A \cup {i}) = Cardinality(A) + 1
  BY <1>1, FS_AddElement
<1> QED
  BY <1>2, <1>3, <1>4

Sibling(p, k, x) == [p EXCEPT ![k] = x]

\* The sibling x of a partition at level k is the same one for all its siblings.
LEMMA SiblingIs ==
  ASSUME NEW p \in Partitions, NEW q \in Partitions, NEW k \in 1..Depth,
         Prefix(p, k - 1) = Prefix(q, k - 1), NEW x
  PROVE  /\ \A r : Leased(r, Sibling(p, k, x), k) = Leased(r, Sibling(q, k, x), k)
         /\ \A r : Leased(r, Sibling(p, k, q[k]), k) = Leased(r, q, k)
<1>1. /\ Depth \in Nat /\ p \in [1..Depth -> Nat] /\ q \in [1..Depth -> Nat]
      /\ p \in Seq(Nat) /\ q \in Seq(Nat) /\ Len(p) = Depth /\ Len(q) = Depth
  BY PartitionTypes
<1>2. \A j \in 1..(k - 1) : p[j] = q[j]
  <2>1. k - 1 \in 0..Depth
    BY <1>1
  <2> QED
    BY <2>1, SamePrefix
<1>3. ASSUME NEW y
      PROVE  Prefix([p EXCEPT ![k] = y], k) = [j \in 1..k |-> IF j = k THEN y ELSE q[j]]
  <2> DEFINE s == [p EXCEPT ![k] = y]
  <2>1. s = [j \in 1..Depth |-> IF j = k THEN y ELSE p[j]]
    BY <1>1
  <2>2. SubSeq(s, 1, k) = [j \in 1..k |-> s[j]]
    OBVIOUS
  <2>3. \A j \in 1..k : s[j] = IF j = k THEN y ELSE q[j]
    BY <1>1, <1>2, <2>1
  <2> HIDE DEF s
  <2> QED
    BY <2>2, <2>3 DEF Prefix, s
<1>4. ASSUME NEW y
      PROVE  Prefix([q EXCEPT ![k] = y], k) = [j \in 1..k |-> IF j = k THEN y ELSE q[j]]
  <2> DEFINE s == [q EXCEPT ![k] = y]
  <2>1. s = [j \in 1..Depth |-> IF j = k THEN y ELSE q[j]]
    BY <1>1
  <2>2. SubSeq(s, 1, k) = [j \in 1..k |-> s[j]]
    OBVIOUS
  <2>3. \A j \in 1..k : s[j] = IF j = k THEN y ELSE q[j]
    BY <1>1, <2>1
  <2> HIDE DEF s
  <2> QED
    BY <2>2, <2>3 DEF Prefix, s
<1>5. [q EXCEPT ![k] = q[k]] = q
  BY <1>1
<1>6. /\ Prefix([p EXCEPT ![k] = x], k) = Prefix([q EXCEPT ![k] = x], k)
      /\ Prefix([p EXCEPT ![k] = q[k]], k) = Prefix(q, k)
  BY <1>3, <1>4, <1>5
<1>7. /\ Prefix(Sibling(p, k, x), k) = Prefix(Sibling(q, k, x), k)
      /\ Prefix(Sibling(p, k, q[k]), k) = Prefix(q, k)
  BY <1>6 DEF Sibling
<1> QED
  BY <1>7 DEF Leased, Below

LEMMA UnderReservedFinite ==
  ASSUME IsFiniteSet(WorkItems), NEW r, NEW p, NEW k
  PROVE  IsFiniteSet(UnderReserved(r, p, k)) /\ Cardinality(UnderReserved(r, p, k)) \in Nat
<1> DEFINE g == [i \in WorkItems |-> Partition[i][k]]
           All == {Partition[i][k] : i \in WorkItems}
<1>1. g \in Surjection(WorkItems, All)
  BY DEF Surjection
<1>2. IsFiniteSet(All)
  BY <1>1, FS_Surjection
<1>3. UnderReserved(r, p, k) \subseteq All
  BY DEF UnderReserved
<1> HIDE DEF All
<1>4. IsFiniteSet(UnderReserved(r, p, k))
  BY <1>2, <1>3, FS_Subset
<1> QED
  BY <1>4, FS_CardinalityType

LEMMA UnderReservedIs ==
  ASSUME NEW r, NEW p, NEW k, NEW x
  PROVE  x \in UnderReserved(r, p, k) <=>
           /\ x # p[k] /\ Leased(r, Sibling(p, k, x), k) < Reservation
           /\ \E j \in WorkItems : /\ r[j].state = "queued" /\ Below(j, p, k - 1)
                                   /\ x = Partition[j][k]
BY DEF UnderReserved, Sibling

\* A lease takes no sibling below its reservation.
LEMMA UnderReservedAfter ==
  ASSUME IsFiniteSet(WorkItems), NEW r \in [WorkItems -> Row], NEW i \in WorkItems,
         r[i].state = "queued", NEW p, NEW k
  PROVE  UnderReserved(Lease(r, i), p, k) \subseteq UnderReserved(r, p, k)
<1> SUFFICES ASSUME NEW x \in UnderReserved(Lease(r, i), p, k)
             PROVE  x \in UnderReserved(r, p, k)
  OBVIOUS
<1> DEFINE q == Sibling(p, k, x)
<1>1. /\ x # p[k] /\ Leased(Lease(r, i), q, k) < Reservation
      /\ \E j \in WorkItems : /\ Lease(r, i)[j].state = "queued" /\ Below(j, p, k - 1)
                              /\ x = Partition[j][k]
  <2> DEFINE l == Lease(r, i)
  <2>1. x \in UnderReserved(l, p, k)
    OBVIOUS
  <2> HIDE DEF l
  <2>2. /\ x # p[k] /\ Leased(l, Sibling(p, k, x), k) < Reservation
        /\ \E j \in WorkItems : l[j].state = "queued" /\ Below(j, p, k - 1) /\ x = Partition[j][k]
    BY <2>1, UnderReservedIs
  <2> QED
    BY <2>2 DEF l
<1> HIDE DEF q
<1>2. Leased(r, q, k) < Reservation
  <2>1. Leased(r, q, k) \in Nat /\ Leased(Lease(r, i), q, k) \in Nat /\ Reservation \in Nat
    BY LeasedType, FairClaimAssumption
  <2> QED
    BY <1>1, <2>1, LeasedAfter
<1>3. \E j \in WorkItems : r[j].state = "queued" /\ Below(j, p, k - 1) /\ x = Partition[j][k]
  <2>1. PICK j \in WorkItems : /\ Lease(r, i)[j].state = "queued" /\ Below(j, p, k - 1)
                               /\ x = Partition[j][k]
    BY <1>1
  <2>2. j # i
    BY <2>1, LeaseIs
  <2> QED
    BY <2>1, <2>2, LeaseIs
<1> QED
  BY <1>1, <1>2, <1>3, UnderReservedIs DEF q

-----------------------------------------------------------------------------
(***************************************************************************)
(* The reservations of siblings.                                           *)
(***************************************************************************)
Kept(r, p, k) ==
  Leased(r, p, k) > Reservation =>
    Leased(r, p, k - 1) + Cardinality(UnderReserved(r, p, k)) <= LeaseLimits[k]

LEMMA CapacityAt ==
  ASSUME NEW r, NEW p, HasLeaseCapacity(r, p), NEW k \in 1..Depth, Leased(r, p, k) >= Reservation
  PROVE  Leased(r, p, k - 1) + Cardinality(UnderReserved(r, p, k)) < LeaseLimits[k]
BY PartitionTypes DEF HasLeaseCapacity

LEMMA LimitTypes == Reservation \in Nat /\ \A k \in 1..Depth : LeaseLimits[k] \in Nat
<1>1. Reservation \in Nat /\ LeaseLimits \in Seq(Nat) /\ LeaseLimits # <<>>
  BY FairClaimAssumption
<1> QED
  BY <1>1 DEF Depth

\* The siblings of p are those of each partition that p shares a prefix with.
LEMMA SameSiblings ==
  ASSUME NEW r, NEW p \in Partitions, NEW q \in Partitions, NEW k \in 1..Depth,
         Prefix(p, k - 1) = Prefix(q, k - 1)
  PROVE  /\ Leased(r, p, k - 1) = Leased(r, q, k - 1)
         /\ \A x \in UnderReserved(r, p, k) : x # q[k] => x \in UnderReserved(r, q, k)
<1>1. Leased(r, p, k - 1) = Leased(r, q, k - 1)
  BY DEF Leased, Below
<1>2. ASSUME NEW x \in UnderReserved(r, p, k), x # q[k]
      PROVE  x \in UnderReserved(r, q, k)
  <2>1. /\ Leased(r, Sibling(p, k, x), k) < Reservation
        /\ \E j \in WorkItems : r[j].state = "queued" /\ Below(j, p, k - 1) /\ x = Partition[j][k]
    BY UnderReservedIs
  <2>2. Leased(r, Sibling(p, k, x), k) = Leased(r, Sibling(q, k, x), k)
    BY SiblingIs
  <2>3. \A j \in WorkItems : Below(j, p, k - 1) <=> Below(j, q, k - 1)
    BY DEF Below
  <2>4. \E j \in WorkItems : r[j].state = "queued" /\ Below(j, q, k - 1) /\ x = Partition[j][k]
    BY <2>1, <2>3
  <2>5. Leased(r, Sibling(q, k, x), k) < Reservation
    BY <2>1, <2>2
  <2> QED
    BY <1>2, <2>4, <2>5, UnderReservedIs
<1> QED
  BY <1>1, <1>2

\* A lease below p was checked against the reservations of p's siblings.
LEMMA KeptBelow ==
  ASSUME IsFiniteSet(WorkItems), NEW r \in [WorkItems -> Row], NEW i \in WorkItems,
         r[i].state = "queued", HasLeaseCapacity(r, Partition[i]),
         NEW p \in Partitions, NEW k \in 1..Depth, Below(i, p, k)
  PROVE  Kept(Lease(r, i), p, k)
<1> DEFINE q == Partition[i]
           l == Lease(r, i)
<1>q. q \in Partitions /\ Depth \in Nat
  BY PartitionTypes DEF Partitions
<1>1. /\ k \in 0..Depth /\ k - 1 \in 0..Depth /\ k \in 1..k /\ 1..(k - 1) \subseteq 1..k
  BY <1>q
<1>2. \A j \in 1..k : q[j] = p[j]
  BY <1>q, <1>1, SamePrefix DEF Below
<1>3. q[k] = p[k] /\ Prefix(q, k - 1) = Prefix(p, k - 1)
  BY <1>q, <1>1, <1>2, SamePrefix
<1>4. Below(i, p, k - 1)
  BY <1>3 DEF Below
<1> HIDE DEF q
<1>5. SUFFICES ASSUME Leased(l, p, k) > Reservation
               PROVE  Leased(l, p, k - 1) + Cardinality(UnderReserved(l, p, k)) <= LeaseLimits[k]
  BY DEF Kept
<1>6. /\ Leased(l, p, k) = Leased(r, p, k) + 1
      /\ Leased(l, p, k - 1) = Leased(r, p, k - 1) + 1
  BY <1>4, LeasedAfter
<1>7. UnderReserved(l, p, k) \subseteq UnderReserved(r, p, k)
  BY UnderReservedAfter
<1> HIDE DEF l
<1>8. /\ Reservation \in Nat /\ LeaseLimits[k] \in Nat /\ Leased(r, p, k) \in Nat
      /\ Leased(r, p, k - 1) \in Nat
  BY LimitTypes, LeasedType
<1>9. Leased(r, q, k) = Leased(r, p, k)
  BY <1>1, <1>2, <1>q, SamePrefix DEF Leased, Below
<1>10. Leased(r, q, k - 1) + Cardinality(UnderReserved(r, q, k)) < LeaseLimits[k]
  <2>1. HasLeaseCapacity(r, q) /\ Leased(r, q, k) >= Reservation
    BY <1>5, <1>6, <1>8, <1>9 DEF q
  <2> QED
    BY <2>1, CapacityAt
<1>11. UnderReserved(l, p, k) \subseteq UnderReserved(r, q, k)
  <2>1. p[k] \notin UnderReserved(r, p, k)
    BY DEF UnderReserved
  <2> QED
    BY <1>3, <1>7, <1>q, <2>1, SameSiblings
<1>12. Leased(r, q, k - 1) = Leased(r, p, k - 1)
  BY <1>3, <1>q, SameSiblings
<1>13. Cardinality(UnderReserved(l, p, k)) <= Cardinality(UnderReserved(r, q, k))
  BY <1>11, UnderReservedFinite, FS_Subset
<1>14. /\ Cardinality(UnderReserved(l, p, k)) \in Nat
       /\ Cardinality(UnderReserved(r, q, k)) \in Nat
  BY UnderReservedFinite
<1> QED
  BY <1>6, <1>8, <1>10, <1>12, <1>13, <1>14

\* A lease of a sibling uses the reservation it had, which is one lease at most, or was
\* checked against those of the others.
LEMMA KeptBeside ==
  ASSUME IsFiniteSet(WorkItems), Reservation <= 1, NEW r \in [WorkItems -> Row],
         NEW i \in WorkItems, r[i].state = "queued", HasLeaseCapacity(r, Partition[i]),
         NEW p \in Partitions, NEW k \in 1..Depth, Below(i, p, k - 1), ~Below(i, p, k),
         Kept(r, p, k)
  PROVE  Kept(Lease(r, i), p, k)
<1> DEFINE q == Partition[i]
           l == Lease(r, i)
           U == UnderReserved(r, p, k)
           V == UnderReserved(l, p, k)
<1>q. q \in Partitions /\ Depth \in Nat
  BY PartitionTypes DEF Partitions
<1>1. k \in 0..Depth /\ k - 1 \in 0..Depth /\ \A j \in 1..k : j = k \/ j \in 1..(k - 1)
  BY <1>q
<1>2. Prefix(p, k - 1) = Prefix(q, k - 1) /\ q[k] # p[k]
  <2>1. Prefix(p, k - 1) = Prefix(q, k - 1) /\ Prefix(p, k) # Prefix(q, k)
    BY DEF Below
  <2>2. \A j \in 1..(k - 1) : p[j] = q[j]
    BY <1>q, <1>1, <2>1, SamePrefix
  <2> QED
    BY <1>q, <1>1, <2>1, <2>2, SamePrefix
<1>3. SUFFICES ASSUME Leased(l, p, k) > Reservation
               PROVE  Leased(l, p, k - 1) + Cardinality(V) <= LeaseLimits[k]
  BY DEF Kept
<1>4. Leased(l, p, k) = Leased(r, p, k) /\ Leased(l, p, k - 1) = Leased(r, p, k - 1) + 1
  BY LeasedAfter
<1>5. Leased(r, p, k - 1) + Cardinality(U) <= LeaseLimits[k]
  BY <1>3, <1>4 DEF Kept
<1>6. V \subseteq U
  BY UnderReservedAfter
<1>7. /\ Reservation \in Nat /\ LeaseLimits[k] \in Nat /\ Leased(r, p, k) \in Nat
      /\ Leased(r, p, k - 1) \in Nat /\ Leased(r, q, k) \in Nat
      /\ Cardinality(U) \in Nat /\ Cardinality(V) \in Nat /\ IsFiniteSet(U) /\ IsFiniteSet(V)
  BY LimitTypes, LeasedType, UnderReservedFinite
<1>8. /\ Leased(r, Sibling(p, k, q[k]), k) = Leased(r, q, k)
      /\ Leased(l, Sibling(p, k, q[k]), k) = Leased(l, q, k)
  <2> HIDE DEF q, l
  <2> QED
    BY <1>q, <1>2, SiblingIs
<1>9. Leased(l, q, k) = Leased(r, q, k) + 1
  BY LeasedAfter DEF Below
<1>10. CASE Leased(r, q, k) < Reservation
  <2>1. q[k] \in U
    <3>1. Leased(r, Sibling(p, k, q[k]), k) < Reservation
      BY <1>8, <1>10
    <3> HIDE DEF l
    <3> QED
      BY <1>2, <3>1, UnderReservedIs
  <2>2. q[k] \notin V
    <3>1. ~(Leased(l, Sibling(p, k, q[k]), k) < Reservation)
      BY <1>7, <1>8, <1>9
    <3> HIDE DEF l, q
    <3> QED
      BY <3>1, UnderReservedIs
  <2> HIDE DEF U, V, q, l
  <2>3. Cardinality(V) < Cardinality(U)
    BY <1>6, <1>7, <2>1, <2>2, FS_Subset
  <2> QED
    BY <1>4, <1>5, <1>7, <2>3
<1>11. CASE ~(Leased(r, q, k) < Reservation)
  <2>1. Leased(r, q, k - 1) + Cardinality(UnderReserved(r, q, k)) < LeaseLimits[k]
    <3>1. HasLeaseCapacity(r, q) /\ Leased(r, q, k) >= Reservation
      BY <1>7, <1>11
    <3> HIDE DEF q
    <3> QED
      BY <3>1, CapacityAt
  <2>2. q[k] \notin U
    <3>1. ~(Leased(r, Sibling(p, k, q[k]), k) < Reservation)
      BY <1>8, <1>11
    <3> HIDE DEF q
    <3> QED
      BY <3>1, UnderReservedIs
  <2>3. V \subseteq UnderReserved(r, q, k) /\ Leased(r, p, k - 1) = Leased(r, q, k - 1)
    <3> HIDE DEF q, l, V
    <3> QED
      BY <1>q, <1>2, <1>6, <2>2, SameSiblings
  <2>4. /\ Cardinality(UnderReserved(r, q, k)) \in Nat /\ IsFiniteSet(UnderReserved(r, q, k))
    BY UnderReservedFinite
  <2> HIDE DEF V, q, l, U
  <2>5. Cardinality(V) <= Cardinality(UnderReserved(r, q, k))
    BY <2>3, <2>4, FS_Subset
  <2> QED
    BY <1>4, <1>7, <2>1, <2>3, <2>4, <2>5
<1> QED
  BY <1>10, <1>11

\* A lease elsewhere changes nothing for p and its siblings.
LEMMA KeptElsewhere ==
  ASSUME IsFiniteSet(WorkItems), NEW r \in [WorkItems -> Row],
         NEW i \in WorkItems, r[i].state = "queued",
         NEW p \in Partitions, NEW k \in 1..Depth, ~Below(i, p, k - 1), Kept(r, p, k)
  PROVE  Kept(Lease(r, i), p, k)
<1> DEFINE l == Lease(r, i)
<1>1. ~Below(i, p, k)
  <2>q. Partition[i] \in Partitions /\ Depth \in Nat
    BY PartitionTypes DEF Partitions
  <2>1. k \in 0..Depth /\ k - 1 \in 0..Depth /\ 1..(k - 1) \subseteq 1..k
    BY <2>q
  <2> QED
    BY <2>q, <2>1, SamePrefix DEF Below
<1>2. Leased(l, p, k) = Leased(r, p, k) /\ Leased(l, p, k - 1) = Leased(r, p, k - 1)
  BY <1>1, LeasedAfter
<1>3. UnderReserved(l, p, k) \subseteq UnderReserved(r, p, k)
  BY UnderReservedAfter
<1> HIDE DEF l
<1>4. /\ Cardinality(UnderReserved(l, p, k)) <= Cardinality(UnderReserved(r, p, k))
      /\ Cardinality(UnderReserved(l, p, k)) \in Nat
      /\ Cardinality(UnderReserved(r, p, k)) \in Nat
  BY <1>3, UnderReservedFinite, FS_Subset
<1>5. Leased(r, p, k - 1) \in Nat /\ LeaseLimits[k] \in Nat
  BY LeasedType, LimitTypes
<1>6. Kept(l, p, k)
  BY <1>2, <1>4, <1>5 DEF Kept
<1> QED
  BY <1>6 DEF l

LEMMA KeptAfter ==
  ASSUME IsFiniteSet(WorkItems), Reservation <= 1, NEW r \in [WorkItems -> Row],
         NEW i \in WorkItems, r[i].state = "queued", HasLeaseCapacity(r, Partition[i]),
         NEW p \in Partitions, NEW k \in 1..Depth, p = Partition[i] \/ Kept(r, p, k)
  PROVE  Kept(Lease(r, i), p, k)
<1>1. p = Partition[i] => Below(i, p, k)
  BY DEF Below
<1> QED
  BY <1>1, KeptBelow, KeptBeside, KeptElsewhere

-----------------------------------------------------------------------------
(***************************************************************************)
(* The loop of a claim, k visits after its start.                          *)
(***************************************************************************)
TakenItems(s) == {i \in WorkItems : rows[i].state = "queued" /\ s.rows[i].state = "running"}

Claimed(k, s) ==
  /\ InLoop(s) /\ Total(s.visits) <= Total(visits) + k
  /\ \A i \in WorkItems : s.rows[i].state = "queued" => rows[i].state = "queued"
  /\ Visit(s) = {} \/ Cardinality(TakenItems(s)) = k
  /\ Reservation <= 1 =>
       \A i \in TakenItems(s) : \A d \in 1..Depth : Kept(s.rows, Partition[i], d)

LEMMA ClaimedIdle ==
  ASSUME IsFiniteSet(WorkItems), visits \in CountMaps, NEW k \in Nat \ {0}, NEW s,
         Claimed(k - 1, s), Visit(s) = {}
  PROVE  Claimed(k, s)
<1>1. Total(s.visits) \in Nat /\ Total(visits) \in Nat
  BY TotalType DEF Claimed, InLoop, LoopState
<1>2. Total(s.visits) <= Total(visits) + (k - 1)
  BY DEF Claimed
<1>3. Total(s.visits) <= Total(visits) + k
  BY <1>1, <1>2
<1> QED
  BY <1>3 DEF Claimed

LEMMA ClaimedVisit ==
  ASSUME IsFiniteSet(WorkItems), visits \in CountMaps, NEW k \in Nat \ {0}, NEW s,
         Claimed(k - 1, s), NEW t \in Visit(s)
  PROVE  Claimed(k, t)
<1>1. InLoop(s) /\ InLoop(t)
  BY VisitStep DEF Claimed
<1>2. PICK i \in WorkItems : Takes(s, t, i)
  BY <1>1, VisitStep
<1>3. /\ s.rows \in [WorkItems -> Row] /\ s.rows[i].state = "queued"
      /\ t.rows = Lease(s.rows, i) /\ HasLeaseCapacity(s.rows, Partition[i])
      /\ Total(t.visits) = Total(s.visits) + 1
  BY <1>1, <1>2 DEF Takes, Lease, InLoop, LoopState
<1>4. Total(t.visits) <= Total(visits) + k
  <2>1. Total(s.visits) \in Nat /\ Total(visits) \in Nat
    BY <1>1, TotalType DEF InLoop, LoopState
  <2>2. Total(s.visits) <= Total(visits) + (k - 1)
    BY DEF Claimed
  <2> QED
    BY <1>3, <2>1, <2>2
<1>5. /\ t.rows[i].state = "running"
      /\ \A j \in WorkItems \ {i} : t.rows[j] = s.rows[j]
  BY <1>3, LeaseIs
<1>6. \A j \in WorkItems : s.rows[j].state = "queued" => rows[j].state = "queued"
  BY DEF Claimed
<1>7. \A j \in WorkItems : t.rows[j].state = "queued" => rows[j].state = "queued"
  BY <1>5, <1>6
<1>8. TakenItems(t) = TakenItems(s) \cup {i} /\ i \notin TakenItems(s)
  BY <1>3, <1>5, <1>6 DEF TakenItems
<1>9. Cardinality(TakenItems(t)) = k
  <2>1. Cardinality(TakenItems(s)) = k - 1
    BY DEF Claimed
  <2>2. IsFiniteSet(TakenItems(s))
    BY FS_Subset DEF TakenItems
  <2>3. Cardinality(TakenItems(s) \cup {i}) = Cardinality(TakenItems(s)) + 1
    BY <1>8, <2>2, FS_AddElement
  <2> QED
    BY <1>8, <2>1, <2>3
<1>10. ASSUME Reservation <= 1, NEW j \in TakenItems(t), NEW d \in 1..Depth
       PROVE  Kept(t.rows, Partition[j], d)
  <2>1. j \in WorkItems /\ Partition[j] \in Partitions
    BY DEF TakenItems, Partitions
  <2>2. Partition[j] = Partition[i] \/ Kept(s.rows, Partition[j], d)
    BY <1>8, <1>10 DEF Claimed
  <2> QED
    BY <1>3, <1>10, <2>1, <2>2, KeptAfter
<1> QED
  BY <1>1, <1>4, <1>7, <1>9, <1>10 DEF Claimed

\* So it goes from start to end.
LEMMA ClaimedVisits ==
  ASSUME IsFiniteSet(WorkItems), visits \in CountMaps, NEW start, Claimed(0, start),
         NEW n \in Nat, NEW s \in Visits(start, n)
  PROVE  Claimed(n, s)
<1> DEFINE Inv == [k \in 0..n |-> {u \in LoopState : Claimed(k, u)}]
<1>1. \A k \in 0..n : \A u : u \in Inv[k] <=> Claimed(k, u)
  BY DEF Claimed, InLoop
<1> HIDE DEF Inv
<1>2. 0 \in 0..n /\ n \in 0..n /\ \A k \in 1..n : k \in 0..n /\ k - 1 \in 0..n /\ k \in Nat \ {0}
  OBVIOUS
<1>3. start \in Inv[0]
  BY <1>1, <1>2
<1>4. ASSUME NEW k \in 1..n, NEW u \in Inv[k - 1]
      PROVE  IF Visit(u) = {} THEN u \in Inv[k] ELSE Visit(u) \subseteq Inv[k]
  <2>1. Claimed(k - 1, u) /\ k \in Nat \ {0}
    BY <1>1, <1>2
  <2>2. Visit(u) = {} => Claimed(k, u)
    BY <2>1, ClaimedIdle
  <2>3. \A t \in Visit(u) : Claimed(k, t)
    BY <2>1, ClaimedVisit
  <2> QED
    BY <1>1, <1>2, <2>2, <2>3
<1>5. Visits(start, n) \subseteq Inv[n]
  BY <1>3, <1>4, LoopRule
<1> QED
  BY <1>1, <1>2, <1>5

-----------------------------------------------------------------------------
(***************************************************************************)
(* The inductive invariant.                                                *)
(***************************************************************************)
FairInv ==
  /\ now \in 0..MaxTime
  /\ rows \in [WorkItems -> Row]
  /\ visits \in CountMaps /\ Total(visits) <= MaxVisits
  /\ Slotted(served, Total(visits)) /\ Len(served) <= Len(PriorityCycle)

\* Where the loop of a claim starts.
Swept(X, S) ==
  [i \in WorkItems |-> IF i \in X THEN [rows[i] EXCEPT !.state = "done"] ELSE Aged(S)[i]]

Start(X, S) ==
  [rows |-> Swept(X, S), visits |-> visits, cursor |-> Total(visits),
   served |-> served, first |-> TRUE]

LEMMA ClaimIs ==
  ASSUME NEW n, NEW X, Claim(n, X)
  PROVE  /\ Total(visits) + n <= MaxVisits /\ now' = now
         /\ \E S \in OldestAged(AgedCandidates \ X) : \E s \in Visits(Start(X, S), n) :
              rows' = s.rows /\ visits' = s.visits /\ served' = LastOf(s.served)
BY DEF Claim, Start, Swept

LEMMA AgedType ==
  ASSUME FairInv, NEW i \in AgedCandidates
  PROVE  i \in WorkItems /\ AgedClass(i) \in 1..TopClass
<1>1. /\ i \in WorkItems /\ rows[i].since \in Nat /\ rows[i].since + AgingInterval <= now
      /\ now \in Nat /\ AgingInterval \in Nat \ {0} /\ TopClass \in Nat \ {0}
      /\ Priority[i] \in 1..TopClass
  <2>1. i \in WorkItems /\ rows[i].since + AgingInterval <= now
    BY DEF AgedCandidates
  <2>2. rows \in [WorkItems -> Row] /\ now \in 0..MaxTime
    BY DEF FairInv
  <2>3. /\ MaxTime \in Nat /\ AgingInterval \in Nat \ {0} /\ TopClass \in Nat \ {0}
        /\ Priority[i] \in 1..TopClass
    BY <2>1, FairClaimAssumption
  <2>4. rows[i].since \in Nat
    BY <2>1, <2>2, RowTypes
  <2> QED
    BY <2>1, <2>2, <2>3, <2>4
<1> DEFINE age == (now - rows[i].since) \div AgingInterval
           T == {TopClass, Priority[i] + age}
<1>2. age \in Nat
  <2>1. now - rows[i].since \in Nat
    BY <1>1
  <2> QED
    BY <1>1, <2>1, DivMod
<1> HIDE DEF age
<1>3. T \in SUBSET Nat /\ T # {}
  BY <1>1, <1>2
<1>4. \E x \in T : \A y \in T : x <= y
  <2> HIDE DEF T
  <2> QED
    BY <1>3, Least
<1>5. Min(T) \in T /\ \A y \in T : Min(T) <= y
  BY <1>4 DEF Min
<1>6. AgedClass(i) = Min(T)
  BY DEF AgedClass, age
<1> DEFINE m == Min(T)
<1>7. m = AgedClass(i) /\ (m = TopClass \/ m = Priority[i] + age) /\ m <= TopClass
  BY <1>5, <1>6
<1> HIDE DEF m, T
<1>8. m \in 1..TopClass
  BY <1>1, <1>2, <1>7
<1> QED
  BY <1>1, <1>7, <1>8

LEMMA SweptIs ==
  ASSUME FairInv, NEW X, NEW S \in OldestAged(AgedCandidates \ X)
  PROVE  /\ Swept(X, S) \in [WorkItems -> Row]
         /\ \A i \in WorkItems : Swept(X, S)[i].state = IF i \in X THEN "done" ELSE rows[i].state
<1>1. S \subseteq AgedCandidates
  BY DEF OldestAged
<1>2. rows \in [WorkItems -> Row]
  BY DEF FairInv
<1>3. ASSUME NEW i \in WorkItems
      PROVE  /\ Swept(X, S)[i] \in Row
             /\ Swept(X, S)[i].state = IF i \in X THEN "done" ELSE rows[i].state
  <2>1. rows[i] \in Row
    BY <1>2
  <2>2. CASE i \in X
    <3>1. Swept(X, S)[i] = [rows[i] EXCEPT !.state = "done"]
      BY <2>2 DEF Swept
    <3> QED
      BY <2>1, <2>2, <3>1 DEF Row
  <2>3. CASE i \notin X /\ i \in S
    <3>1. Swept(X, S)[i] = [rows[i] EXCEPT !.class = AgedClass(i)]
      BY <2>3 DEF Swept, Aged
    <3>2. AgedClass(i) \in 1..TopClass
      BY <1>1, <2>3, AgedType
    <3> QED
      BY <2>1, <2>3, <3>1, <3>2 DEF Row
  <2>4. CASE i \notin X /\ i \notin S
    <3>1. Swept(X, S)[i] = rows[i]
      BY <2>4 DEF Swept, Aged
    <3> QED
      BY <2>1, <2>4, <3>1
  <2> QED
    BY <2>2, <2>3, <2>4
<1>4. Swept(X, S) \in [WorkItems -> Row]
  BY <1>3 DEF Swept
<1> QED
  BY <1>3, <1>4

LEMMA StartIs ==
  ASSUME IsFiniteSet(WorkItems), FairInv, NEW X, NEW S \in OldestAged(AgedCandidates \ X)
  PROVE  Claimed(0, Start(X, S))
<1> DEFINE s == Start(X, S)
<1>1. /\ visits \in CountMaps /\ Total(visits) \in Nat
      /\ Slotted(served, Total(visits)) /\ served \in Seq(VisitRecord)
  BY TotalType DEF FairInv, Slotted
<1>2. /\ s.rows = Swept(X, S) /\ s.visits = visits /\ s.cursor = Total(visits)
      /\ s.served = served /\ s.first = TRUE
  BY DEF Start
<1>3. s \in LoopState
  BY <1>1, SweptIs DEF LoopState, Start
<1> HIDE DEF s
<1>4. InLoop(s)
  BY <1>1, <1>2, <1>3 DEF InLoop, CursorIs
<1>5. \A i \in WorkItems :
        /\ s.rows[i].state = "queued" => rows[i].state = "queued"
        /\ ~(rows[i].state = "queued" /\ s.rows[i].state = "running")
  <2> TAKE i \in WorkItems
  <2>1. s.rows[i].state = IF i \in X THEN "done" ELSE rows[i].state
    BY <1>2, SweptIs
  <2> QED
    BY <2>1
<1>6. TakenItems(s) = {}
  BY <1>5 DEF TakenItems
<1>7. Cardinality(TakenItems(s)) = 0 /\ Total(s.visits) <= Total(visits) + 0
  BY <1>1, <1>2, <1>6, FS_EmptySet
<1>8. Claimed(0, s)
  BY <1>4, <1>5, <1>6, <1>7 DEF Claimed
<1> QED
  BY <1>8 DEF s

\* The end of a claim.
LEMMA ClaimEnds ==
  ASSUME IsFiniteSet(WorkItems), FairInv, NEW n \in BatchSizes, NEW X, Claim(n, X)
  PROVE  \E s : /\ Claimed(n, s) /\ rows' = s.rows /\ visits' = s.visits
                /\ served' = LastOf(s.served) /\ n \in Nat /\ Total(visits) + n <= MaxVisits
                /\ now' = now
<1>1. PICK S \in OldestAged(AgedCandidates \ X) : \E s \in Visits(Start(X, S), n) :
        rows' = s.rows /\ visits' = s.visits /\ served' = LastOf(s.served)
  BY ClaimIs
<1>2. PICK s \in Visits(Start(X, S), n) :
        rows' = s.rows /\ visits' = s.visits /\ served' = LastOf(s.served)
  BY <1>1
<1>3. n \in Nat /\ visits \in CountMaps
  BY FairClaimAssumption DEF FairInv
<1>4. Claimed(n, s)
  BY <1>3, StartIs, ClaimedVisits
<1> QED
  BY <1>2, <1>3, <1>4, ClaimIs

LEMMA FairInvInit == Init => FairInv
<1> SUFFICES ASSUME Init PROVE FairInv
  OBVIOUS
<1>1. /\ MaxTime \in Nat /\ MaxVisits \in Nat /\ Priority \in [WorkItems -> 1..TopClass]
      /\ Len(PriorityCycle) \in Nat
  BY FairClaimAssumption, CycleTypes
<1>2. now \in 0..MaxTime
  BY <1>1 DEF Init
<1>3. rows \in [WorkItems -> Row]
  <2>1. \A i \in WorkItems : [state |-> "absent", class |-> Priority[i], since |-> 0] \in Row
    BY <1>1 DEF Row
  <2> QED
    BY <2>1 DEF Init
<1>4. visits \in CountMaps /\ Total(visits) = 0
  BY TotalOfNone DEF Init
<1>5. Slotted(served, Total(visits)) /\ Len(served) <= Len(PriorityCycle)
  <2>1. served = <<>> /\ <<>> \in Seq(VisitRecord) /\ Len(<<>>) = 0
    BY DEF Init
  <2> QED
    BY <1>1, <1>4, <2>1 DEF Slotted
<1> QED
  BY <1>1, <1>2, <1>3, <1>4, <1>5 DEF FairInv

LEMMA FairInvStep == FairInv /\ [Next]_vars => FairInv'
<1> SUFFICES ASSUME FairInv, [Next]_vars PROVE FairInv'
  OBVIOUS
<1>a. /\ IsFiniteSet(WorkItems) /\ MaxTime \in Nat /\ MaxVisits \in Nat
      /\ Priority \in [WorkItems -> 1..TopClass] /\ Len(PriorityCycle) \in Nat
      /\ Classes = 1..TopClass
  BY FairClaimAssumption, CycleTypes
<1>b. /\ now \in 0..MaxTime /\ rows \in [WorkItems -> Row]
      /\ visits \in CountMaps /\ Total(visits) <= MaxVisits
      /\ Slotted(served, Total(visits)) /\ Len(served) <= Len(PriorityCycle)
  BY DEF FairInv
<1>1. ASSUME NEW i \in WorkItems, Enqueue(i)
      PROVE  FairInv'
  <2> DEFINE key == <<Priority[i], Partition[i]>>
  <2>1. rows' \in [WorkItems -> Row]
    <3>1. rows' = [rows EXCEPT ![i] = [rows[i] EXCEPT !.state = "queued", !.since = now]]
      BY <1>1 DEF Enqueue
    <3>2. [rows[i] EXCEPT !.state = "queued", !.since = now] \in Row
      BY <1>b DEF Row
    <3> QED
      BY <1>b, <3>1, <3>2
  <2>2. visits' \in CountMaps /\ Total(visits') = Total(visits)
    <3>1. key \in Classes \X Partitions
      BY <1>a DEF Partitions
    <3>2. visits' = [k \in DOMAIN visits \cup {key} |-> IF k \in DOMAIN visits THEN visits[k] ELSE 0]
      BY <1>1 DEF Enqueue
    <3> HIDE DEF key
    <3> QED
      BY <1>a, <1>b, <3>1, <3>2, TotalAdds
  <2>3. now' = now /\ served' = served
    BY <1>1 DEF Enqueue
  <2> QED
    BY <1>b, <2>1, <2>2, <2>3 DEF FairInv
<1>2. ASSUME NEW i \in WorkItems, Retry(i)
      PROVE  FairInv'
  <2>1. rows' \in [WorkItems -> Row]
    <3>1. rows' = [rows EXCEPT ![i] = [rows[i] EXCEPT !.state = "queued", !.since = now]]
      BY <1>2 DEF Retry
    <3>2. [rows[i] EXCEPT !.state = "queued", !.since = now] \in Row
      BY <1>b DEF Row
    <3> QED
      BY <1>b, <3>1, <3>2
  <2>2. now' = now /\ visits' = visits /\ served' = served
    BY <1>2 DEF Retry
  <2> QED
    BY <1>b, <2>1, <2>2 DEF FairInv
<1>3. ASSUME NEW i \in WorkItems, Finish(i)
      PROVE  FairInv'
  <2>1. rows' \in [WorkItems -> Row] /\ now' = now
    <3>1. rows' = [rows EXCEPT ![i] = [rows[i] EXCEPT !.state = "done"]] /\ now' = now
      BY <1>b, <1>3 DEF Finish
    <3>2. [rows[i] EXCEPT !.state = "done"] \in Row
      BY <1>b DEF Row
    <3> QED
      BY <1>b, <3>1, <3>2
  <2>2. /\ visits' = IF \E j \in WorkItems : rows'[j].state \in {"queued", "running"}
                     THEN visits ELSE <<>>
        /\ served' = IF Open = {i} THEN <<>> ELSE served
    BY <1>3 DEF Finish, Dropped
  <2>3. (\E j \in WorkItems : rows'[j].state \in {"queued", "running"}) <=> Open # {i}
    <3>1. i \in Open /\ rows'[i].state = "done" /\ \A j \in WorkItems \ {i} : rows'[j] = rows[j]
      BY <1>b, <1>3 DEF Finish, Row
    <3>2. ASSUME NEW j \in WorkItems, rows'[j].state \in {"queued", "running"}
          PROVE  Open # {i}
      <4>1. j # i /\ rows[j].state \in {"queued", "running"}
        BY <3>1, <3>2
      <4> QED
        BY <4>1 DEF Open
    <3>3. ASSUME Open # {i}
          PROVE  \E j \in WorkItems : rows'[j].state \in {"queued", "running"}
      <4>1. PICK j \in Open : j # i
        BY <3>1, <3>3
      <4> QED
        BY <3>1, <4>1 DEF Open
    <3> QED
      BY <3>2, <3>3
  <2>4. CASE Open # {i}
    <3>1. visits' = visits /\ served' = served
      BY <2>2, <2>3, <2>4
    <3> QED
      BY <1>b, <2>1, <3>1 DEF FairInv
  <2>5. CASE Open = {i}
    <3>1. visits' = <<>> /\ served' = <<>>
      BY <2>2, <2>3, <2>5
    <3>2. visits' \in CountMaps /\ Total(visits') = 0
      BY <3>1, TotalOfNone
    <3>3. Slotted(<<>>, 0)
      <4>1. <<>> \in Seq(VisitRecord) /\ Len(<<>>) = 0
        OBVIOUS
      <4> QED
        BY <4>1 DEF Slotted
    <3>4. Len(<<>>) <= Len(PriorityCycle) /\ 0 <= MaxVisits
      BY <1>a
    <3> QED
      BY <1>b, <2>1, <3>1, <3>2, <3>3, <3>4 DEF FairInv
  <2> QED
    BY <2>4, <2>5
<1>4. ASSUME NEW n \in BatchSizes, NEW X \in SUBSET (Open \cap Expiring), Claim(n, X)
      PROVE  FairInv'
  <2>1. PICK s : /\ Claimed(n, s) /\ rows' = s.rows /\ visits' = s.visits
                 /\ served' = LastOf(s.served) /\ n \in Nat /\ Total(visits) + n <= MaxVisits
                 /\ now' = now
    BY <1>a, <1>4, ClaimEnds
  <2>2. InLoop(s) /\ Total(s.visits) <= Total(visits) + n
    BY <2>1 DEF Claimed
  <2>3. /\ s.rows \in [WorkItems -> Row] /\ s.visits \in CountMaps
        /\ Slotted(s.served, Total(s.visits))
    BY <2>2 DEF InLoop, LoopState
  <2>4. Total(s.visits) <= MaxVisits
    <3>1. Total(s.visits) \in Nat /\ Total(visits) \in Nat
      BY <1>a, <1>b, <2>3, TotalType
    <3> QED
      BY <1>a, <2>1, <2>2, <3>1
  <2>5. Slotted(LastOf(s.served), Total(s.visits)) /\ Len(LastOf(s.served)) <= Len(PriorityCycle)
    BY <2>3, SlottedLast
  <2> QED
    BY <1>b, <2>1, <2>3, <2>4, <2>5 DEF FairInv
<1>5. ASSUME Tick
      PROVE  FairInv'
  <2>1. now' \in 0..MaxTime
    BY <1>a, <1>b, <1>5 DEF Tick
  <2>2. rows' = rows /\ visits' = visits /\ served' = served
    BY <1>5 DEF Tick
  <2> QED
    BY <1>b, <2>1, <2>2 DEF FairInv
<1>6. ASSUME UNCHANGED vars
      PROVE  FairInv'
  <2>1. now' = now /\ rows' = rows /\ visits' = visits /\ served' = served
    BY <1>6 DEF vars
  <2> QED
    BY <1>b, <2>1 DEF FairInv
<1> QED
  BY <1>1, <1>2, <1>3, <1>4, <1>5, <1>6 DEF Next, Claims

\* The invariant holds in every state.
THEOREM FairInvariance == Spec => []FairInv
BY FairInvInit, FairInvStep, PTL DEF Spec

\* Of every partition with a row the visits are counted, and no count passes the total.
THEOREM FairTypeCorrect == Spec => []TypeOK
<1>1. FairInv => TypeOK
  <2> SUFFICES ASSUME FairInv PROVE TypeOK
    OBVIOUS
  <2>1. /\ visits \in CountMaps /\ IsFiniteSet(WorkItems) /\ MaxVisits \in Nat
        /\ Total(visits) <= MaxVisits
    BY FairClaimAssumption DEF FairInv
  <2>2. /\ Total(visits) \in Nat /\ \A key \in DOMAIN visits : visits[key] <= Total(visits)
        /\ visits \in [DOMAIN visits -> Nat] /\ DOMAIN visits \subseteq Classes \X Partitions
    BY <2>1, TotalType, CountMapsAre
  <2>3. \A key \in DOMAIN visits : visits[key] \in 0..MaxVisits
    BY <2>1, <2>2
  <2> QED
    BY <2>2, <2>3 DEF FairInv, TypeOK
<1> QED
  BY <1>1, FairInvariance, PTL

\* A class that has work that could be leased gets as many of a cycle's worth of visits as
\* it has slots, counted from the beginning of any claim, whatever batches are asked for and
\* whatever is enqueued, retried, ended or aged in between (virtualFinishCursor,
\* selectFairCandidate).
THEOREM EveryClassGetsItsShare == Spec => []ClassesGetTheirShare
<1>1. FairInv => ClassesGetTheirShare
  <2> SUFFICES ASSUME FairInv, Len(served) = Len(PriorityCycle), served[1].first,
                      NEW c \in Classes, \A j \in DOMAIN served : c \in served[j].ready
               PROVE  Cardinality({j \in DOMAIN served : served[j].class = c})
                        >= Cardinality({k \in DOMAIN PriorityCycle : PriorityCycle[k] = c})
    BY DEF ClassesGetTheirShare
  <2>1. Slotted(served, Total(visits))
    BY DEF FairInv
  <2> QED
    BY <2>1, ShareOfSlotted
<1> QED
  BY <1>1, FairInvariance, PTL

\* Only a claim takes items.
LEMMA OnlyClaimsTake ==
  ASSUME FairInv, [Next]_vars, NEW i \in WorkItems,
         rows[i].state = "queued", rows'[i].state = "running"
  PROVE  \E n \in BatchSizes : \E X \in SUBSET (Open \cap Expiring) : Claim(n, X)
<1>b. rows \in [WorkItems -> Row]
  BY DEF FairInv
<1>1. ASSUME NEW j \in WorkItems, NEW new,
             rows' = [rows EXCEPT ![j] = new], new.state # "running"
      PROVE  FALSE
  BY <1>b, <1>1
<1>2. ASSUME NEW j \in WorkItems, Enqueue(j) \/ Retry(j) \/ Finish(j)
      PROVE  FALSE
  <2>1. CASE Enqueue(j) \/ Retry(j)
    <3> DEFINE new == [rows[j] EXCEPT !.state = "queued", !.since = now]
    <3>1. rows' = [rows EXCEPT ![j] = new]
      BY <1>b, <2>1 DEF Enqueue, Retry
    <3>2. new.state # "running"
      BY <1>b DEF Row
    <3> HIDE DEF new
    <3> QED
      BY <1>1, <3>1, <3>2
  <2>2. CASE Finish(j)
    <3> DEFINE new == [rows[j] EXCEPT !.state = "done"]
    <3>1. rows' = [rows EXCEPT ![j] = new]
      BY <1>b, <2>2 DEF Finish
    <3>2. new.state # "running"
      BY <1>b DEF Row
    <3> HIDE DEF new
    <3> QED
      BY <1>1, <3>1, <3>2
  <2> QED
    BY <1>2, <2>1, <2>2
<1>3. ~Tick /\ ~UNCHANGED vars
  BY DEF Tick, vars
<1> QED
  BY <1>2, <1>3 DEF Next, Claims

\* A claim that leases more to a tenant, workspace or project than is reserved for it
\* leaves each sibling with claimable work a lease, also when the claim goes on to others
\* (hasLeaseCapacity, countUnderReserved...).  With two leases
\* reserved for each, one that goes to a sibling uses up what was free for the others, and the
\* sibling is still owed another.
THEOREM ReservationsAreKept == ASSUME Reservation <= 1 PROVE Spec => SiblingsKeepTheirReservation
<1> DEFINE Siblings ==
      \A i \in WorkItems : rows[i].state = "queued" /\ rows'[i].state = "running" =>
        \A k \in Levels :
          LET p == Partition[i]
          IN Leased(rows', p, k) > Reservation =>
               Leased(rows', p, k - 1) + Cardinality(UnderReserved(rows', p, k))
                 <= LeaseLimits[k]
<1>1. FairInv /\ [Next]_vars => [Siblings]_vars
  <2> SUFFICES ASSUME FairInv, [Next]_vars, NEW i \in WorkItems,
                      rows[i].state = "queued", rows'[i].state = "running",
                      NEW k \in Levels
               PROVE  Kept(rows', Partition[i], k)
    BY DEF Kept
  <2>1. PICK n \in BatchSizes, X \in SUBSET (Open \cap Expiring) : Claim(n, X)
    BY OnlyClaimsTake
  <2>2. PICK s : Claimed(n, s) /\ rows' = s.rows
    BY <2>1, ClaimEnds, FairClaimAssumption
  <2>3. i \in TakenItems(s) /\ k \in 1..Depth
    BY <2>2, PartitionTypes DEF TakenItems
  <2> QED
    BY <2>2, <2>3 DEF Claimed
<1> QED
  BY <1>1, FairInvariance, PTL DEF Spec, SiblingsKeepTheirReservation

\* A claim leases as much as it was asked for, or leaves nothing behind that the limits
\* allow and that its partition has a row for, in whatever class (claimTx,
\* selectFairCandidate).
THEOREM ClaimsAreThorough == Spec => ClaimsLeaveOnlyRowless
<1> DEFINE Thorough ==
      LET taken == {i \in WorkItems : rows[i].state = "queued" /\ rows'[i].state = "running"}
          left == {i \in WorkItems : /\ rows'[i].state = "queued" /\ HasRow(i, rows', visits')
                                     /\ HasLeaseCapacity(rows', Partition[i])}
      IN left # {} => \A n \in BatchSizes : \A X \in SUBSET (Open \cap Expiring) :
                        Claim(n, X) => Cardinality(taken) = n
<1>1. FairInv /\ [Next]_vars => [Thorough]_vars
  <2> SUFFICES ASSUME FairInv, NEW i \in WorkItems, rows'[i].state = "queued",
                      HasRow(i, rows', visits'), HasLeaseCapacity(rows', Partition[i]),
                      NEW n \in BatchSizes, NEW X \in SUBSET (Open \cap Expiring), Claim(n, X)
               PROVE  Cardinality({j \in WorkItems : rows[j].state = "queued"
                                                      /\ rows'[j].state = "running"}) = n
    OBVIOUS
  <2>1. PICK s : Claimed(n, s) /\ rows' = s.rows /\ visits' = s.visits
    BY ClaimEnds, FairClaimAssumption
  <2>2. {j \in WorkItems : rows[j].state = "queued" /\ rows'[j].state = "running"} = TakenItems(s)
    BY <2>1 DEF TakenItems
  <2>3. ASSUME Visit(s) = {}
        PROVE  FALSE
    <3>1. /\ s.rows \in [WorkItems -> Row] /\ s.visits \in CountMaps /\ s.cursor \in Nat
          /\ IsFiniteSet(WorkItems)
      BY <2>1, FairClaimAssumption DEF Claimed, InLoop, LoopState
    <3> DEFINE c == s.rows[i].class
    <3>2. c \in Classes /\ Counts(s.visits) /\ \A j \in WorkItems : s.rows[j].since \in Nat
      BY <3>1, RowTypes, TotalType
    <3>3. Candidates(s.rows, s.visits, c) = {}
      BY <2>3, <3>1, <3>2, NoVisit
    <3>4. s.rows[i].state = "queued" /\ <<c, Partition[i]>> \in DOMAIN s.visits
      BY <2>1 DEF HasRow
    <3>5. ~HasLeaseCapacity(s.rows, Partition[i])
      BY <3>1, <3>2, <3>3, <3>4, NoCandidates
    <3> QED
      BY <2>1, <3>5
  <2> QED
    BY <2>1, <2>2, <2>3 DEF Claimed
<1> QED
  BY <1>1, FairInvariance, PTL DEF Spec, ClaimsLeaveOnlyRowless

================================================================================
