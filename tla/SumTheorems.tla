------------------------------ MODULE SumTheorems ------------------------------
(***************************************************************************)
(* Sums of the values of a function over a finite set, SumFunctionOnSet of *)
(* the community module Functions: what the credit that the dispatches of  *)
(* a process share is counted with (queue-application-port.ts,             *)
(* push-dispatcher.ts).                                                    *)
(*                                                                         *)
(* The sum is defined by recursion.  It is shown to be the number of the   *)
(* slots <<x, 1>>, ..., <<x, f[x]>> of the elements x, whence its laws     *)
(* follow from those of cardinalities.                                     *)
(***************************************************************************)
EXTENDS Functions, FiniteSetTheorems, TLAPS

Naturals(f, S) == \A x \in S : f[x] \in Nat

Slots(f, S) == UNION {{x} \X (1..f[x]) : x \in S}

\* What the sums of all subsets are defined by.
SumsOver(f, S, sums) ==
  sums = [T \in SUBSET S |->
            IF T = {} THEN 0
            ELSE f[CHOOSE x \in T : TRUE] + sums[T \ {CHOOSE x \in T : TRUE}]]

-----------------------------------------------------------------------------
LEMMA SumDef ==
  ASSUME NEW f, NEW S
  PROVE  SumFunctionOnSet(f, S) = (CHOOSE sums : SumsOver(f, S, sums))[S]
BY DEF SumFunctionOnSet, FoldFunctionOnSet, MapThenFoldSet, SumsOver

LEMMA SlotsAre ==
  ASSUME NEW f, NEW S
  PROVE  \A s : s \in Slots(f, S) <=> \E x \in S : \E k \in 1..f[x] : s = <<x, k>>
BY DEF Slots

LEMMA SlotsFinite ==
  ASSUME NEW f, NEW S, IsFiniteSet(S), Naturals(f, S)
  PROVE  IsFiniteSet(Slots(f, S))
<1> DEFINE own == [x \in S |-> {x} \X (1..f[x])]
           All == {own[x] : x \in S}
<1>1. own \in Surjection(S, All)
  BY DEF Surjection
<1>2. IsFiniteSet(All)
  BY <1>1, FS_Surjection
<1>3. ASSUME NEW x \in S PROVE IsFiniteSet(own[x])
  <2>1. f[x] \in Nat
    BY DEF Naturals
  <2>2. IsFiniteSet({x})
    BY FS_Singleton
  <2>3. IsFiniteSet(1..f[x])
    BY <2>1, FS_Interval
  <2>4. IsFiniteSet({x} \X (1..f[x]))
    BY <2>2, <2>3, FS_Product
  <2> QED
    BY <2>4
<1>4. \A T \in All : IsFiniteSet(T)
  BY <1>3
<1>5. Slots(f, S) = UNION All
  BY DEF Slots
<1> HIDE DEF All
<1> QED
  BY <1>2, <1>4, <1>5, FS_UNION

\* The slots of one element, and those of the others.
LEMMA SlotsWithout ==
  ASSUME NEW f, NEW S, IsFiniteSet(S), Naturals(f, S), NEW x \in S
  PROVE  Cardinality(Slots(f, S)) = f[x] + Cardinality(Slots(f, S \ {x}))
<1> DEFINE Own == {x} \X (1..f[x])
           Others == Slots(f, S \ {x})
<1>1. Slots(f, S) = Own \cup Others
  BY SlotsAre
<1>2. Own \cap Others = {}
  BY SlotsAre
<1>3. IsFiniteSet(Own) /\ Cardinality(Own) = f[x]
  <2>1. f[x] \in Nat
    BY DEF Naturals
  <2>2. IsFiniteSet({x}) /\ Cardinality({x}) = 1
    BY FS_Singleton
  <2>3. IsFiniteSet(1..f[x]) /\ Cardinality(1..f[x]) = f[x]
    BY <2>1, FS_Interval
  <2>4. IsFiniteSet(Own) /\ Cardinality(Own) = 1 * f[x]
    BY <2>2, <2>3, FS_Product
  <2> QED
    BY <2>1, <2>4
<1>4. IsFiniteSet(Others)
  BY FS_RemoveElement, SlotsFinite DEF Naturals
<1>5. Cardinality(Own) \in Nat /\ Cardinality(Others) \in Nat
  BY <1>3, <1>4, FS_CardinalityType
<1> HIDE DEF Own, Others
<1>6. Cardinality(Own \cup Others) = Cardinality(Own) + Cardinality(Others) - Cardinality({})
  BY <1>2, <1>3, <1>4, FS_Union
<1> QED
  BY <1>1, <1>3, <1>5, <1>6, FS_EmptySet DEF Others

LEMMA SlotsSolve ==
  ASSUME NEW f, NEW S, IsFiniteSet(S), Naturals(f, S)
  PROVE  SumsOver(f, S, [T \in SUBSET S |-> Cardinality(Slots(f, T))])
<1> DEFINE sums == [T \in SUBSET S |-> Cardinality(Slots(f, T))]
<1> SUFFICES ASSUME NEW T \in SUBSET S
             PROVE  sums[T] = IF T = {} THEN 0
                              ELSE f[CHOOSE x \in T : TRUE] + sums[T \ {CHOOSE x \in T : TRUE}]
  BY DEF SumsOver
<1>1. CASE T = {}
  <2>1. Slots(f, T) = {}
    BY <1>1 DEF Slots
  <2> QED
    BY <1>1, <2>1, FS_EmptySet
<1>2. CASE T # {}
  <2>1. PICK x : x = CHOOSE y \in T : TRUE
    OBVIOUS
  <2>2. x \in T
    BY <1>2, <2>1
  <2>3. IsFiniteSet(T) /\ Naturals(f, T)
    BY FS_Subset DEF Naturals
  <2>4. Cardinality(Slots(f, T)) = f[x] + Cardinality(Slots(f, T \ {x}))
    BY <2>2, <2>3, SlotsWithout
  <2>5. sums[T \ {x}] = Cardinality(Slots(f, T \ {x}))
    OBVIOUS
  <2> QED
    BY <1>2, <2>1, <2>4, <2>5
<1> QED
  BY <1>1, <1>2

\* There are no other sums: the smallest set with another one would have a smaller one.
LEMMA SumsUnique ==
  ASSUME NEW f, NEW S, IsFiniteSet(S), NEW g, SumsOver(f, S, g), NEW h, SumsOver(f, S, h)
  PROVE  g[S] = h[S]
<1> DEFINE R == StrictSubsetOrdering(S)
           Wrong == {T \in SUBSET S : g[T] # h[T]}
<1>1. IsWellFoundedOn(R, SUBSET S)
  BY FS_StrictSubsetOrderingWellFounded, FS_FiniteSubsetsOfFinite
<1>2. Wrong \subseteq SUBSET S
  OBVIOUS
<1> HIDE DEF R
<1>3. ASSUME Wrong # {} PROVE FALSE
  <2>1. PICK T \in Wrong : \A U \in Wrong : <<U, T>> \notin R
    <3> HIDE DEF Wrong
    <3> QED
      BY <1>1, <1>2, <1>3, WFMin
  <2>2. PICK x : x = CHOOSE y \in T : TRUE
    OBVIOUS
  <2>3. T # {} => x \in T
    BY <2>2
  <2>4. T = {} => g[T] = 0 /\ h[T] = 0
    BY DEF SumsOver
  <2>5. T # {} => g[T] = f[x] + g[T \ {x}] /\ h[T] = f[x] + h[T \ {x}]
    BY <2>2 DEF SumsOver
  <2>6. T # {} => <<T \ {x}, T>> \in R
    BY <2>3 DEF R, StrictSubsetOrdering
  <2>7. T # {} => g[T \ {x}] = h[T \ {x}]
    BY <2>1, <2>6
  <2> QED
    BY <2>4, <2>5, <2>7
<1> QED
  BY <1>3

\* The sum over a finite set is the number of its slots.
LEMMA SumCounts ==
  ASSUME NEW f, NEW S, IsFiniteSet(S), Naturals(f, S)
  PROVE  SumFunctionOnSet(f, S) = Cardinality(Slots(f, S))
<1> DEFINE counts == [T \in SUBSET S |-> Cardinality(Slots(f, T))]
           sums == CHOOSE g : SumsOver(f, S, g)
<1>1. SumsOver(f, S, counts)
  BY SlotsSolve
<1> HIDE DEF counts
<1>2. SumsOver(f, S, sums)
  BY <1>1
<1> HIDE DEF sums
<1>3. sums[S] = counts[S]
  BY <1>1, <1>2, SumsUnique
<1>4. SumFunctionOnSet(f, S) = sums[S]
  BY SumDef DEF sums
<1> QED
  BY <1>3, <1>4 DEF counts

-----------------------------------------------------------------------------
(***************************************************************************)
(* The laws.                                                               *)
(***************************************************************************)
LEMMA SumType ==
  ASSUME NEW f, NEW S, IsFiniteSet(S), Naturals(f, S)
  PROVE  SumFunctionOnSet(f, S) \in Nat
BY SumCounts, SlotsFinite, FS_CardinalityType

LEMMA SumEmpty == ASSUME NEW f PROVE SumFunctionOnSet(f, {}) = 0
<1>1. Slots(f, {}) = {}
  BY DEF Slots
<1>2. IsFiniteSet({}) /\ Naturals(f, {})
  BY FS_EmptySet DEF Naturals
<1> QED
  BY <1>1, <1>2, SumCounts, FS_EmptySet

LEMMA SumWithout ==
  ASSUME NEW f, NEW S, IsFiniteSet(S), Naturals(f, S), NEW x \in S
  PROVE  SumFunctionOnSet(f, S) = f[x] + SumFunctionOnSet(f, S \ {x})
<1>1. IsFiniteSet(S \ {x}) /\ Naturals(f, S \ {x})
  BY FS_RemoveElement DEF Naturals
<1> QED
  BY <1>1, SumCounts, SlotsWithout

\* Only the values in the set count.
LEMMA SumSame ==
  ASSUME NEW f, NEW g, NEW S, IsFiniteSet(S), Naturals(f, S), \A x \in S : g[x] = f[x]
  PROVE  SumFunctionOnSet(g, S) = SumFunctionOnSet(f, S)
<1>1. Slots(g, S) = Slots(f, S)
  BY DEF Slots
<1>2. Naturals(g, S)
  BY DEF Naturals
<1> QED
  BY <1>1, <1>2, SumCounts

\* One value changes.
LEMMA SumChange ==
  ASSUME NEW f, NEW g, NEW S, IsFiniteSet(S), Naturals(f, S), Naturals(g, S),
         NEW x \in S, \A y \in S \ {x} : g[y] = f[y]
  PROVE  SumFunctionOnSet(g, S) + f[x] = SumFunctionOnSet(f, S) + g[x]
<1>1. IsFiniteSet(S \ {x}) /\ Naturals(f, S \ {x})
  BY FS_RemoveElement DEF Naturals
<1>2. SumFunctionOnSet(g, S \ {x}) = SumFunctionOnSet(f, S \ {x})
  BY <1>1, SumSame
<1>3. SumFunctionOnSet(f, S \ {x}) \in Nat /\ f[x] \in Nat /\ g[x] \in Nat
  BY <1>1, SumType DEF Naturals
<1> QED
  BY <1>2, <1>3, SumWithout

LEMMA SumMonotone ==
  ASSUME NEW f, NEW g, NEW S, NEW T \in SUBSET S, IsFiniteSet(S), Naturals(f, T), Naturals(g, S),
         \A x \in T : f[x] <= g[x]
  PROVE  SumFunctionOnSet(f, T) <= SumFunctionOnSet(g, S)
<1>1. Slots(f, T) \subseteq Slots(g, S)
  <2>1. \A x \in T : 1..f[x] \subseteq 1..g[x]
    BY DEF Naturals
  <2> QED
    BY <2>1, SlotsAre
<1>2. IsFiniteSet(T)
  BY FS_Subset
<1> QED
  BY <1>1, <1>2, SumCounts, SlotsFinite, FS_Subset

LEMMA SumDisjoint ==
  ASSUME NEW f, NEW S, NEW T, IsFiniteSet(S), IsFiniteSet(T), S \cap T = {},
         Naturals(f, S \cup T)
  PROVE  SumFunctionOnSet(f, S \cup T) = SumFunctionOnSet(f, S) + SumFunctionOnSet(f, T)
<1>1. Naturals(f, S) /\ Naturals(f, T) /\ IsFiniteSet(S \cup T)
  BY FS_Union DEF Naturals
<1>2. Slots(f, S \cup T) = Slots(f, S) \cup Slots(f, T) /\ Slots(f, S) \cap Slots(f, T) = {}
  BY SlotsAre
<1>3. IsFiniteSet(Slots(f, S)) /\ IsFiniteSet(Slots(f, T))
  BY <1>1, SlotsFinite
<1>4. Cardinality(Slots(f, S)) \in Nat /\ Cardinality(Slots(f, T)) \in Nat
  BY <1>3, FS_CardinalityType
<1>5. Cardinality(Slots(f, S \cup T)) = Cardinality(Slots(f, S)) + Cardinality(Slots(f, T))
  <2> DEFINE A == Slots(f, S)
             B == Slots(f, T)
  <2>1. IsFiniteSet(A) /\ IsFiniteSet(B) /\ A \cap B = {}
    BY <1>2, <1>3
  <2> HIDE DEF A, B
  <2>2. Cardinality(A \cup B) = Cardinality(A) + Cardinality(B) - Cardinality(A \cap B)
    BY <2>1, FS_Union
  <2>3. Cardinality(A \cap B) = 0
    BY <2>1, FS_EmptySet
  <2>4. Cardinality(A) \in Nat /\ Cardinality(B) \in Nat
    BY <1>4 DEF A, B
  <2>5. Cardinality(A \cup B) = Cardinality(A) + Cardinality(B)
    BY <2>2, <2>3, <2>4
  <2> QED
    BY <1>2, <2>5 DEF A, B
<1>6. /\ SumFunctionOnSet(f, S) = Cardinality(Slots(f, S))
      /\ SumFunctionOnSet(f, T) = Cardinality(Slots(f, T))
      /\ SumFunctionOnSet(f, S \cup T) = Cardinality(Slots(f, S \cup T))
  BY <1>1, SumCounts
<1> QED
  BY <1>5, <1>6

LEMMA SumOfNothing ==
  ASSUME NEW f, NEW S, IsFiniteSet(S), \A x \in S : f[x] = 0
  PROVE  SumFunctionOnSet(f, S) = 0
<1>1. Naturals(f, S) /\ Slots(f, S) = {}
  BY SlotsAre DEF Naturals
<1> QED
  BY <1>1, SumCounts, FS_EmptySet

\* What was nothing is filled in.
LEMMA SumFill ==
  ASSUME NEW f, NEW g, NEW S, NEW T \in SUBSET S, IsFiniteSet(S), Naturals(f, S), Naturals(g, S),
         \A x \in T : f[x] = 0, \A x \in S \ T : g[x] = f[x]
  PROVE  SumFunctionOnSet(g, S) = SumFunctionOnSet(f, S) + SumFunctionOnSet(g, T)
<1> DEFINE U == S \ T
<1>1. /\ IsFiniteSet(T) /\ IsFiniteSet(U) /\ T \cap U = {} /\ T \cup U = S
      /\ Naturals(f, U) /\ Naturals(g, T)
  BY FS_Subset DEF Naturals
<1>2. \A x \in U : g[x] = f[x]
  OBVIOUS
<1> HIDE DEF U
<1>3. /\ SumFunctionOnSet(g, S) = SumFunctionOnSet(g, T) + SumFunctionOnSet(g, U)
      /\ SumFunctionOnSet(f, S) = SumFunctionOnSet(f, T) + SumFunctionOnSet(f, U)
  BY <1>1, SumDisjoint
<1>4. SumFunctionOnSet(f, T) = 0 /\ SumFunctionOnSet(g, U) = SumFunctionOnSet(f, U)
  BY <1>1, <1>2, SumOfNothing, SumSame
<1>5. SumFunctionOnSet(g, T) \in Nat /\ SumFunctionOnSet(f, U) \in Nat
  BY <1>1, SumType
<1> QED
  BY <1>3, <1>4, <1>5

\* Stretches of 1..limit that do not overlap are not longer together than that.
LEMMA SumPacked ==
  ASSUME NEW f, NEW S, IsFiniteSet(S), Naturals(f, S), NEW limit \in Nat, NEW from \in [S -> Nat],
         \A x \in S : f[x] > 0 => from[x] + f[x] <= limit,
         \A x, y \in S : x # y => from[x] + f[x] <= from[y] \/ from[y] + f[y] <= from[x]
  PROVE  SumFunctionOnSet(f, S) <= limit
<1> DEFINE place == [s \in Slots(f, S) |-> from[s[1]] + s[2]]
<1>1. ASSUME NEW s \in Slots(f, S)
      PROVE  /\ s[1] \in S /\ s[2] \in 1..f[s[1]] /\ s = <<s[1], s[2]>>
             /\ f[s[1]] \in Nat /\ from[s[1]] \in Nat
  BY SlotsAre DEF Naturals
<1>2. ASSUME NEW s \in Slots(f, S) PROVE place[s] \in 1..limit
  <2>1. from[s[1]] + s[2] \in Nat /\ from[s[1]] + s[2] >= 1 /\ from[s[1]] + s[2] <= limit
    BY <1>1
  <2> QED
    BY <2>1
<1>3. ASSUME NEW s \in Slots(f, S), NEW t \in Slots(f, S), place[s] = place[t] PROVE s = t
  <2>1. from[s[1]] + s[2] = from[t[1]] + t[2]
    BY <1>3
  <2>2. s[1] = t[1]
    BY <1>1, <2>1
  <2> QED
    BY <1>1, <2>1, <2>2
<1>4. place \in [Slots(f, S) -> 1..limit]
  BY <1>2
<1> HIDE DEF place
<1>5. place \in Injection(Slots(f, S), 1..limit)
  BY <1>3, <1>4 DEF Injection, IsInjective
<1>6. IsFiniteSet(1..limit) /\ Cardinality(1..limit) = limit
  BY FS_Interval
<1> QED
  BY <1>5, <1>6, FS_Injection, SumCounts
================================================================================
