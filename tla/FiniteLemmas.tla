---------------------------- MODULE FiniteLemmas ----------------------------
(***************************************************************************)
(* What the proofs need of finite sets and of the natural numbers, in the  *)
(* form the models use it: induction, least elements, and places in an     *)
(* order.  The induction theorems of the library take an operator as their *)
(* parameter; here induction is over a set, and the proof is by the least  *)
(* finite set of a family.                                                 *)
(***************************************************************************)
EXTENDS Integers, FiniteSets, FiniteSetsExt, Functions, FiniteSetTheorems,
        WellFoundedInduction, TLAPS

\* Of finite sets, one has none of the others inside it.
LEMMA SmallestOfFamily ==
    ASSUME NEW F, F # {}, \A T \in F : IsFiniteSet(T)
    PROVE  \E T \in F : \A U \in F : U \subseteq T => U = T
<1> DEFINE S == UNION F
           R == StrictSubsetOrdering(S)
<1>1. F \subseteq FiniteSubsetsOf(S)
  BY DEF FiniteSubsetsOf
<1>2. IsWellFoundedOn(R, FiniteSubsetsOf(S))
  BY FS_StrictSubsetOrderingWellFounded
<1>3. \E T \in F : \A U \in F : ~ (<<U, T>> \in R)
  <2> HIDE DEF S, R
  <2> QED BY <1>1, <1>2, WFMin
<1>4. PICK T \in F : \A U \in F : ~ (<<U, T>> \in R)
  BY <1>3
<1>5. ASSUME NEW U \in F, U \subseteq T, U # T
      PROVE  FALSE
  <2>1. <<U, T>> \in R
    BY <1>5 DEF StrictSubsetOrdering
  <2>2. QED
    BY <2>1, <1>4
<1>6. QED
  BY <1>5

\* A set that holds 0 and, with a number, the next one holds every number.
LEMMA InductionOverNat ==
    ASSUME NEW S, 0 \in S, \A n \in Nat : n \in S => n + 1 \in S
    PROVE  \A n \in Nat : n \in S
<1> DEFINE F == {1..n : n \in Nat \ S}
<1>1. ASSUME NEW n \in Nat, n \notin S
      PROVE  FALSE
  <2>1. F # {}
    BY <1>1
  <2>2. \A T \in F : IsFiniteSet(T)
    BY FS_Interval
  <2>3. PICK T \in F : \A U \in F : U \subseteq T => U = T
    <3> HIDE DEF F
    <3> QED BY <2>1, <2>2, SmallestOfFamily
  <2>4. PICK m \in Nat \ S : T = 1..m
    OBVIOUS
  <2>5. m # 0 /\ m - 1 \in Nat
    OBVIOUS
  <2>6. m - 1 \notin S
    <3>1. m - 1 \in S => (m - 1) + 1 \in S
      BY <2>5
    <3>2. (m - 1) + 1 = m
      OBVIOUS
    <3>3. QED
      BY <3>1, <3>2
  <2>7. 1..(m - 1) \in F
    BY <2>5, <2>6
  <2>8. 1..(m - 1) \subseteq 1..m /\ 1..(m - 1) # 1..m
    BY <2>5
  <2>9. QED
    BY <2>3, <2>4, <2>7, <2>8
<1>2. QED
  BY <1>1

\* A set that holds the empty set and stays closed under adding one element
\* holds every finite set.
LEMMA InductionOverSets ==
    ASSUME NEW P, {} \in P,
           NEW S, IsFiniteSet(S),
           \A T \in SUBSET S : \A x \in S \ T : T \in P => T \cup {x} \in P
    PROVE  S \in P
<1> DEFINE F == {T \in SUBSET S : T \notin P}
<1>1. \A T \in SUBSET S : IsFiniteSet(T)
  BY FS_Subset
<1>2. ASSUME S \notin P
      PROVE  FALSE
  <2>1. F # {} /\ \A T \in F : IsFiniteSet(T)
    BY <1>1, <1>2
  <2>2. PICK T \in F : \A U \in F : U \subseteq T => U = T
    <3> HIDE DEF F
    <3> QED BY <2>1, SmallestOfFamily
  <2>3. PICK x \in T : TRUE
    OBVIOUS
  <2>4. T \ {x} \notin F
    BY <2>2, <2>3
  <2>5. T \ {x} \in P /\ (T \ {x}) \cup {x} = T
    BY <2>3, <2>4
  <2>6. QED
    BY <2>3, <2>5
<1>3. QED
  BY <1>2

\* A non-empty set of natural numbers has a least one.
LEMMA LeastNat ==
    ASSUME NEW S \in SUBSET Nat, S # {}
    PROVE  \E x \in S : \A y \in S : x <= y
<1> DEFINE F == {1..n : n \in S}
<1>1. F # {} /\ \A T \in F : IsFiniteSet(T)
  <2>1. \A n \in S : IsFiniteSet(1..n)
    BY FS_Interval
  <2>2. QED
    BY <2>1
<1>2. PICK T \in F : \A U \in F : U \subseteq T => U = T
  <2> HIDE DEF F
  <2> QED BY <1>1, SmallestOfFamily
<1>3. PICK x \in S : T = 1..x
  OBVIOUS
<1>4. ASSUME NEW y \in S, ~(x <= y)
      PROVE  FALSE
  <2>1. 1..y \in F /\ 1..y \subseteq 1..x
    BY <1>4
  <2>2. 1..y = 1..x
    BY <1>2, <1>3, <2>1
  <2>3. x \in 1..x /\ x \notin 1..y
    BY <1>4
  <2>4. QED
    BY <2>2, <2>3
<1>5. QED
  BY <1>4

\* A finite, non-empty set of natural numbers has a greatest one.
LEMMA GreatestNat ==
    ASSUME NEW S \in SUBSET Nat, IsFiniteSet(S), S # {}
    PROVE  \E x \in S : \A y \in S : y <= x
<1> DEFINE P == {T \in SUBSET S : T = {} \/ \E x \in T : \A y \in T : y <= x}
<1>1. {} \in P
  OBVIOUS
<1>2. ASSUME NEW T \in SUBSET S, NEW z \in S \ T, T \in P
      PROVE  T \cup {z} \in P
  <2>1. CASE T = {}
    BY <2>1
  <2>2. CASE T # {}
    <3>1. PICK x \in T : \A y \in T : y <= x
      BY <1>2, <2>2
    <3>2. CASE z <= x
      BY <3>1, <3>2
    <3>3. CASE ~(z <= x)
      <4>1. \A y \in T \cup {z} : y <= z
        BY <3>1, <3>3
      <4>2. QED
        BY <4>1
    <3>4. QED
      BY <3>2, <3>3
  <2>3. QED
    BY <2>1, <2>2
<1>3. S \in P
  <2> HIDE DEF P
  <2> QED BY <1>1, <1>2, InductionOverSets
<1>4. QED
  BY <1>3

\* What CHOOSE takes for the least is the least.
LEMMA MinOfNats ==
    ASSUME NEW S \in SUBSET Nat, S # {}
    PROVE  Min(S) \in S /\ \A y \in S : Min(S) <= y
BY LeastNat DEF Min

\* A strict subset has fewer elements.
LEMMA FewerInside ==
    ASSUME NEW S, IsFiniteSet(S), NEW T \in SUBSET S, T # S
    PROVE  /\ IsFiniteSet(T)
           /\ Cardinality(T) \in Nat
           /\ Cardinality(S) \in Nat
           /\ Cardinality(T) < Cardinality(S)
BY FS_Subset, FS_CardinalityType

\* What a function takes a finite set to is finite.
LEMMA ImageIsFinite ==
    ASSUME NEW S, IsFiniteSet(S), NEW f
    PROVE  IsFiniteSet({f[x] : x \in S})
<1> DEFINE T == {f[x] : x \in S}
           g == [x \in S |-> f[x]]
<1>1. g \in Surjection(S, T)
  BY DEF Surjection
<1>2. QED
  BY <1>1, FS_Surjection

\* What an injection takes a finite set to is as large as the set.
LEMMA ImageOfInjection ==
    ASSUME NEW S, IsFiniteSet(S), NEW f,
           \A x, y \in S : f[x] = f[y] => x = y
    PROVE  /\ IsFiniteSet({f[x] : x \in S})
           /\ Cardinality({f[x] : x \in S}) = Cardinality(S)
<1> DEFINE T == {f[x] : x \in S}
           g == [x \in S |-> f[x]]
<1>1. g \in Bijection(S, T)
  BY DEF Bijection, Injection, Surjection, IsInjective
<1>2. ExistsBijection(S, T)
  BY <1>1 DEF ExistsBijection
<1>3. QED
  BY <1>2, FS_Bijection

-----------------------------------------------------------------------------
\* How many of S come before x in the order that f gives them.
PlaceIn(S, f, x) == Cardinality({y \in S : f[y] < f[x]})

\* The places are the numbers below the size of the set, each taken once, and
\* ordered as f orders the elements.
LEMMA Places ==
    ASSUME NEW S, IsFiniteSet(S), NEW f, \A x \in S : f[x] \in Int,
           \A x, y \in S : f[x] = f[y] => x = y
    PROVE  /\ Cardinality(S) \in Nat
           /\ \A x \in S : PlaceIn(S, f, x) \in 0..(Cardinality(S) - 1)
           /\ \A x, y \in S : f[x] < f[y] <=> PlaceIn(S, f, x) < PlaceIn(S, f, y)
           /\ \A x, y \in S : PlaceIn(S, f, x) = PlaceIn(S, f, y) => x = y
           /\ \A n \in 0..(Cardinality(S) - 1) : \E x \in S : PlaceIn(S, f, x) = n
<1> DEFINE before(x) == {y \in S : f[y] < f[x]}
           place == [x \in S |-> PlaceIn(S, f, x)]
<1>1. Cardinality(S) \in Nat
  BY FS_CardinalityType
<1>2. ASSUME NEW x \in S
      PROVE  PlaceIn(S, f, x) \in 0..(Cardinality(S) - 1)
  <2>1. x \notin before(x) /\ before(x) \in SUBSET S /\ before(x) # S
    OBVIOUS
  <2>2. QED
    BY <2>1, FewerInside DEF PlaceIn
<1>3. ASSUME NEW x \in S, NEW y \in S, f[x] < f[y]
      PROVE  PlaceIn(S, f, x) < PlaceIn(S, f, y)
  <2>1. before(x) \in SUBSET before(y) /\ x \in before(y) /\ x \notin before(x)
    BY <1>3
  <2>2. IsFiniteSet(before(y))
    BY FS_Subset
  <2>3. QED
    BY <2>1, <2>2, FewerInside DEF PlaceIn
<1>4. ASSUME NEW x \in S, NEW y \in S, x # y
      PROVE  f[x] < f[y] \/ f[y] < f[x]
  BY <1>4
<1>5. \A x, y \in S : PlaceIn(S, f, x) = PlaceIn(S, f, y) => x = y
  BY <1>2, <1>3, <1>4
<1>6. \A x, y \in S : f[x] < f[y] <=> PlaceIn(S, f, x) < PlaceIn(S, f, y)
  <2>1. SUFFICES ASSUME NEW x \in S, NEW y \in S, PlaceIn(S, f, x) < PlaceIn(S, f, y)
                 PROVE  f[x] < f[y]
    BY <1>3
  <2>2. CASE x = y
    BY <2>1, <2>2, <1>2
  <2>3. CASE f[y] < f[x]
    BY <2>1, <2>3, <1>2, <1>3
  <2>4. QED
    BY <2>2, <2>3, <1>4
<1>7. place \in Injection(S, 0..(Cardinality(S) - 1))
  BY <1>2, <1>5 DEF Injection, IsInjective
<1>8. /\ IsFiniteSet(0..(Cardinality(S) - 1))
      /\ Cardinality(0..(Cardinality(S) - 1)) = Cardinality(S)
  BY <1>1, FS_Interval, SMTT(30)
<1>9. place \in Surjection(S, 0..(Cardinality(S) - 1))
  BY <1>7, <1>8, FS_Injection
<1>10. \A n \in 0..(Cardinality(S) - 1) : \E x \in S : PlaceIn(S, f, x) = n
  BY <1>9 DEF Surjection
<1>11. QED
  BY <1>1, <1>2, <1>5, <1>6, <1>10

\* Those with the n lowest places: n of them, or all where there are fewer.
Lowest(S, f, n) == {x \in S : PlaceIn(S, f, x) < n}

\* Of a finite set ordered without ties, the lowest n are n, or all of them.
LEMMA LowestPlaces ==
    ASSUME NEW S, IsFiniteSet(S), NEW f, \A x \in S : f[x] \in Int,
           \A x, y \in S : f[x] = f[y] => x = y,
           NEW n \in Nat
    PROVE  /\ IsFiniteSet(Lowest(S, f, n))
           /\ Cardinality(Lowest(S, f, n)) = IF Cardinality(S) < n THEN Cardinality(S) ELSE n
<1> DEFINE K == Lowest(S, f, n)
           size == IF Cardinality(S) < n THEN Cardinality(S) ELSE n
           place == [x \in S |-> PlaceIn(S, f, x)]
<1>1. /\ Cardinality(S) \in Nat
      /\ \A x \in S : PlaceIn(S, f, x) \in 0..(Cardinality(S) - 1)
      /\ \A x, y \in S : PlaceIn(S, f, x) = PlaceIn(S, f, y) => x = y
      /\ \A m \in 0..(Cardinality(S) - 1) : \E x \in S : PlaceIn(S, f, x) = m
  BY Places
<1>2. size \in Nat
  BY <1>1
<1>3. {place[x] : x \in K} = 0..(size - 1)
  BY <1>1 DEF Lowest
<1>4. IsFiniteSet(K)
  BY FS_Subset DEF Lowest
<1>5. Cardinality({place[x] : x \in K}) = Cardinality(K)
  <2>1. \A x, y \in K : place[x] = place[y] => x = y
    BY <1>1 DEF Lowest
  <2> HIDE DEF K, place
  <2>2. QED
    BY <1>4, <2>1, ImageOfInjection
<1>6. Cardinality(0..(size - 1)) = size
  <2> HIDE DEF size
  <2>1. QED
    BY <1>2, FS_Interval
<1>7. QED
  BY <1>3, <1>4, <1>5, <1>6

-----------------------------------------------------------------------------
(* Sums over a finite set.                                                 *)

Picked(s) == CHOOSE x \in s : TRUE

\* One picked element and the rest, and that it sums f over the subsets of S so.
SumStep(it, f, S) ==
    [s \in SUBSET S |-> IF s = {} THEN 0 ELSE f[Picked(s)] + it[s \ {Picked(s)}]]

Sums(it, f, S) ==
    \A s \in SUBSET S : it[s] = IF s = {} THEN 0 ELSE f[Picked(s)] + it[s \ {Picked(s)}]

\* Such a function exists: it is built up by the size of the subsets.
LEMMA SumsExist ==
    ASSUME NEW S, IsFiniteSet(S), NEW f
    PROVE  \E it : it = SumStep(it, f, S)
<1> DEFINE Of(g, s) == IF s = {} THEN 0 ELSE f[Picked(s)] + g[s \ {Picked(s)}]
           Upto(g, n) == \A s \in SUBSET S : Cardinality(s) <= n => g[s] = Of(g, s)
           P == {n \in Nat : \E g : g = [s \in SUBSET S |-> g[s]] /\ Upto(g, n)}
<1>1. \A s \in SUBSET S : IsFiniteSet(s) /\ Cardinality(s) \in Nat
  BY FS_Subset, FS_CardinalityType
<1>2. 0 \in P
  <2> DEFINE g == [s \in SUBSET S |-> 0]
  <2>1. \A s \in SUBSET S : Cardinality(s) <= 0 => s = {}
    BY <1>1, FS_EmptySet
  <2>2. Upto(g, 0)
    BY <2>1
  <2>3. g = [s \in SUBSET S |-> g[s]]
    OBVIOUS
  <2> HIDE DEF g
  <2>4. QED
    BY <2>2, <2>3
<1>3. ASSUME NEW n \in Nat, n \in P
      PROVE  n + 1 \in P
  <2>1. PICK g : g = [s \in SUBSET S |-> g[s]] /\ Upto(g, n)
    BY <1>3
  <2> DEFINE h == [s \in SUBSET S |-> Of(g, s)]
  <2>2. ASSUME NEW s \in SUBSET S, Cardinality(s) <= n + 1
        PROVE  h[s] = Of(h, s)
    <3>1. CASE s = {}
      BY <3>1
    <3>2. CASE s # {}
      <4>1. Picked(s) \in s
        BY <3>2 DEF Picked
      <4>2. Cardinality(s \ {Picked(s)}) = Cardinality(s) - 1
        BY <1>1, <4>1, FS_RemoveElement
      <4>3. Cardinality(s \ {Picked(s)}) <= n
        BY <1>1, <2>2, <4>2
      <4>4. s \ {Picked(s)} \in SUBSET S
        OBVIOUS
      <4>5. g[s \ {Picked(s)}] = Of(g, s \ {Picked(s)})
        <5> HIDE DEF Of
        <5>1. QED
          BY <2>1, <4>3, <4>4
      <4>6. h[s \ {Picked(s)}] = g[s \ {Picked(s)}]
        <5>1. h[s \ {Picked(s)}] = Of(g, s \ {Picked(s)})
          <6> HIDE DEF Of
          <6>1. QED
            BY <4>4
        <5>2. QED
          BY <4>5, <5>1
      <4>7. h[s] = Of(g, s)
        <5> HIDE DEF Of
        <5>1. QED
          OBVIOUS
      <4> HIDE DEF h
      <4>8. QED
        BY <4>6, <4>7
    <3>3. QED
      BY <3>1, <3>2
  <2>3. h = [s \in SUBSET S |-> h[s]]
    <3> HIDE DEF Of
    <3>1. QED
      OBVIOUS
  <2> HIDE DEF h, Of
  <2>4. Upto(h, n + 1)
    BY <2>2
  <2>5. \E k : k = [s \in SUBSET S |-> k[s]] /\ Upto(k, n + 1)
    <3> HIDE DEF Upto
    <3>1. QED
      BY <2>3, <2>4
  <2>6. n + 1 \in Nat
    OBVIOUS
  <2> HIDE DEF Upto
  <2>7. QED
    BY <2>5, <2>6
<1>4. Cardinality(S) \in P
  <2> HIDE DEF P
  <2>1. \A n \in Nat : n \in P
    BY <1>2, <1>3, InductionOverNat
  <2>2. QED
    BY <1>1, <2>1
<1>5. PICK g : g = [s \in SUBSET S |-> g[s]] /\ Upto(g, Cardinality(S))
  BY <1>4
<1>6. \A s \in SUBSET S : Cardinality(s) <= Cardinality(S)
  BY FS_Subset
<1>7. \A s \in SUBSET S : g[s] = Of(g, s)
  <2> HIDE DEF Of
  <2>1. QED
    BY <1>5, <1>6
<1>8. g = SumStep(g, f, S)
  <2>1. g = [s \in SUBSET S |-> Of(g, s)]
    <3> HIDE DEF Of
    <3>1. QED
      BY <1>5, <1>7
  <2>2. QED
    BY <2>1 DEF SumStep
<1>9. QED
  BY <1>8

\* What the library's sum is.
LEMMA SumIsOne ==
    ASSUME NEW S, IsFiniteSet(S), NEW f
    PROVE  \E it : Sums(it, f, S) /\ it[S] = SumFunctionOnSet(f, S)
<1> DEFINE it == CHOOSE it : it = SumStep(it, f, S)
<1>1. it = SumStep(it, f, S)
  BY SumsExist
<1>2. SumFunctionOnSet(f, S) = it[S]
  BY DEF SumFunctionOnSet, FoldFunctionOnSet, MapThenFoldSet, SumStep, Picked
<1>3. Sums(it, f, S)
  <2> HIDE DEF it
  <2>1. QED
    BY <1>1 DEF Sums, SumStep
<1>4. QED
  BY <1>2, <1>3

\* It sums every subset alike.
LEMMA SumsAgree ==
    ASSUME NEW S, IsFiniteSet(S), NEW f, NEW it, Sums(it, f, S), NEW T \in SUBSET S
    PROVE  it[T] = SumFunctionOnSet(f, T)
<1>1. IsFiniteSet(T) /\ \A s \in SUBSET T : IsFiniteSet(s)
  BY FS_Subset
<1>2. PICK other : Sums(other, f, T) /\ other[T] = SumFunctionOnSet(f, T)
  BY <1>1, SumIsOne
<1> DEFINE F == {s \in SUBSET T : it[s] # other[s]}
<1>3. ASSUME F # {}
      PROVE  FALSE
  <2>1. PICK s \in F : \A u \in F : u \subseteq s => u = s
    <3>1. \A u \in F : IsFiniteSet(u)
      BY <1>1
    <3> HIDE DEF F
    <3>2. QED
      BY <1>3, <3>1, SmallestOfFamily
  <2>2. s \in SUBSET T /\ s \in SUBSET S /\ it[s] # other[s]
    OBVIOUS
  <2>3. s # {}
    BY <1>2, <2>2 DEF Sums
  <2>4. Picked(s) \in s
    BY <2>3 DEF Picked
  <2>5. it[s \ {Picked(s)}] = other[s \ {Picked(s)}]
    BY <2>1, <2>2, <2>4
  <2>6. QED
    BY <1>2, <2>2, <2>3, <2>5 DEF Sums
<1>4. QED
  BY <1>2, <1>3

\* A sum over a set is what was picked and the sum over the rest.
LEMMA SumPicks ==
    ASSUME NEW S, IsFiniteSet(S), NEW f
    PROVE  SumFunctionOnSet(f, S) =
             IF S = {} THEN 0 ELSE f[Picked(S)] + SumFunctionOnSet(f, S \ {Picked(S)})
<1>1. PICK it : Sums(it, f, S) /\ it[S] = SumFunctionOnSet(f, S)
  BY SumIsOne
<1>2. it[S \ {Picked(S)}] = SumFunctionOnSet(f, S \ {Picked(S)})
  BY <1>1, SumsAgree
<1>3. QED
  BY <1>1, <1>2 DEF Sums

\* Nothing sums to 0, and numbers to a number.
LEMMA SumOfNats ==
    ASSUME NEW S, IsFiniteSet(S), NEW f, \A x \in S : f[x] \in Nat
    PROVE  /\ SumFunctionOnSet(f, S) \in Nat
           /\ S = {} => SumFunctionOnSet(f, S) = 0
<1> DEFINE F == {T \in SUBSET S : SumFunctionOnSet(f, T) \notin Nat}
<1>1. \A T \in SUBSET S : IsFiniteSet(T)
  BY FS_Subset
<1>2. ASSUME F # {}
      PROVE  FALSE
  <2>1. PICK T \in F : \A U \in F : U \subseteq T => U = T
    <3>1. \A u \in F : IsFiniteSet(u)
      BY <1>1
    <3> HIDE DEF F
    <3>2. QED
      BY <1>2, <3>1, SmallestOfFamily
  <2>2. SumFunctionOnSet(f, T) =
          IF T = {} THEN 0 ELSE f[Picked(T)] + SumFunctionOnSet(f, T \ {Picked(T)})
    BY <1>1, SumPicks
  <2>3. T # {}
    BY <2>2
  <2>4. Picked(T) \in T
    BY <2>3 DEF Picked
  <2>5. SumFunctionOnSet(f, T \ {Picked(T)}) \in Nat
    BY <2>1, <2>4
  <2>6. f[Picked(T)] \in Nat
    BY <2>4
  <2>7. QED
    BY <2>2, <2>3, <2>5, <2>6
<1>3. QED
  BY <1>2, SumPicks

\* Any element may be the one that is taken out.
LEMMA SumSplits ==
    ASSUME NEW S, IsFiniteSet(S), NEW f, \A x \in S : f[x] \in Nat, NEW x \in S
    PROVE  SumFunctionOnSet(f, S) = f[x] + SumFunctionOnSet(f, S \ {x})
<1> DEFINE Total(T) == SumFunctionOnSet(f, T)
           F == {T \in SUBSET S : \E y \in T : Total(T) # f[y] + Total(T \ {y})}
<1>1. \A T \in SUBSET S : IsFiniteSet(T) /\ Total(T) \in Nat
  BY FS_Subset, SumOfNats
<1>2. ASSUME F # {}
      PROVE  FALSE
  <2>1. PICK T \in F : \A U \in F : U \subseteq T => U = T
    <3>1. \A u \in F : IsFiniteSet(u)
      BY <1>1
    <3> HIDE DEF F
    <3>2. QED
      BY <1>2, <3>1, SmallestOfFamily
  <2>2. PICK y \in T : Total(T) # f[y] + Total(T \ {y})
    OBVIOUS
  <2> DEFINE z == Picked(T)
  <2>3. z \in T
    BY <2>2 DEF Picked
  <2>4. Total(T) = f[z] + Total(T \ {z})
    BY <1>1, <2>2, SumPicks
  <2>5. y # z
    BY <2>2, <2>4
  <2> HIDE DEF z
  <2>6. y \in T \ {z} /\ z \in T \ {y}
    BY <2>3, <2>5
  <2>7. T \ {z} \notin F /\ T \ {y} \notin F
    BY <2>1, <2>3
  <2>8. Total(T \ {z}) = f[y] + Total((T \ {z}) \ {y})
    BY <2>6, <2>7
  <2>9. Total(T \ {y}) = f[z] + Total((T \ {y}) \ {z})
    BY <2>6, <2>7
  <2>10. Total((T \ {z}) \ {y}) = Total((T \ {y}) \ {z})
    <3>1. (T \ {z}) \ {y} = (T \ {y}) \ {z}
      OBVIOUS
    <3>2. QED
      BY <3>1
  <2>11. /\ Total(T) \in Nat /\ Total(T \ {z}) \in Nat /\ Total(T \ {y}) \in Nat
         /\ Total((T \ {y}) \ {z}) \in Nat /\ f[y] \in Nat /\ f[z] \in Nat
    BY <1>1, <2>3
  <2> HIDE DEF Total, F
  <2>12. QED
    BY <2>2, <2>4, <2>8, <2>9, <2>10, <2>11
<1>3. QED
  BY <1>2

\* A sum depends on what is summed only.
LEMMA SumOfSame ==
    ASSUME NEW S, IsFiniteSet(S), NEW f, NEW g, \A x \in S : f[x] = g[x]
    PROVE  SumFunctionOnSet(f, S) = SumFunctionOnSet(g, S)
<1> DEFINE F == {T \in SUBSET S : SumFunctionOnSet(f, T) # SumFunctionOnSet(g, T)}
<1>1. \A T \in SUBSET S : IsFiniteSet(T)
  BY FS_Subset
<1>2. ASSUME F # {}
      PROVE  FALSE
  <2>1. PICK T \in F : \A U \in F : U \subseteq T => U = T
    <3>1. \A u \in F : IsFiniteSet(u)
      BY <1>1
    <3> HIDE DEF F
    <3>2. QED
      BY <1>2, <3>1, SmallestOfFamily
  <2>2. /\ SumFunctionOnSet(f, T) =
             IF T = {} THEN 0 ELSE f[Picked(T)] + SumFunctionOnSet(f, T \ {Picked(T)})
        /\ SumFunctionOnSet(g, T) =
             IF T = {} THEN 0 ELSE g[Picked(T)] + SumFunctionOnSet(g, T \ {Picked(T)})
    BY <1>1, SumPicks
  <2>3. T # {}
    BY <2>2
  <2>4. Picked(T) \in T
    BY <2>3 DEF Picked
  <2>5. SumFunctionOnSet(f, T \ {Picked(T)}) = SumFunctionOnSet(g, T \ {Picked(T)})
    BY <2>1, <2>4
  <2>6. QED
    BY <2>2, <2>3, <2>4, <2>5
<1>3. QED
  BY <1>2

\* Changing one term, or adding one, changes the sum by that.
LEMMA SumWith ==
    ASSUME NEW S, IsFiniteSet(S), NEW f, \A x \in S : f[x] \in Nat,
           NEW T, NEW g, NEW z, T \subseteq S \cup {z}, S \subseteq T \cup {z},
           \A x \in T : g[x] \in Nat,
           \A x \in S \ {z} : g[x] = f[x]
    PROVE  /\ IsFiniteSet(T)
           /\ SumFunctionOnSet(f, S) \in Nat /\ SumFunctionOnSet(g, T) \in Nat
           /\ SumFunctionOnSet(g, T) + (IF z \in S THEN f[z] ELSE 0)
                = SumFunctionOnSet(f, S) + (IF z \in T THEN g[z] ELSE 0)
<1>1. S \ {z} = T \ {z}
  OBVIOUS
<1>2. IsFiniteSet(S \ {z}) /\ IsFiniteSet(T)
  <2>1. IsFiniteSet(S \cup {z})
    BY FS_AddElement
  <2>2. QED
    BY <2>1, FS_Subset
<1> DEFINE rest == SumFunctionOnSet(f, S \ {z})
<1>3. rest \in Nat /\ SumFunctionOnSet(f, S) \in Nat /\ SumFunctionOnSet(g, T) \in Nat
  BY <1>2, SumOfNats
<1>4. SumFunctionOnSet(f, S) = (IF z \in S THEN f[z] ELSE 0) + rest
  <2>1. CASE z \in S
    BY <2>1, SumSplits
  <2>2. CASE z \notin S
    <3>1. S \ {z} = S
      BY <2>2
    <3>2. QED
      BY <1>3, <2>2, <3>1
  <2>3. QED
    BY <2>1, <2>2
<1>5. SumFunctionOnSet(g, T) = (IF z \in T THEN g[z] ELSE 0) + rest
  <2>1. SumFunctionOnSet(g, T \ {z}) = rest
    BY <1>1, <1>2, SumOfSame
  <2>2. CASE z \in T
    BY <1>2, <2>1, <2>2, SumSplits
  <2>3. CASE z \notin T
    <3>1. T \ {z} = T
      BY <2>3
    <3>2. SumFunctionOnSet(g, T) = rest
      BY <2>1, <3>1
    <3> HIDE DEF rest
    <3>3. QED
      BY <1>3, <2>3, <3>2
  <2>4. QED
    BY <2>2, <2>3
<1>6. (z \in S => f[z] \in Nat) /\ (z \in T => g[z] \in Nat)
  OBVIOUS
<1> HIDE DEF rest
<1>7. QED
  BY <1>2, <1>3, <1>4, <1>5, <1>6
=============================================================================
