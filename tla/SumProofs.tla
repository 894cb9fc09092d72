----------------------------- MODULE SumProofs -----------------------------
(***************************************************************************)
(* Sums over finite sets: what SumFunctionOnSet(f, S), the sum of f[x] for *)
(* the elements x of S, is known to be for every finite S.  The fold it is *)
(* defined by is a recursive function on the subsets of S; that there is   *)
(* one is proved first, by a least counterexample.  Then the same of loops *)
(* over the indices of a sequence.                                         *)
(***************************************************************************)
EXTENDS Integers, Functions, FiniteSetTheorems, WellFoundedInduction, TLAPS

Pick(s) == CHOOSE x \in s : TRUE

\* R is the recursive function that sums f over the subsets of S.
IsSum(f, S, R) ==
    R = [s \in SUBSET S |-> IF s = {} THEN 0 ELSE f[Pick(s)] + R[s \ {Pick(s)}]]

LEMMA Unfolded ==
    ASSUME NEW f, NEW S
    PROVE  SumFunctionOnSet(f, S) = (CHOOSE R : IsSum(f, S, R))[S]
BY DEF SumFunctionOnSet, FoldFunctionOnSet, MapThenFoldSet, IsSum, Pick

LEMMA Picked ==
    ASSUME NEW s, s # {}
    PROVE  Pick(s) \in s
BY DEF Pick

\* What holds of a set when it holds of its proper subsets holds of every
\* finite set.
LEMMA ByProperSubsets ==
    ASSUME NEW S, IsFiniteSet(S), NEW G,
           \A s \in SUBSET S : (\A u \in SUBSET s : u # s => u \in G) => s \in G
    PROVE  SUBSET S \subseteq G
<1> DEFINE Bad == (SUBSET S) \ G
<1> SUFFICES ASSUME Bad # {} PROVE FALSE
    OBVIOUS
<1>1. IsWellFoundedOn(StrictSubsetOrdering(S), SUBSET S)
    <2>1. IsWellFoundedOn(StrictSubsetOrdering(S), FiniteSubsetsOf(S))
        BY FS_StrictSubsetOrderingWellFounded
    <2>2. FiniteSubsetsOf(S) = SUBSET S
        BY FS_FiniteSubsetsOfFinite
    <2> QED BY <2>1, <2>2
<1>2. PICK s \in Bad : \A y \in Bad : ~(<<y, s>> \in StrictSubsetOrdering(S))
    <2>1. Bad \subseteq SUBSET S
        OBVIOUS
    <2> HIDE DEF Bad
    <2> QED BY <1>1, <2>1, WFMin
<1>3. ASSUME NEW u \in SUBSET s, u # s PROVE u \in G
    <2> SUFFICES ASSUME u \notin G PROVE FALSE
        OBVIOUS
    <2>1. u \in Bad
        OBVIOUS
    <2>2. <<u, s>> \in StrictSubsetOrdering(S)
        BY <1>3 DEF StrictSubsetOrdering
    <2> QED BY <1>2, <2>1, <2>2
<1> QED BY <1>3

\* What holds of the empty set, and of a set when it holds of the set without
\* the element that is picked from it, holds of every finite set.
LEMMA ByPicking ==
    ASSUME NEW S, IsFiniteSet(S), NEW G, {} \in G,
           \A s \in SUBSET S : s # {} /\ s \ {Pick(s)} \in G => s \in G
    PROVE  SUBSET S \subseteq G
<1>1. ASSUME NEW s \in SUBSET S, \A u \in SUBSET s : u # s => u \in G
      PROVE  s \in G
    <2>1. CASE s = {}
        BY <2>1
    <2>2. CASE s # {}
        <3>1. s \ {Pick(s)} \in SUBSET s /\ s \ {Pick(s)} # s
            BY <2>2, Picked
        <3> QED BY <1>1, <2>2, <3>1
    <2> QED BY <2>1, <2>2
<1> QED BY <1>1, ByProperSubsets

\* Two such functions agree where both are defined.
LEMMA SumsAgree ==
    ASSUME NEW f, NEW S, NEW T, NEW A, NEW B, IsFiniteSet(S),
           IsSum(f, S, A), IsSum(f, T, B)
    PROVE  \A s \in SUBSET (S \cap T) : A[s] = B[s]
<1> DEFINE G == {s \in SUBSET (S \cap T) : A[s] = B[s]}
<1>1. IsFiniteSet(S \cap T)
    BY FS_Subset
<1>2. {} \in G
    BY DEF IsSum
<1>3. ASSUME NEW s \in SUBSET (S \cap T), s # {}, s \ {Pick(s)} \in G
      PROVE  s \in G
    BY <1>3 DEF IsSum
<1>4. SUBSET (S \cap T) \subseteq G
    <2> HIDE DEF G
    <2> QED BY <1>1, <1>2, <1>3, ByPicking
<1> QED BY <1>4

\* There is one for every finite set.
LEMMA SumExists ==
    ASSUME NEW f, NEW S, IsFiniteSet(S)
    PROVE  \E R : IsSum(f, S, R)
<1> DEFINE G == {s \in SUBSET S : \E R : IsSum(f, s, R)}
<1>1. ASSUME NEW s \in SUBSET S, \A u \in SUBSET s : u # s => u \in G
      PROVE  s \in G
    <2> DEFINE Sum(u) == (CHOOSE R : IsSum(f, u, R))[u]
               R == [u \in SUBSET s |-> IF u = {} THEN 0 ELSE f[Pick(u)] + Sum(u \ {Pick(u)})]
    <2>1. ASSUME NEW v \in SUBSET s, v # s PROVE R[v] = Sum(v)
        <3>1. PICK A : A = CHOOSE X : IsSum(f, v, X)
            OBVIOUS
        <3>2. IsSum(f, v, A)
            BY <1>1, <2>1, <3>1
        <3>3. CASE v = {}
            BY <3>1, <3>2, <3>3 DEF IsSum
        <3>4. CASE v # {}
            <4> DEFINE w == v \ {Pick(v)}
            <4>1. w \in SUBSET s /\ w # s /\ w \in SUBSET v /\ w \in SUBSET S
                BY <3>4, Picked
            <4>2. PICK B : B = CHOOSE X : IsSum(f, w, X)
                OBVIOUS
            <4>3. IsSum(f, w, B)
                BY <1>1, <4>1, <4>2
            <4>4. IsFiniteSet(v)
                BY FS_Subset
            <4>5. w \in SUBSET (v \cap w)
                OBVIOUS
            <4>6. A[w] = B[w]
                BY <3>2, <4>3, <4>4, <4>5, SumsAgree
            <4>7. A[v] = f[Pick(v)] + A[w]
                BY <3>2, <3>4 DEF IsSum
            <4> QED BY <3>1, <3>4, <4>2, <4>6, <4>7
        <3> QED BY <3>3, <3>4
    <2>2. ASSUME NEW u \in SUBSET s, u # {}
          PROVE  R[u] = f[Pick(u)] + R[u \ {Pick(u)}]
        <3>1. u \ {Pick(u)} \in SUBSET s /\ u \ {Pick(u)} # s
            BY <2>2, Picked
        <3> QED BY <2>1, <2>2, <3>1
    <2>3. R = [u \in SUBSET s |-> IF u = {} THEN 0 ELSE f[Pick(u)] + R[u \ {Pick(u)}]]
        <3>1. \A u \in SUBSET s : R[u] = IF u = {} THEN 0 ELSE f[Pick(u)] + R[u \ {Pick(u)}]
            <4>1. R[{}] = 0
                OBVIOUS
            <4> HIDE DEF R
            <4> QED BY <2>2, <4>1
        <3>2. R = [u \in SUBSET s |-> R[u]]
            OBVIOUS
        <3> HIDE DEF R
        <3> QED BY <3>1, <3>2
    <2>4. IsSum(f, s, R)
        <3> HIDE DEF R
        <3> QED BY <2>3 DEF IsSum
    <2> QED BY <2>4
<1>2. SUBSET S \subseteq G
    <2> HIDE DEF G
    <2> QED BY <1>1, ByProperSubsets
<1> QED BY <1>2

\* The fold adds the elements one by one.
THEOREM SumIsRecursive ==
    ASSUME NEW f, NEW S, IsFiniteSet(S)
    PROVE  /\ SumFunctionOnSet(f, {}) = 0
           /\ S # {} => SumFunctionOnSet(f, S) = f[Pick(S)] + SumFunctionOnSet(f, S \ {Pick(S)})
<1>1. PICK A : IsSum(f, S, A) /\ SumFunctionOnSet(f, S) = A[S]
    BY SumExists, Unfolded
<1>2. IsFiniteSet({}) /\ IsFiniteSet(S \ {Pick(S)})
    BY FS_EmptySet, FS_Subset
<1>3. PICK B : IsSum(f, {}, B) /\ SumFunctionOnSet(f, {}) = B[{}]
    BY <1>2, SumExists, Unfolded
<1>4. SumFunctionOnSet(f, {}) = 0
    BY <1>3 DEF IsSum
<1>5. ASSUME S # {}
      PROVE  SumFunctionOnSet(f, S) = f[Pick(S)] + SumFunctionOnSet(f, S \ {Pick(S)})
    <2> DEFINE T == S \ {Pick(S)}
    <2>1. PICK C : IsSum(f, T, C) /\ SumFunctionOnSet(f, T) = C[T]
        BY <1>2, SumExists, Unfolded
    <2>2. A[T] = C[T]
        <3>1. T \in SUBSET (S \cap T)
            OBVIOUS
        <3> QED BY <1>1, <2>1, <3>1, SumsAgree
    <2>3. A[S] = f[Pick(S)] + A[T]
        BY <1>1, <1>5 DEF IsSum
    <2> QED BY <1>1, <2>1, <2>2, <2>3
<1> QED BY <1>4, <1>5

-----------------------------------------------------------------------------
(***************************************************************************)
(* Sums of integers.                                                       *)
(***************************************************************************)

\* One element at a time, for the subsets of a finite set of indices.
LEMMA SumStep ==
    ASSUME NEW f, NEW S, IsFiniteSet(S)
    PROVE  /\ SumFunctionOnSet(f, {}) = 0
           /\ \A s \in SUBSET S : s # {} =>
                /\ Pick(s) \in s /\ s \ {Pick(s)} \in SUBSET S
                /\ SumFunctionOnSet(f, s) = f[Pick(s)] + SumFunctionOnSet(f, s \ {Pick(s)})
<1>1. ASSUME NEW s \in SUBSET S, s # {}
      PROVE  SumFunctionOnSet(f, s) = f[Pick(s)] + SumFunctionOnSet(f, s \ {Pick(s)})
    <2>1. IsFiniteSet(s)
        BY FS_Subset
    <2> QED BY <1>1, <2>1, SumIsRecursive
<1> QED BY <1>1, SumIsRecursive, Picked

\* A sum of integers is an integer.
LEMMA SumTyped ==
    ASSUME NEW S, IsFiniteSet(S), NEW f, \A x \in S : f[x] \in Int
    PROVE  \A s \in SUBSET S : SumFunctionOnSet(f, s) \in Int
<1> DEFINE G == {s \in SUBSET S : SumFunctionOnSet(f, s) \in Int}
<1>1. {} \in G
    BY SumStep
<1>2. ASSUME NEW s \in SUBSET S, s # {}, s \ {Pick(s)} \in G PROVE s \in G
    <2>1. f[Pick(s)] \in Int /\ SumFunctionOnSet(f, s \ {Pick(s)}) \in Int
        BY <1>2, Picked
    <2> QED BY <1>2, <2>1, SumStep
<1>3. SUBSET S \subseteq G
    <2> HIDE DEF G
    <2> QED BY <1>1, <1>2, ByPicking
<1> QED BY <1>3

\* A sum of multiples is the multiple of the sums.
LEMMA SumLinear ==
    ASSUME NEW S, IsFiniteSet(S), NEW a \in Int, NEW b \in Int, NEW f, NEW g, NEW h,
           \A x \in S : f[x] \in Int /\ g[x] \in Int /\ h[x] = a * f[x] + b * g[x]
    PROVE  SumFunctionOnSet(h, S) = a * SumFunctionOnSet(f, S) + b * SumFunctionOnSet(g, S)
<1> DEFINE F(s) == SumFunctionOnSet(f, s)
           E(s) == SumFunctionOnSet(g, s)
           H(s) == SumFunctionOnSet(h, s)
           G == {s \in SUBSET S : H(s) = a * F(s) + b * E(s)}
<1>1. {} \in G
    <2>1. H({}) = 0 /\ F({}) = 0 /\ E({}) = 0
        BY SumStep
    <2> HIDE DEF H, F, E
    <2> QED BY <2>1
<1>2. ASSUME NEW s \in SUBSET S, s # {}, s \ {Pick(s)} \in G PROVE s \in G
    <2> DEFINE t == s \ {Pick(s)}
    <2>1. t \in SUBSET S /\ Pick(s) \in S
        BY <1>2, Picked
    <2>2. F(t) \in Int /\ E(t) \in Int
        BY <2>1, SumTyped
    <2>3. /\ F(s) = f[Pick(s)] + F(t) /\ E(s) = g[Pick(s)] + E(t)
          /\ H(s) = h[Pick(s)] + H(t)
        BY <1>2, SumStep
    <2>4. H(t) = a * F(t) + b * E(t)
        BY <1>2
    <2>5. f[Pick(s)] \in Int /\ g[Pick(s)] \in Int /\ h[Pick(s)] = a * f[Pick(s)] + b * g[Pick(s)]
        BY <2>1
    <2>6. H(s) = a * F(s) + b * E(s)
        <3> HIDE DEF H, F, E, t
        <3>1. \A u, v, w, x \in Int : (a * u + b * v) + (a * w + b * x) = a * (u + w) + b * (v + x)
            OBVIOUS
        <3> QED BY <2>2, <2>3, <2>4, <2>5, <3>1
    <2> QED BY <2>6
<1>3. SUBSET S \subseteq G
    <2> HIDE DEF G
    <2> QED BY <1>1, <1>2, ByPicking
<1> QED BY <1>3

\* Of larger numbers the sum is no smaller.
LEMMA SumMonotone ==
    ASSUME NEW S, IsFiniteSet(S), NEW f, NEW g,
           \A x \in S : f[x] \in Int /\ g[x] \in Int /\ f[x] <= g[x]
    PROVE  SumFunctionOnSet(f, S) <= SumFunctionOnSet(g, S)
<1> DEFINE F(s) == SumFunctionOnSet(f, s)
           E(s) == SumFunctionOnSet(g, s)
           G == {s \in SUBSET S : F(s) <= E(s)}
<1>1. {} \in G
    BY SumStep
<1>2. ASSUME NEW s \in SUBSET S, s # {}, s \ {Pick(s)} \in G PROVE s \in G
    <2> DEFINE t == s \ {Pick(s)}
    <2>1. t \in SUBSET S /\ Pick(s) \in S
        BY <1>2, Picked
    <2>2. F(t) \in Int /\ E(t) \in Int
        BY <2>1, SumTyped
    <2>3. F(s) = f[Pick(s)] + F(t) /\ E(s) = g[Pick(s)] + E(t)
        BY <1>2, SumStep
    <2>4. F(t) <= E(t)
        BY <1>2
    <2>5. f[Pick(s)] \in Int /\ g[Pick(s)] \in Int /\ f[Pick(s)] <= g[Pick(s)]
        BY <2>1
    <2>6. F(s) <= E(s)
        <3> HIDE DEF F, E, t
        <3> QED BY <2>2, <2>3, <2>4, <2>5
    <2> QED BY <2>6
<1>3. SUBSET S \subseteq G
    <2> HIDE DEF G
    <2> QED BY <1>1, <1>2, ByPicking
<1> QED BY <1>3

\* Equal numbers have equal sums.
LEMMA SumSame ==
    ASSUME NEW S, IsFiniteSet(S), NEW f, NEW g, \A x \in S : f[x] \in Int /\ g[x] = f[x]
    PROVE  SumFunctionOnSet(g, S) = SumFunctionOnSet(f, S)
<1> DEFINE F(s) == SumFunctionOnSet(f, s)
           E(s) == SumFunctionOnSet(g, s)
           G == {s \in SUBSET S : E(s) = F(s)}
<1>1. {} \in G
    BY SumStep
<1>2. ASSUME NEW s \in SUBSET S, s # {}, s \ {Pick(s)} \in G PROVE s \in G
    <2>1. Pick(s) \in S
        BY <1>2, Picked
    <2>2. /\ F(s) = f[Pick(s)] + F(s \ {Pick(s)})
          /\ E(s) = g[Pick(s)] + E(s \ {Pick(s)})
        BY <1>2, SumStep
    <2> QED BY <1>2, <2>1, <2>2
<1>3. SUBSET S \subseteq G
    <2> HIDE DEF G
    <2> QED BY <1>1, <1>2, ByPicking
<1> QED BY <1>3

\* The sum of a constant is a multiple of the number of elements.
LEMMA SumConstant ==
    ASSUME NEW S, IsFiniteSet(S), NEW f, NEW c \in Int, \A x \in S : f[x] = c
    PROVE  SumFunctionOnSet(f, S) = c * Cardinality(S)
<1> DEFINE F(s) == SumFunctionOnSet(f, s)
           G == {s \in SUBSET S : F(s) = c * Cardinality(s)}
<1>1. {} \in G
    <2>1. F({}) = 0 /\ Cardinality({}) = 0
        BY SumStep, FS_EmptySet
    <2> HIDE DEF F
    <2> QED BY <2>1
<1>2. ASSUME NEW s \in SUBSET S, s # {}, s \ {Pick(s)} \in G PROVE s \in G
    <2> DEFINE t == s \ {Pick(s)}
    <2>1. t \in SUBSET S /\ Pick(s) \in S /\ Pick(s) \in s /\ IsFiniteSet(s) /\ IsFiniteSet(t)
        BY <1>2, Picked, FS_Subset
    <2>2. F(s) = f[Pick(s)] + F(t) /\ f[Pick(s)] = c
        BY <1>2, <2>1, SumStep
    <2>3. Cardinality(s) = Cardinality(t) + 1 /\ Cardinality(t) \in Nat
        BY <2>1, FS_RemoveElement, FS_CardinalityType
    <2>4. F(t) = c * Cardinality(t)
        BY <1>2
    <2>5. F(s) = c * Cardinality(s)
        <3> HIDE DEF F, t
        <3>1. \A n \in Nat : c + c * n = c * (n + 1)
            OBVIOUS
        <3> QED BY <2>2, <2>3, <2>4, <3>1
    <2> QED BY <2>5
<1>3. SUBSET S \subseteq G
    <2> HIDE DEF G
    <2> QED BY <1>1, <1>2, ByPicking
<1> QED BY <1>3

\* A sum grows by what one of its elements grows by.
LEMMA SumOneMore ==
    ASSUME NEW S, IsFiniteSet(S), NEW f, NEW g, NEW e \in S, NEW d \in Int,
           \A x \in S : f[x] \in Int /\ g[x] = IF x = e THEN f[x] + d ELSE f[x]
    PROVE  SumFunctionOnSet(g, S) = SumFunctionOnSet(f, S) + d
<1> DEFINE F(s) == SumFunctionOnSet(f, s)
           E(s) == SumFunctionOnSet(g, s)
           G == {s \in SUBSET S : E(s) = F(s) + (IF e \in s THEN d ELSE 0)}
<1>1. {} \in G
    BY SumStep
<1>2. ASSUME NEW s \in SUBSET S, s # {}, s \ {Pick(s)} \in G PROVE s \in G
    <2> DEFINE t == s \ {Pick(s)}
    <2>1. t \in SUBSET S /\ Pick(s) \in S /\ Pick(s) \in s
        BY <1>2, Picked
    <2>2. F(t) \in Int
        BY <2>1, SumTyped
    <2>3. F(s) = f[Pick(s)] + F(t) /\ E(s) = g[Pick(s)] + E(t)
        BY <1>2, SumStep
    <2>4. E(t) = F(t) + (IF e \in t THEN d ELSE 0)
        BY <1>2
    <2>5. f[Pick(s)] \in Int /\ g[Pick(s)] = IF Pick(s) = e THEN f[Pick(s)] + d ELSE f[Pick(s)]
        BY <2>1
    <2>6. e \in s <=> e \in t \/ e = Pick(s)
        BY <2>1
    <2>7. e \in t => e # Pick(s)
        OBVIOUS
    <2>8. E(s) = F(s) + (IF e \in s THEN d ELSE 0)
        <3> HIDE DEF F, E, t
        <3> QED BY <2>2, <2>3, <2>4, <2>5, <2>6, <2>7
    <2> QED BY <2>8
<1>3. SUBSET S \subseteq G
    <2> HIDE DEF G
    <2> QED BY <1>1, <1>2, ByPicking
<1>4. SumFunctionOnSet(f, S) \in Int
    BY SumTyped
<1> QED BY <1>3, <1>4

\* The sum of what is nowhere negative and somewhere positive is positive.
LEMMA SumPositive ==
    ASSUME NEW S, IsFiniteSet(S), NEW f, \A x \in S : f[x] \in Nat
    PROVE  /\ SumFunctionOnSet(f, S) \in Nat
           /\ SumFunctionOnSet(f, S) = 0 <=> \A x \in S : f[x] = 0
<1> DEFINE zero == [x \in S |-> 0]
<1>1. SumFunctionOnSet(zero, S) = 0
    <2>1. SumFunctionOnSet(zero, S) = 0 * Cardinality(S)
        BY SumConstant
    <2> HIDE DEF zero
    <2> QED BY <2>1, FS_CardinalityType
<1>2. SumFunctionOnSet(f, S) \in Int
    BY SumTyped
<1>3. 0 <= SumFunctionOnSet(f, S)
    <2>1. SumFunctionOnSet(zero, S) <= SumFunctionOnSet(f, S)
        BY SumMonotone
    <2> QED BY <1>1, <2>1
<1>4. ASSUME NEW e \in S, f[e] # 0 PROVE SumFunctionOnSet(f, S) # 0
    <2> DEFINE one == [x \in S |-> IF x = e THEN 1 ELSE 0]
    <2>1. SumFunctionOnSet(one, S) = SumFunctionOnSet(zero, S) + 1
        BY SumOneMore
    <2>2. SumFunctionOnSet(one, S) <= SumFunctionOnSet(f, S)
        BY <1>4, SumMonotone
    <2> HIDE DEF one, zero
    <2> QED BY <1>1, <1>2, <2>1, <2>2
<1>5. ASSUME \A x \in S : f[x] = 0 PROVE SumFunctionOnSet(f, S) = 0
    <2>1. SumFunctionOnSet(f, S) = SumFunctionOnSet(zero, S)
        BY <1>5, SumSame
    <2> QED BY <1>1, <2>1
<1> QED BY <1>2, <1>3, <1>4, <1>5

\* A finite set has an element where a function is least.
LEMMA LeastAt ==
    ASSUME NEW S, IsFiniteSet(S), S # {}, NEW f, \A x \in S : f[x] \in Int
    PROVE  \E m \in S : \A x \in S : f[m] <= f[x]
<1> DEFINE G == {s \in SUBSET S : s # {} => \E m \in s : \A x \in s : f[m] <= f[x]}
<1>1. {} \in G
    OBVIOUS
<1>2. ASSUME NEW s \in SUBSET S, s # {}, s \ {Pick(s)} \in G PROVE s \in G
    <2> DEFINE e == Pick(s)
               t == s \ {e}
    <2>1. e \in s /\ f[e] \in Int
        BY <1>2, Picked
    <2> HIDE DEF e
    <2>2. CASE t = {}
        <3>1. \A x \in s : x = e
            BY <2>2
        <3> QED BY <2>1, <3>1
    <2>3. CASE t # {}
        <3>1. PICK m \in t : \A x \in t : f[m] <= f[x]
            BY <1>2, <2>3 DEF e
        <3>2. f[m] \in Int /\ m \in s /\ \A x \in s : x = e \/ x \in t
            OBVIOUS
        <3>3. CASE f[m] <= f[e]
            BY <3>1, <3>2, <3>3
        <3>4. CASE f[e] < f[m]
            <4>1. \A x \in s : f[e] <= f[x]
                <5> SUFFICES ASSUME NEW x \in s PROVE f[e] <= f[x]
                    OBVIOUS
                <5>1. f[x] \in Int /\ (x = e \/ f[m] <= f[x])
                    BY <3>1, <3>2
                <5> QED BY <2>1, <3>2, <3>4, <5>1
            <4> QED BY <2>1, <4>1
        <3> QED BY <2>1, <3>2, <3>3, <3>4
    <2> QED BY <2>2, <2>3
<1>3. SUBSET S \subseteq G
    <2> HIDE DEF G
    <2> QED BY <1>1, <1>2, ByPicking
<1> QED BY <1>3

\* A weighted sum lies between the least and the greatest value, times the
\* weights; and it is negative only if some value is.
LEMMA WeightedBetween ==
    ASSUME NEW S, IsFiniteSet(S), S # {}, NEW g, NEW w, NEW p,
           \A x \in S : g[x] \in Int /\ w[x] \in Nat /\ p[x] = g[x] * w[x]
    PROVE  \E low, high \in S :
                /\ g[low] * SumFunctionOnSet(w, S) <= SumFunctionOnSet(p, S)
                /\ SumFunctionOnSet(p, S) <= g[high] * SumFunctionOnSet(w, S)
                /\ SumFunctionOnSet(p, S) < 0 => g[low] < 0
<1> DEFINE minus == [x \in S |-> -g[x]]
<1>1. PICK low \in S : \A x \in S : g[low] <= g[x]
    BY LeastAt
<1>2. PICK high \in S : \A x \in S : g[x] <= g[high]
    <2>1. \A x \in S : minus[x] \in Int /\ minus[x] = -g[x]
        OBVIOUS
    <2> HIDE DEF minus
    <2>2. PICK m \in S : \A x \in S : minus[m] <= minus[x]
        BY <2>1, LeastAt
    <2>3. \A x \in S : g[x] <= g[m]
        BY <2>1, <2>2
    <2> QED BY <2>3
<1>3. \A x \in S : w[x] \in Int
    OBVIOUS
<1>4. SumFunctionOnSet(w, S) \in Nat /\ SumFunctionOnSet(p, S) \in Int
    <2>1. \A x \in S : p[x] \in Int
        <3> SUFFICES ASSUME NEW x \in S PROVE p[x] \in Int
            OBVIOUS
        <3>1. g[x] \in Int /\ w[x] \in Int /\ p[x] = g[x] * w[x]
            OBVIOUS
        <3> QED BY <3>1
    <2> QED BY <2>1, SumTyped, SumPositive
<1>5. ASSUME NEW e \in S
      PROVE  /\ (\A x \in S : g[e] <= g[x]) => g[e] * SumFunctionOnSet(w, S) <= SumFunctionOnSet(p, S)
             /\ (\A x \in S : g[x] <= g[e]) => SumFunctionOnSet(p, S) <= g[e] * SumFunctionOnSet(w, S)
    <2>1. PICK a \in Int : a = g[e]
        OBVIOUS
    <2> DEFINE q == [x \in S |-> a * w[x] + 0 * w[x]]
    <2>2. \A x \in S : w[x] \in Int /\ q[x] = a * w[x] + 0 * w[x]
        BY <1>3
    <2>3. \A x \in S : q[x] \in Int /\ p[x] \in Int /\ ((a <= g[x]) => q[x] <= p[x]) /\ ((g[x] <= a) => p[x] <= q[x])
        <3> SUFFICES ASSUME NEW x \in S
                     PROVE  q[x] \in Int /\ p[x] \in Int /\ ((a <= g[x]) => q[x] <= p[x]) /\ ((g[x] <= a) => p[x] <= q[x])
            OBVIOUS
        <3>1. g[x] \in Int /\ w[x] \in Nat /\ p[x] = g[x] * w[x] /\ q[x] = a * w[x] + 0 * w[x]
            BY <2>2
        <3>2. \A b, c \in Int, d \in Nat : b <= c => b * d <= c * d
            OBVIOUS
        <3>3. PICK b \in Int, d \in Nat : b = g[x] /\ d = w[x]
            BY <3>1
        <3>4. p[x] = b * d /\ q[x] = a * d
            BY <3>1, <3>3
        <3> HIDE DEF q
        <3>5. a * d \in Int /\ b * d \in Int
            OBVIOUS
        <3>6. (a <= b => a * d <= b * d) /\ (b <= a => b * d <= a * d)
            BY <3>2
        <3> QED BY <3>3, <3>4, <3>5, <3>6
    <2> HIDE DEF q
    <2>4. SumFunctionOnSet(q, S) = a * SumFunctionOnSet(w, S) + 0 * SumFunctionOnSet(w, S)
        <3>1. 0 \in Int
            OBVIOUS
        <3> QED BY <2>2, <3>1, SumLinear
    <2>5. SumFunctionOnSet(q, S) = a * SumFunctionOnSet(w, S)
        BY <1>4, <2>4
    <2>6. (\A x \in S : a <= g[x]) => SumFunctionOnSet(q, S) <= SumFunctionOnSet(p, S)
        BY <2>3, SumMonotone
    <2>7. (\A x \in S : g[x] <= a) => SumFunctionOnSet(p, S) <= SumFunctionOnSet(q, S)
        BY <2>3, SumMonotone
    <2> QED BY <2>1, <2>5, <2>6, <2>7
<1>6. SumFunctionOnSet(p, S) < 0 => g[low] < 0
    <2>1. \A a, b \in Int, c \in Nat : a * c <= b /\ b < 0 => a < 0
        OBVIOUS
    <2> QED BY <1>1, <1>4, <1>5, <2>1
<1> QED BY <1>1, <1>2, <1>5, <1>6

-----------------------------------------------------------------------------
\* Loops over sequences: a recursive function on 0 .. n that steps from a by
\* step[i], through sets T[i].  That there is one, and where it leads, is proved
\* by a least counterexample.
IsLoop(R, n, a, step) == R = [i \in 0 .. n |-> IF i = 0 THEN a ELSE step[i][R[i - 1]]]

LEMMA Indices ==
    ASSUME NEW n \in Nat
    PROVE  IsFiniteSet(0 .. n)
BY FS_Interval

\* A nonempty set of indices has a least element.
LEMMA LeastIndex ==
    ASSUME NEW n \in Nat, NEW B \in SUBSET (0 .. n), B # {}
    PROVE  \E m \in B : \A i \in B : m <= i
<1> DEFINE f == [i \in B |-> i]
<1>1. IsFiniteSet(B)
    BY Indices, FS_Subset
<1>2. \A i \in B : f[i] \in Int /\ f[i] = i
    OBVIOUS
<1> HIDE DEF f
<1>3. PICK m \in B : \A i \in B : f[m] <= f[i]
    BY <1>1, <1>2, LeastAt
<1> QED BY <1>2, <1>3

\* What holds of 0, and of i when it holds of i - 1, holds up to n.
LEMMA ByIndex ==
    ASSUME NEW n \in Nat, NEW G, 0 \in G, \A i \in 1 .. n : i - 1 \in G => i \in G
    PROVE  0 .. n \subseteq G
<1> DEFINE B == {i \in 0 .. n : i \notin G}
<1> SUFFICES ASSUME B # {} PROVE FALSE
    OBVIOUS
<1>1. PICK m \in B : \A i \in B : m <= i
    BY LeastIndex
<1>2. m \in 1 .. n /\ m - 1 \in 0 .. n
    OBVIOUS
<1>3. m - 1 \notin B
    BY <1>1, <1>2
<1> QED BY <1>2, <1>3

LEMMA LoopTyped ==
    ASSUME NEW n \in Nat, NEW T, NEW a \in T[0], NEW step,
           \A i \in 1 .. n : \A x \in T[i - 1] : step[i][x] \in T[i],
           NEW R, IsLoop(R, n, a, step)
    PROVE  \A i \in 0 .. n : R[i] \in T[i]
<1> DEFINE G == {i \in 0 .. n : R[i] \in T[i]}
<1>1. 0 \in G
    BY DEF IsLoop
<1>2. ASSUME NEW i \in 1 .. n, i - 1 \in G PROVE i \in G
    <2>1. R[i] = step[i][R[i - 1]]
        BY DEF IsLoop
    <2> QED BY <1>2, <2>1
<1>3. 0 .. n \subseteq G
    <2> HIDE DEF G
    <2> QED BY <1>1, <1>2, ByIndex
<1> QED BY <1>3

LEMMA LoopExists ==
    ASSUME NEW n \in Nat, NEW a, NEW step
    PROVE  \E R : IsLoop(R, n, a, step)
<1> DEFINE G == {k \in 0 .. n : \E R : IsLoop(R, k, a, step)}
<1>1. 0 \in G
    <2> DEFINE R == [i \in 0 .. 0 |-> a]
    <2>1. IsLoop(R, 0, a, step)
        BY DEF IsLoop
    <2> QED BY <2>1
<1>2. ASSUME NEW k \in 1 .. n, k - 1 \in G PROVE k \in G
    <2>1. PICK Q : IsLoop(Q, k - 1, a, step)
        BY <1>2
    <2> DEFINE R == [i \in 0 .. k |-> IF i = k THEN step[k][Q[k - 1]] ELSE Q[i]]
    <2>2. ASSUME NEW i \in 0 .. k
          PROVE  R[i] = IF i = 0 THEN a ELSE step[i][R[i - 1]]
        <3>1. CASE i = k
            <4>1. R[k - 1] = Q[k - 1]
                OBVIOUS
            <4> QED BY <3>1, <4>1
        <3>2. CASE i = 0
            BY <2>1, <3>2 DEF IsLoop
        <3>3. CASE i # 0 /\ i # k
            <4>1. i \in 1 .. k - 1 /\ i - 1 \in 0 .. k - 1
                BY <3>3
            <4>2. Q[i] = step[i][Q[i - 1]]
                BY <2>1, <4>1 DEF IsLoop
            <4>3. R[i] = Q[i] /\ R[i - 1] = Q[i - 1]
                BY <4>1
            <4> QED BY <3>3, <4>2, <4>3
        <3> QED BY <3>1, <3>2, <3>3
    <2>3. R = [i \in 0 .. k |-> R[i]]
        OBVIOUS
    <2>4. IsLoop(R, k, a, step)
        <3> HIDE DEF R
        <3> QED BY <2>2, <2>3 DEF IsLoop
    <2> HIDE DEF R
    <2> QED BY <2>4
<1>3. 0 .. n \subseteq G
    <2> HIDE DEF G
    <2> QED BY <1>1, <1>2, ByIndex
<1> QED BY <1>3
=============================================================================
