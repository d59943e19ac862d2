----------------------------- MODULE SumTheorems -----------------------------
(***************************************************************************)
(* Induction over finite sets and over numbers, and sums over finite sets:   *)
(* what SumFunctionOnSet of the community modules, which adds up a function  *)
(* over a set in some order, computes.                                      *)
(***************************************************************************)
EXTENDS Integers, Functions, FiniteSets, FiniteSetTheorems, WellFoundedInduction, TLAPS

\* Induction over the subsets of a finite set, with a family of sets in place of
\* a predicate.
LEMMA SubsetInduction ==
  ASSUME NEW S, IsFiniteSet(S), NEW F,
         \A T \in SUBSET S : (\A U \in SUBSET T : U # T => U \in F) => T \in F
  PROVE  SUBSET S \subseteq F
  <1> DEFINE Bad == {T \in SUBSET S : T \notin F}
  <1> SUFFICES ASSUME Bad # {} PROVE FALSE
    OBVIOUS
  <1> DEFINE R == StrictSubsetOrdering(S)
  <1>1. IsWellFoundedOn(R, SUBSET S)
    <2>1. IsWellFoundedOn(R, FiniteSubsetsOf(S))
      BY FS_StrictSubsetOrderingWellFounded
    <2>2. FiniteSubsetsOf(S) = SUBSET S
      BY FS_FiniteSubsetsOfFinite
    <2> QED BY <2>1, <2>2
  <1> HIDE DEF R
  <1>0. Bad \subseteq SUBSET S
    OBVIOUS
  <1>2. PICK T \in Bad : \A U \in Bad : <<U, T>> \notin R
    <2> HIDE DEF Bad
    <2> QED BY <1>0, <1>1, WFMin
  <1>3. ASSUME NEW U \in SUBSET T, U # T PROVE U \in F
    BY <1>2, <1>3 DEF R, StrictSubsetOrdering
  <1> QED BY <1>2, <1>3

\* The element the sum takes first, and one round of its recursion.
FirstTaken(S) == CHOOSE x \in S : TRUE
SumRound(f, S, h) == [s \in SUBSET S |-> IF s = {} THEN 0 ELSE f[FirstTaken(s)] + h[s \ {FirstTaken(s)}]]

\* SumFunctionOnSet is defined as the solution of that recursion.
LEMMA SumIsAFixedPoint ==
  ASSUME NEW f, NEW S
  PROVE  SumFunctionOnSet(f, S) = (CHOOSE h : h = SumRound(f, S, h))[S]
  BY DEF SumFunctionOnSet, FoldFunctionOnSet, MapThenFoldSet, SumRound, FirstTaken

\* The order in which elements are taken is fixed, so the recursion has one solution.
LEMMA RoundsAgree ==
  ASSUME NEW f, NEW S, IsFiniteSet(S), NEW S1 \in SUBSET S, NEW S2 \in SUBSET S,
         NEW h1, h1 = SumRound(f, S1, h1), NEW h2, h2 = SumRound(f, S2, h2)
  PROVE  \A T \in SUBSET (S1 \cap S2) : h1[T] = h2[T]
  <1> DEFINE F == {T \in SUBSET S : T \in SUBSET (S1 \cap S2) => h1[T] = h2[T]}
  <1>1. ASSUME NEW T \in SUBSET S, \A U \in SUBSET T : U # T => U \in F
        PROVE  T \in F
    <2> SUFFICES ASSUME T \in SUBSET (S1 \cap S2) PROVE h1[T] = h2[T]
      OBVIOUS
    <2>1. /\ h1[T] = IF T = {} THEN 0 ELSE f[FirstTaken(T)] + h1[T \ {FirstTaken(T)}]
          /\ h2[T] = IF T = {} THEN 0 ELSE f[FirstTaken(T)] + h2[T \ {FirstTaken(T)}]
      BY DEF SumRound
    <2>2. CASE T # {}
      <3>1. FirstTaken(T) \in T
        BY <2>2 DEF FirstTaken
      <3>2. T \ {FirstTaken(T)} \in F
        BY <1>1, <3>1
      <3>3. h1[T \ {FirstTaken(T)}] = h2[T \ {FirstTaken(T)}]
        BY <3>2
      <3> QED BY <2>1, <3>3
    <2> QED BY <2>1, <2>2
  <1>2. SUBSET S \subseteq F
    <2> HIDE DEF F
    <2> QED BY <1>1, SubsetInduction
  <1> QED BY <1>2

\* It has a solution for every finite set.
LEMMA RoundHasSolution ==
  ASSUME NEW f, NEW S, IsFiniteSet(S)
  PROVE  \A T \in SUBSET S : \E h : h = SumRound(f, T, h)
  <1> DEFINE F == {T \in SUBSET S : \E h : h = SumRound(f, T, h)}
             Solution(T) == CHOOSE h : h = SumRound(f, T, h)
             sum(T) == Solution(T)[T]
  <1>1. ASSUME NEW T \in SUBSET S, \A U \in SUBSET T : U # T => U \in F
        PROVE  T \in F
    <2>1. ASSUME NEW U \in SUBSET T, U # T
          PROVE  Solution(U) = SumRound(f, U, Solution(U))
      <3>1. \E h : h = SumRound(f, U, h)
        BY <1>1, <2>1
      <3> QED BY <3>1
    <2> DEFINE g == [U \in SUBSET T |-> IF U # T THEN sum(U)
                                        ELSE IF T = {} THEN 0 ELSE f[FirstTaken(T)] + sum(T \ {FirstTaken(T)})]
    <2>2. ASSUME NEW U \in SUBSET T
          PROVE  g[U] = IF U = {} THEN 0 ELSE f[FirstTaken(U)] + g[U \ {FirstTaken(U)}]
      <3>1. CASE U = {} /\ U # T
        <4>1. Solution(U) = SumRound(f, U, Solution(U))
          BY <2>1, <3>1
        <4>2. Solution(U)[U] = 0
          <5> HIDE DEF Solution
          <5> QED BY <4>1, <3>1 DEF SumRound
        <4> QED BY <4>2, <3>1
      <3>2. CASE U # {} /\ U = T
        <4>1. FirstTaken(T) \in T /\ T \ {FirstTaken(T)} \in SUBSET T /\ T \ {FirstTaken(T)} # T
          BY <3>2 DEF FirstTaken
        <4>2. g[T \ {FirstTaken(T)}] = sum(T \ {FirstTaken(T)})
          BY <4>1
        <4>3. g[T] = f[FirstTaken(T)] + sum(T \ {FirstTaken(T)})
          BY <3>2
        <4> QED BY <3>2, <4>2, <4>3
      <3>3. CASE U # {} /\ U # T
        <4> DEFINE V == U \ {FirstTaken(U)}
        <4>1. FirstTaken(U) \in U
          BY <3>3 DEF FirstTaken
        <4>2. V \in SUBSET T /\ V # T /\ V \in SUBSET S /\ U \in SUBSET S
          BY <4>1
        <4>3. Solution(U) = SumRound(f, U, Solution(U)) /\ Solution(V) = SumRound(f, V, Solution(V))
          BY <2>1, <3>3, <4>2
        <4>4. Solution(U)[V] = Solution(V)[V]
          <5> HIDE DEF Solution
          <5>1. V \in SUBSET (U \cap V)
            OBVIOUS
          <5> HIDE DEF V
          <5> QED BY <4>2, <4>3, <5>1, RoundsAgree
        <4>5. Solution(U)[U] = f[FirstTaken(U)] + Solution(U)[V]
          <5> HIDE DEF Solution
          <5> QED BY <4>3, <3>3 DEF SumRound
        <4>6. g[U] = Solution(U)[U] /\ g[V] = Solution(V)[V]
          BY <4>2, <3>3
        <4> QED BY <4>4, <4>5, <4>6, <3>3
      <3>4. CASE U = {} /\ U = T
        BY <3>4
      <3> QED BY <3>1, <3>2, <3>3, <3>4
    <2>3. g = SumRound(f, T, g)
      <3>1. g = [U \in SUBSET T |-> g[U]]
        OBVIOUS
      <3> HIDE DEF g
      <3> QED BY <2>2, <3>1 DEF SumRound
    <2> HIDE DEF g
    <2> QED BY <2>3
  <1>2. SUBSET S \subseteq F
    <2> HIDE DEF F
    <2> QED BY <1>1, SubsetInduction
  <1> QED BY <1>2

\* What SumFunctionOnSet computes.
LEMMA SumUnfolds ==
  ASSUME NEW f, NEW S, IsFiniteSet(S)
  PROVE  SumFunctionOnSet(f, S) =
           IF S = {} THEN 0 ELSE f[FirstTaken(S)] + SumFunctionOnSet(f, S \ {FirstTaken(S)})
  <1> DEFINE Solution(T) == CHOOSE h : h = SumRound(f, T, h)
             V == S \ {FirstTaken(S)}
  <1>1. \A T \in SUBSET S : Solution(T) = SumRound(f, T, Solution(T))
    <2>1. \A T \in SUBSET S : \E h : h = SumRound(f, T, h)
      BY RoundHasSolution
    <2> QED BY <2>1
  <1>2. \A T : SumFunctionOnSet(f, T) = Solution(T)[T]
    BY SumIsAFixedPoint
  <1> HIDE DEF Solution
  <1>3. Solution(S)[S] = IF S = {} THEN 0 ELSE f[FirstTaken(S)] + Solution(S)[V]
    BY <1>1 DEF SumRound
  <1>4. CASE S # {}
    <2>1. V \in SUBSET S /\ S \in SUBSET S /\ V \in SUBSET (S \cap V)
      OBVIOUS
    <2> HIDE DEF V
    <2>2. Solution(S)[V] = Solution(V)[V]
      BY <1>1, <2>1, RoundsAgree
    <2> QED BY <1>2, <1>3, <1>4, <2>2 DEF V
  <1> QED BY <1>2, <1>3, <1>4

-----------------------------------------------------------------------------
\* An empty sum is zero.
LEMMA SumOfNothing == \A f : SumFunctionOnSet(f, {}) = 0
  BY FS_EmptySet, SumUnfolds

\* Sums of integers are integers.
LEMMA SumIsInteger ==
  ASSUME NEW S, IsFiniteSet(S), NEW f, \A x \in S : f[x] \in Int
  PROVE  \A T \in SUBSET S : SumFunctionOnSet(f, T) \in Int
  <1> DEFINE F == {T \in SUBSET S : SumFunctionOnSet(f, T) \in Int}
  <1>1. ASSUME NEW T \in SUBSET S, \A U \in SUBSET T : U # T => U \in F
        PROVE  T \in F
    <2>1. CASE T = {}
      BY <2>1, SumOfNothing
    <2>2. CASE T # {}
      <3>1. FirstTaken(T) \in T
        BY <2>2 DEF FirstTaken
      <3>2. IsFiniteSet(T)
        BY FS_Subset
      <3>3. SumFunctionOnSet(f, T) = f[FirstTaken(T)] + SumFunctionOnSet(f, T \ {FirstTaken(T)})
        BY <2>2, <3>2, SumUnfolds
      <3>4. T \ {FirstTaken(T)} \in F
        BY <1>1, <3>1
      <3> QED BY <3>1, <3>3, <3>4
    <2> QED BY <2>1, <2>2
  <1>2. SUBSET S \subseteq F
    <2> HIDE DEF F
    <2> QED BY <1>1, SubsetInduction
  <1> QED BY <1>2

\* Any element may be taken out first.
LEMMA SumTakesOut ==
  ASSUME NEW S, IsFiniteSet(S), NEW f, \A x \in S : f[x] \in Int
  PROVE  \A T \in SUBSET S : \A x \in T :
           SumFunctionOnSet(f, T) = f[x] + SumFunctionOnSet(f, T \ {x})
  <1> DEFINE sum(T) == SumFunctionOnSet(f, T)
             F == {T \in SUBSET S : \A x \in T : sum(T) = f[x] + sum(T \ {x})}
  <1>0. \A T \in SUBSET S : sum(T) \in Int
    BY SumIsInteger
  <1>1. ASSUME NEW T \in SUBSET S, \A U \in SUBSET T : U # T => U \in F
        PROVE  T \in F
    <2> SUFFICES ASSUME NEW x \in T PROVE sum(T) = f[x] + sum(T \ {x})
      OBVIOUS
    <2> DEFINE c == FirstTaken(T)
    <2>1. c \in T
      BY DEF FirstTaken
    <2>2. IsFiniteSet(T)
      BY FS_Subset
    <2>3. sum(T) = f[c] + sum(T \ {c})
      BY <2>2, SumUnfolds
    <2> HIDE DEF c
    <2>4. CASE x # c
      <3>1. sum(T \ {c}) = f[x] + sum((T \ {c}) \ {x})
        <4>1. T \ {c} \in F
          BY <1>1, <2>1
        <4> QED BY <4>1, <2>4
      <3>2. sum(T \ {x}) = f[c] + sum((T \ {x}) \ {c})
        <4>1. T \ {x} \in F
          BY <1>1
        <4> QED BY <4>1, <2>1, <2>4
      <3>3. (T \ {x}) \ {c} = (T \ {c}) \ {x}
        OBVIOUS
      <3>4. f[x] \in Int /\ f[c] \in Int /\ sum((T \ {c}) \ {x}) \in Int
        BY <1>0, <2>1
      <3>5. PICK rest \in Int : rest = sum((T \ {c}) \ {x})
        BY <3>4
      <3>6. sum(T \ {c}) = f[x] + rest /\ sum(T \ {x}) = f[c] + rest
        BY <3>1, <3>2, <3>3, <3>5
      <3>7. sum(T) = f[c] + (f[x] + rest)
        BY <2>3, <3>6
      <3> QED BY <3>4, <3>6, <3>7
    <2> QED BY <2>3, <2>4
  <1>2. SUBSET S \subseteq F
    <2> HIDE DEF F
    <2> QED BY <1>1, SubsetInduction
  <1> QED BY <1>2

\* A new element adds its value.
LEMMA SumAddsElement ==
  ASSUME NEW S, IsFiniteSet(S), NEW f, NEW x, x \notin S, \A y \in S \cup {x} : f[y] \in Int
  PROVE  SumFunctionOnSet(f, S \cup {x}) = f[x] + SumFunctionOnSet(f, S)
  <1>1. IsFiniteSet(S \cup {x})
    BY FS_AddElement
  <1>2. SumFunctionOnSet(f, S \cup {x}) = f[x] + SumFunctionOnSet(f, (S \cup {x}) \ {x})
    BY <1>1, SumTakesOut
  <1>3. (S \cup {x}) \ {x} = S
    OBVIOUS
  <1> QED BY <1>2, <1>3

\* Only what the function is on the set matters.
LEMMA SumOfSame ==
  ASSUME NEW S, IsFiniteSet(S), NEW f, NEW g, \A x \in S : f[x] = g[x]
  PROVE  SumFunctionOnSet(f, S) = SumFunctionOnSet(g, S)
  <1> DEFINE F == {T \in SUBSET S : SumFunctionOnSet(f, T) = SumFunctionOnSet(g, T)}
  <1>1. ASSUME NEW T \in SUBSET S, \A U \in SUBSET T : U # T => U \in F
        PROVE  T \in F
    <2>1. CASE T = {}
      BY <2>1, SumOfNothing
    <2>2. CASE T # {}
      <3>1. FirstTaken(T) \in T
        BY <2>2 DEF FirstTaken
      <3>2. IsFiniteSet(T)
        BY FS_Subset
      <3>3. /\ SumFunctionOnSet(f, T) = f[FirstTaken(T)] + SumFunctionOnSet(f, T \ {FirstTaken(T)})
            /\ SumFunctionOnSet(g, T) = g[FirstTaken(T)] + SumFunctionOnSet(g, T \ {FirstTaken(T)})
        BY <2>2, <3>2, SumUnfolds
      <3>4. T \ {FirstTaken(T)} \in F
        BY <1>1, <3>1
      <3> QED BY <3>1, <3>3, <3>4
    <2> QED BY <2>1, <2>2
  <1>2. SUBSET S \subseteq F
    <2> HIDE DEF F
    <2> QED BY <1>1, SubsetInduction
  <1> QED BY <1>2

\* A sum follows the change of one summand.
LEMMA SumFollowsChange ==
  ASSUME NEW S, IsFiniteSet(S), NEW f, NEW g, \A y \in S : f[y] \in Int /\ g[y] \in Int,
         NEW x \in S, \A y \in S \ {x} : f[y] = g[y]
  PROVE  SumFunctionOnSet(g, S) = SumFunctionOnSet(f, S) + g[x] - f[x]
  <1>1. /\ SumFunctionOnSet(f, S) = f[x] + SumFunctionOnSet(f, S \ {x})
        /\ SumFunctionOnSet(g, S) = g[x] + SumFunctionOnSet(g, S \ {x})
    BY SumTakesOut
  <1>2. IsFiniteSet(S \ {x})
    BY FS_RemoveElement
  <1>3. SumFunctionOnSet(f, S \ {x}) = SumFunctionOnSet(g, S \ {x})
    BY <1>2, SumOfSame
  <1>4. SumFunctionOnSet(f, S \ {x}) \in Int
    BY SumIsInteger
  <1> QED BY <1>1, <1>3, <1>4

\* The sum over one element is its value.
LEMMA SumOfOne ==
  ASSUME NEW x, NEW f, f[x] \in Int
  PROVE  SumFunctionOnSet(f, {x}) = f[x]
  <1>1. IsFiniteSet({x}) /\ {x} \ {x} = {}
    BY FS_Singleton
  <1>2. SumFunctionOnSet(f, {x}) = f[x] + SumFunctionOnSet(f, {x} \ {x})
    BY <1>1, SumTakesOut
  <1> QED BY <1>1, <1>2, SumOfNothing

\* Elements that are worth nothing may be left out.
LEMMA SumOverSubset ==
  ASSUME NEW S, IsFiniteSet(S), NEW f, NEW g, NEW T \in SUBSET S, \A x \in S : f[x] \in Int,
         \A x \in T : f[x] = g[x], \A x \in S \ T : f[x] = 0
  PROVE  SumFunctionOnSet(f, S) = SumFunctionOnSet(g, T)
  <1> DEFINE F == {U \in SUBSET S : SumFunctionOnSet(f, U) = SumFunctionOnSet(f, U \cap T)}
  <1>1. ASSUME NEW U \in SUBSET S, \A V \in SUBSET U : V # U => V \in F
        PROVE  U \in F
    <2>1. CASE U \subseteq T
      <3>1. U \cap T = U
        BY <2>1
      <3> QED BY <3>1
    <2>2. CASE ~(U \subseteq T)
      <3>1. PICK x \in U : x \notin T
        BY <2>2
      <3>2. SumFunctionOnSet(f, U \ {x}) = SumFunctionOnSet(f, U \cap T)
        <4>1. U \ {x} \in F
          BY <1>1
        <4>2. (U \ {x}) \cap T = U \cap T
          BY <3>1
        <4> QED BY <4>1, <4>2
      <3>3. SumFunctionOnSet(f, U) = f[x] + SumFunctionOnSet(f, U \ {x})
        BY SumTakesOut
      <3>4. f[x] = 0 /\ SumFunctionOnSet(f, U \ {x}) \in Int
        BY <3>1, SumIsInteger
      <3> QED BY <3>2, <3>3, <3>4
    <2> QED BY <2>1, <2>2
  <1>2. S \in F
    <2> HIDE DEF F
    <2>1. SUBSET S \subseteq F
      BY <1>1, SubsetInduction
    <2> QED BY <2>1
  <1>3. S \cap T = T /\ IsFiniteSet(T)
    BY FS_Subset
  <1>4. SumFunctionOnSet(f, T) = SumFunctionOnSet(g, T)
    BY <1>3, SumOfSame
  <1>5. SumFunctionOnSet(f, S) = SumFunctionOnSet(f, T)
    BY <1>2, <1>3
  <1> QED BY <1>4, <1>5

\* A sum of what is not negative is at least each of its terms.
LEMMA SumIsNat ==
  ASSUME NEW S, IsFiniteSet(S), NEW f, \A x \in S : f[x] \in Int /\ f[x] >= 0
  PROVE  \A T \in SUBSET S : SumFunctionOnSet(f, T) >= 0
  <1> DEFINE F == {T \in SUBSET S : SumFunctionOnSet(f, T) >= 0}
  <1>1. ASSUME NEW T \in SUBSET S, \A U \in SUBSET T : U # T => U \in F
        PROVE  T \in F
    <2>1. CASE T = {}
      BY <2>1, SumOfNothing
    <2>2. CASE T # {}
      <3>1. PICK x \in T : TRUE
        BY <2>2
      <3>2. SumFunctionOnSet(f, T) = f[x] + SumFunctionOnSet(f, T \ {x})
        BY SumTakesOut
      <3>3. SumFunctionOnSet(f, T \ {x}) >= 0
        BY <1>1
      <3>4. SumFunctionOnSet(f, T \ {x}) \in Int
        BY SumIsInteger
      <3> QED BY <3>2, <3>3, <3>4
    <2> QED BY <2>1, <2>2
  <1> HIDE DEF F
  <1>2. SUBSET S \subseteq F
    BY <1>1, SubsetInduction
  <1> QED BY <1>2 DEF F

LEMMA SumCovers ==
  ASSUME NEW S, IsFiniteSet(S), NEW f, \A x \in S : f[x] \in Int /\ f[x] >= 0, NEW x \in S
  PROVE  SumFunctionOnSet(f, S) >= f[x]
  <1>1. SumFunctionOnSet(f, S) = f[x] + SumFunctionOnSet(f, S \ {x})
    BY SumTakesOut
  <1>2. SumFunctionOnSet(f, S \ {x}) >= 0
    BY SumIsNat
  <1>3. SumFunctionOnSet(f, S \ {x}) \in Int
    BY SumIsInteger
  <1> QED BY <1>1, <1>2, <1>3

-----------------------------------------------------------------------------
(* Numbers. *)

\* Induction up to a number, with a set in place of a predicate.
LEMMA UpTo ==
  ASSUME NEW N \in Nat, NEW F, 0 \in F, \A n \in 0 .. (N - 1) : n \in F => n + 1 \in F
  PROVE  0 .. N \subseteq F
  <1> DEFINE S == 0 .. N
             G == {T \in SUBSET S : \A n \in 0 .. N : T = 0 .. n => n \in F}
  <1>1. ASSUME NEW T \in SUBSET S, \A U \in SUBSET T : U # T => U \in G
        PROVE  T \in G
    <2> SUFFICES ASSUME NEW n \in 0 .. N, T = 0 .. n PROVE n \in F
      OBVIOUS
    <2>1. CASE n # 0
      <3>1. PICK m \in 0 .. (N - 1) : n = m + 1
        <4>1. n - 1 \in 0 .. (N - 1) /\ n = (n - 1) + 1
          BY <2>1
        <4> QED BY <4>1
      <3>2. 0 .. m \in SUBSET T /\ n \in T /\ n \notin 0 .. m
        BY <3>1
      <3>3. 0 .. m \in G
        BY <1>1, <3>2
      <3>4. m \in F
        BY <3>1, <3>3
      <3>5. m + 1 \in F
        BY <3>1, <3>4
      <3> QED BY <3>1, <3>5
    <2> QED BY <2>1
  <1>2. IsFiniteSet(S)
    BY FS_Interval
  <1>3. SUBSET S \subseteq G
    <2> HIDE DEF G, S
    <2> QED BY <1>1, <1>2, SubsetInduction
  <1>4. ASSUME NEW n \in 0 .. N PROVE n \in F
    <2>1. 0 .. n \in SUBSET S
      OBVIOUS
    <2> QED BY <1>3, <2>1
  <1> QED BY <1>4

\* A finite set of numbers has a greatest one and a least one.
LEMMA Extremes ==
  ASSUME NEW S, IsFiniteSet(S), S \subseteq Nat, S # {}
  PROVE  (\E x \in S : \A y \in S : x >= y) /\ (\E x \in S : \A y \in S : x =< y)
  <1> DEFINE F == {T \in SUBSET S : T # {} => /\ \E x \in T : \A y \in T : x >= y
                                              /\ \E x \in T : \A y \in T : x =< y}
  <1>1. ASSUME NEW T \in SUBSET S, \A U \in SUBSET T : U # T => U \in F
        PROVE  T \in F
    <2> SUFFICES ASSUME T # {}
                 PROVE  (\E x \in T : \A y \in T : x >= y) /\ (\E x \in T : \A y \in T : x =< y)
      OBVIOUS
    <2>1. PICK z \in T : TRUE
      OBVIOUS
    <2>2. T \ {z} \in F
      BY <1>1, <2>1
    <2>3. CASE T \ {z} = {}
      BY <2>1, <2>3
    <2>4. CASE T \ {z} # {}
      <3>1. PICK a \in T \ {z} : \A y \in T \ {z} : a >= y
        BY <2>2, <2>4
      <3>2. PICK b \in T \ {z} : \A y \in T \ {z} : b =< y
        BY <2>2, <2>4
      <3>3. a \in Nat /\ b \in Nat /\ z \in Nat /\ \A y \in T : y \in Nat
        BY <2>1
      <3>4. \E x \in T : \A y \in T : x >= y
        BY <2>1, <3>1, <3>3
      <3>5. \E x \in T : \A y \in T : x =< y
        BY <2>1, <3>2, <3>3
      <3> QED BY <3>4, <3>5
    <2> QED BY <2>3, <2>4
  <1>2. SUBSET S \subseteq F
    <2> HIDE DEF F
    <2> QED BY <1>1, SubsetInduction
  <1> QED BY <1>2

LEMMA ImageIsFinite ==
  ASSUME NEW S, IsFiniteSet(S), NEW f
  PROVE  /\ IsFiniteSet({f[x] : x \in S})
         /\ Cardinality({f[x] : x \in S}) <= Cardinality(S)
  <1> DEFINE T == {f[x] : x \in S}
             g == [x \in S |-> f[x]]
  <1>1. g \in Surjection(S, T)
    BY DEF Surjection
  <1> HIDE DEF g, T
  <1>2. IsFiniteSet(T) /\ Cardinality(T) <= Cardinality(S)
    BY <1>1, FS_Surjection
  <1> QED BY <1>2 DEF T
=============================================================================
