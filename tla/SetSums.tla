------------------------------ MODULE SetSums ------------------------------
(***************************************************************************)
(* Facts about MapThenSumSet of FiniteSetsExt: it is defined by recursion, *)
(* taking out elements in an order nobody knows.  For a function of        *)
(* naturals over a finite set the order does not matter, so that elements  *)
(* may be added and removed one at a time.                                 *)
(*                                                                         *)
(* Induction is over the finite subsets of a set, well-founded under       *)
(* strict inclusion: a set of subsets that contains each subset all of     *)
(* whose proper subsets it contains has all of them.                       *)
(***************************************************************************)
EXTENDS Integers, FiniteSets, FiniteSetsExt, FiniteSetTheorems, TLAPS

\* The sum of f over S.
SumOver(f, S) == MapThenSumSet(LAMBDA x : f[x], S)

\* The element taken out of s, and the recursion over the subsets of S.
Chosen(s) == CHOOSE x \in s : TRUE
Without(s) == s \ {Chosen(s)}
Recursion(f, S, g) ==
    g = [s \in SUBSET S |-> IF s = {} THEN 0 ELSE f[Chosen(s)] + g[Without(s)]]

\* Induction over the subsets of a finite set.
LEMMA SubsetInduction ==
    ASSUME NEW S, IsFiniteSet(S), NEW P \in SUBSET SUBSET S,
           \A T \in SUBSET S : (\A U \in SUBSET T : U # T => U \in P) => T \in P
    PROVE  S \in P
<1>1. IsWellFoundedOn(StrictSubsetOrdering(S), SUBSET S)
  BY FS_StrictSubsetOrderingWellFounded, FS_FiniteSubsetsOfFinite
<1> SUFFICES ASSUME S \notin P PROVE FALSE
  OBVIOUS
<1> DEFINE Q == (SUBSET S) \ P
<1>2. Q # {} /\ Q \subseteq SUBSET S
  OBVIOUS
<1>3. PICK T \in Q : \A U \in Q : <<U, T>> \notin StrictSubsetOrdering(S)
  <2> HIDE DEF Q
  <2> QED
    BY <1>1, <1>2, WFMin
<1>4. \A U \in SUBSET T : U # T => U \in P
  BY <1>3 DEF StrictSubsetOrdering
<1> QED
  BY <1>3, <1>4

LEMMA ChosenFacts ==
    ASSUME NEW s, s # {}
    PROVE  /\ Chosen(s) \in s
           /\ Without(s) \in SUBSET s /\ Without(s) # s
           /\ s = Without(s) \cup {Chosen(s)} /\ Chosen(s) \notin Without(s)
BY DEF Chosen, Without

LEMMA RecursionAt ==
    ASSUME NEW f, NEW S, NEW g, Recursion(f, S, g), NEW s \in SUBSET S
    PROVE  /\ s = {} => g[s] = 0
           /\ s # {} => g[s] = f[Chosen(s)] + g[Without(s)]
BY DEF Recursion

\* The recursion has at most one solution.
LEMMA RecursionUnique ==
    ASSUME NEW f, NEW S, IsFiniteSet(S), NEW g, NEW h, Recursion(f, S, g), Recursion(f, S, h)
    PROVE  g = h
<1>1. \A T \in SUBSET S : g[T] = h[T]
  <2> SUFFICES ASSUME NEW T \in SUBSET S PROVE g[T] = h[T]
    OBVIOUS
  <2> DEFINE P == {U \in SUBSET T : g[U] = h[U]}
  <2>1. ASSUME NEW U \in SUBSET T, \A V \in SUBSET U : V # U => V \in P
        PROVE  U \in P
    <3>1. CASE U = {}
      BY <3>1, RecursionAt
    <3>2. CASE U # {}
      <4>1. g[Without(U)] = h[Without(U)]
        BY <2>1, <3>2, ChosenFacts
      <4> QED
        BY <3>2, <4>1, RecursionAt
    <3> QED
      BY <3>1, <3>2
  <2>2. IsFiniteSet(T) /\ P \in SUBSET SUBSET T
    BY FS_Subset
  <2>3. T \in P
    <3> HIDE DEF P
    <3> QED
      BY <2>1, <2>2, SubsetInduction
  <2> QED
    BY <2>3
<1> QED
  BY <1>1 DEF Recursion

\* A solution for S gives one for every subset.
LEMMA RecursionRestricted ==
    ASSUME NEW f, NEW S, NEW g, Recursion(f, S, g), NEW T \in SUBSET S
    PROVE  Recursion(f, T, [s \in SUBSET T |-> g[s]])
<1> DEFINE h == [s \in SUBSET T |-> g[s]]
<1>1. \A s \in SUBSET T : h[s] = IF s = {} THEN 0 ELSE f[Chosen(s)] + h[Without(s)]
  <2> SUFFICES ASSUME NEW s \in SUBSET T
               PROVE  h[s] = IF s = {} THEN 0 ELSE f[Chosen(s)] + h[Without(s)]
    OBVIOUS
  <2>1. CASE s = {}
    BY <2>1, RecursionAt
  <2>2. CASE s # {}
    <3>1. Without(s) \in SUBSET T
      BY <2>2, ChosenFacts
    <3> QED
      BY <2>2, <3>1, RecursionAt
  <2> QED
    BY <2>1, <2>2
<1>2. h = [s \in SUBSET T |-> IF s = {} THEN 0 ELSE f[Chosen(s)] + h[Without(s)]]
  BY <1>1
<1> QED
  BY <1>2 DEF Recursion

Solution(f, S) == CHOOSE g : Recursion(f, S, g)

\* It has a solution for every finite set.
LEMMA RecursionSolved ==
    ASSUME NEW f, NEW S, IsFiniteSet(S)
    PROVE  Recursion(f, S, Solution(f, S))
<1> DEFINE P == {T \in SUBSET S : Recursion(f, T, Solution(f, T))}
<1>1. ASSUME NEW T \in SUBSET S, \A U \in SUBSET T : U # T => U \in P
      PROVE  T \in P
  <2> DEFINE At(s) == Solution(f, s)[s]
  <2> HIDE DEF At
  <2>h. PICK h : h = [s \in SUBSET T |-> IF s = {} THEN 0 ELSE f[Chosen(s)] + At(Without(s))]
    OBVIOUS
  <2>0. \A s \in SUBSET T : h[s] = IF s = {} THEN 0 ELSE f[Chosen(s)] + At(Without(s))
    BY <2>h
  <2>1. \A s \in SUBSET T : s # T => h[s] = At(s)
    <3> SUFFICES ASSUME NEW s \in SUBSET T, s # T PROVE h[s] = At(s)
      OBVIOUS
    <3>1. Recursion(f, s, Solution(f, s))
      BY <1>1
    <3>2. CASE s = {}
      BY <2>0, <3>1, <3>2, RecursionAt DEF At
    <3>3. CASE s # {}
      <4>1. Without(s) \in SUBSET s /\ Without(s) # s
        BY <3>3, ChosenFacts
      <4>2. Solution(f, s)[s] = f[Chosen(s)] + Solution(f, s)[Without(s)]
        BY <3>1, <3>3, RecursionAt
      <4>3. Recursion(f, Without(s), [r \in SUBSET Without(s) |-> Solution(f, s)[r]])
        BY <3>1, <4>1, RecursionRestricted
      <4>4. Recursion(f, Without(s), Solution(f, Without(s))) /\ IsFiniteSet(Without(s))
        BY <1>1, <4>1, FS_Subset
      <4>5. Solution(f, Without(s)) = [r \in SUBSET Without(s) |-> Solution(f, s)[r]]
        BY <4>3, <4>4, RecursionUnique
      <4>6. Solution(f, Without(s))[Without(s)] = Solution(f, s)[Without(s)]
        BY <4>5
      <4> QED
        BY <2>0, <3>3, <4>2, <4>6 DEF At
    <3> QED
      BY <3>2, <3>3
  <2>2. \A s \in SUBSET T : s # {} => At(Without(s)) = h[Without(s)]
    <3> SUFFICES ASSUME NEW s \in SUBSET T, s # {} PROVE At(Without(s)) = h[Without(s)]
      OBVIOUS
    <3>1. Without(s) \in SUBSET s /\ Without(s) # s
      BY ChosenFacts
    <3>2. Without(s) \in SUBSET T /\ Without(s) # T
      BY <3>1
    <3> QED
      BY <2>1, <3>2
  <2>3. h = [s \in SUBSET T |-> IF s = {} THEN 0 ELSE f[Chosen(s)] + h[Without(s)]]
    BY <2>h, <2>2
  <2>4. Recursion(f, T, h)
    BY <2>3 DEF Recursion
  <2>5. Recursion(f, T, Solution(f, T))
    BY <2>4 DEF Solution
  <2> QED
    BY <2>5
<1>2. P \in SUBSET SUBSET S
  OBVIOUS
<1>3. S \in P
  <2> HIDE DEF P
  <2> QED
    BY <1>1, <1>2, SubsetInduction
<1> QED
  BY <1>3

-----------------------------------------------------------------------------
(* Sums.                                                                    *)

LEMMA SumIsSolution ==
    ASSUME NEW f, NEW S
    PROVE  SumOver(f, S) = Solution(f, S)[S]
BY DEF SumOver, MapThenSumSet, MapThenFoldSet, Solution, Recursion, Chosen, Without

LEMMA SumUnfolds ==
    ASSUME NEW f, NEW S, IsFiniteSet(S)
    PROVE  /\ SumOver(f, {}) = 0
           /\ S # {} => SumOver(f, S) = f[Chosen(S)] + SumOver(f, Without(S))
<1>1. Recursion(f, {}, Solution(f, {})) /\ Recursion(f, S, Solution(f, S))
  BY RecursionSolved, FS_EmptySet
<1>2. SumOver(f, {}) = 0
  <2>1. Solution(f, {})[{}] = 0
    BY <1>1, RecursionAt
  <2> QED
    BY <2>1, SumIsSolution
<1>3. ASSUME S # {}
      PROVE  SumOver(f, S) = f[Chosen(S)] + SumOver(f, Without(S))
  <2>1. Without(S) \in SUBSET S /\ IsFiniteSet(Without(S))
    BY <1>3, ChosenFacts, FS_Subset
  <2>2. Recursion(f, Without(S), [s \in SUBSET Without(S) |-> Solution(f, S)[s]])
    BY <1>1, <2>1, RecursionRestricted
  <2>3. Recursion(f, Without(S), Solution(f, Without(S)))
    BY <2>1, RecursionSolved
  <2>4. Solution(f, Without(S)) = [s \in SUBSET Without(S) |-> Solution(f, S)[s]]
    BY <2>1, <2>2, <2>3, RecursionUnique
  <2>5. Solution(f, Without(S))[Without(S)] = Solution(f, S)[Without(S)]
    BY <2>4
  <2>6. Solution(f, S)[S] = f[Chosen(S)] + Solution(f, S)[Without(S)]
    BY <1>1, <1>3, RecursionAt
  <2> QED
    BY <2>5, <2>6, SumIsSolution
<1> QED
  BY <1>2, <1>3

\* A sum of naturals is a natural.
LEMMA SumType ==
    ASSUME NEW f, NEW S, IsFiniteSet(S), \A x \in S : f[x] \in Nat
    PROVE  SumOver(f, S) \in Nat
<1> DEFINE P == {T \in SUBSET S : SumOver(f, T) \in Nat}
<1>1. ASSUME NEW T \in SUBSET S, \A U \in SUBSET T : U # T => U \in P
      PROVE  T \in P
  <2>1. CASE T = {}
    <3>1. SumOver(f, {}) = 0
      BY SumUnfolds
    <3> QED
      BY <2>1, <3>1
  <2>2. CASE T # {}
    <3>1. Without(T) \in P /\ Chosen(T) \in S
      BY <1>1, <2>2, ChosenFacts
    <3>2. SumOver(f, T) = f[Chosen(T)] + SumOver(f, Without(T))
      BY <2>2, SumUnfolds, FS_Subset
    <3>3. SumOver(f, T) \in Nat
      BY <3>1, <3>2
    <3> QED
      BY <3>3
  <2> QED
    BY <2>1, <2>2
<1>2. S \in P
  <2>1. P \in SUBSET SUBSET S
    OBVIOUS
  <2> HIDE DEF P
  <2> QED
    BY <1>1, <2>1, SubsetInduction
<1> QED
  BY <1>2

LEMMA SumEmpty ==
    ASSUME NEW f
    PROVE  SumOver(f, {}) = 0
BY SumUnfolds, FS_EmptySet

\* Any element may be taken out first.
LEMMA SumRemove ==
    ASSUME NEW f, NEW S, IsFiniteSet(S), \A x \in S : f[x] \in Nat, NEW y \in S
    PROVE  SumOver(f, S) = f[y] + SumOver(f, S \ {y})
<1> DEFINE P == {T \in SUBSET S : \A z \in T : SumOver(f, T) = f[z] + SumOver(f, T \ {z})}
<1>1. ASSUME NEW T \in SUBSET S, \A U \in SUBSET T : U # T => U \in P
      PROVE  T \in P
  <2> SUFFICES ASSUME NEW z \in T PROVE SumOver(f, T) = f[z] + SumOver(f, T \ {z})
    OBVIOUS
  <2> DEFINE c == Chosen(T)
  <2>1. c \in T /\ Without(T) = T \ {c} /\ IsFiniteSet(T)
    BY ChosenFacts, FS_Subset DEF Without
  <2>2. SumOver(f, T) = f[c] + SumOver(f, T \ {c})
    BY <2>1, SumUnfolds
  <2>3. CASE z = c
    BY <2>2, <2>3
  <2>4. CASE z # c
    <3>1. T \ {c} \in P /\ T \ {z} \in P
      BY <1>1, <2>1
    <3>2. SumOver(f, T \ {c}) = f[z] + SumOver(f, (T \ {c}) \ {z})
      BY <2>4, <3>1
    <3>3. SumOver(f, T \ {z}) = f[c] + SumOver(f, (T \ {z}) \ {c})
      BY <2>1, <2>4, <3>1
    <3>4. (T \ {c}) \ {z} = (T \ {z}) \ {c}
      OBVIOUS
    <3>5. SumOver(f, (T \ {z}) \ {c}) \in Nat /\ f[c] \in Nat /\ f[z] \in Nat
      <4>1. IsFiniteSet((T \ {z}) \ {c})
        BY <2>1, FS_RemoveElement
      <4> QED
        BY <2>1, <4>1, SumType
    <3> HIDE DEF c
    <3> QED
      BY <2>2, <3>2, <3>3, <3>4, <3>5
  <2> QED
    BY <2>3, <2>4
<1>2. S \in P
  <2>1. P \in SUBSET SUBSET S
    OBVIOUS
  <2> HIDE DEF P
  <2> QED
    BY <1>1, <2>1, SubsetInduction
<1> QED
  BY <1>2

\* An element added to the set adds its value.
LEMMA SumAdd ==
    ASSUME NEW f, NEW S, IsFiniteSet(S), NEW y, y \notin S,
           \A x \in S \cup {y} : f[x] \in Nat
    PROVE  SumOver(f, S \cup {y}) = f[y] + SumOver(f, S)
<1>1. IsFiniteSet(S \cup {y})
  BY FS_AddElement
<1>2. (S \cup {y}) \ {y} = S
  OBVIOUS
<1> QED
  BY <1>1, <1>2, SumRemove

\* The sum depends on the values of f on the set only.
LEMMA SumSame ==
    ASSUME NEW f, NEW g, NEW S, IsFiniteSet(S), \A x \in S : f[x] = g[x]
    PROVE  SumOver(f, S) = SumOver(g, S)
<1> DEFINE P == {T \in SUBSET S : SumOver(f, T) = SumOver(g, T)}
<1>1. ASSUME NEW T \in SUBSET S, \A U \in SUBSET T : U # T => U \in P
      PROVE  T \in P
  <2>1. CASE T = {}
    BY <2>1, SumEmpty
  <2>2. CASE T # {}
    <3>1. Without(T) \in P /\ Chosen(T) \in S
      BY <1>1, <2>2, ChosenFacts
    <3>2. /\ SumOver(f, T) = f[Chosen(T)] + SumOver(f, Without(T))
          /\ SumOver(g, T) = g[Chosen(T)] + SumOver(g, Without(T))
      BY <2>2, SumUnfolds, FS_Subset
    <3> QED
      BY <3>1, <3>2
  <2> QED
    BY <2>1, <2>2
<1>2. S \in P
  <2>1. P \in SUBSET SUBSET S
    OBVIOUS
  <2> HIDE DEF P
  <2> QED
    BY <1>1, <2>1, SubsetInduction
<1> QED
  BY <1>2

\* Disjoint sets add up; a subset sums up to no more.
LEMMA SumUnion ==
    ASSUME NEW f, NEW S, IsFiniteSet(S), NEW T, IsFiniteSet(T), S \cap T = {},
           \A x \in S \cup T : f[x] \in Nat
    PROVE  SumOver(f, S \cup T) = SumOver(f, S) + SumOver(f, T)
<1> DEFINE P == {U \in SUBSET T : SumOver(f, S \cup U) = SumOver(f, S) + SumOver(f, U)}
<1>0. SumOver(f, S) \in Nat
  BY SumType
<1>1. ASSUME NEW U \in SUBSET T, \A V \in SUBSET U : V # U => V \in P
      PROVE  U \in P
  <2>1. CASE U = {}
    <3>1. SumOver(f, {}) = 0 /\ S \cup {} = S
      BY SumEmpty
    <3> QED
      BY <1>0, <2>1, <3>1
  <2>2. CASE U # {}
    <3> DEFINE V == Without(U)
               y == Chosen(U)
    <3>1. V \in P /\ y \in T /\ y \notin V /\ U = V \cup {y} /\ V \in SUBSET T
      BY <1>1, <2>2, ChosenFacts
    <3>2. IsFiniteSet(V)
      BY <3>1, FS_Subset
    <3>3. SumOver(f, U) = f[y] + SumOver(f, V)
      <4>1. SumOver(f, V \cup {y}) = f[y] + SumOver(f, V)
        BY <3>1, <3>2, SumAdd
      <4> QED
        BY <3>1, <4>1
    <3>4. SumOver(f, S \cup U) = f[y] + SumOver(f, S \cup V)
      <4>1. IsFiniteSet(S \cup V) /\ y \notin S \cup V
        BY <3>1, <3>2, FS_Union
      <4>2. SumOver(f, (S \cup V) \cup {y}) = f[y] + SumOver(f, S \cup V)
        BY <3>1, <4>1, SumAdd
      <4>3. (S \cup V) \cup {y} = S \cup U
        BY <3>1
      <4> QED
        BY <4>2, <4>3
    <3>5. SumOver(f, V) \in Nat /\ f[y] \in Nat
      BY <3>1, <3>2, SumType
    <3>6. SumOver(f, S \cup V) = SumOver(f, S) + SumOver(f, V)
      BY <3>1
    <3> HIDE DEF V, y
    <3> QED
      BY <1>0, <3>3, <3>4, <3>5, <3>6
  <2> QED
    BY <2>1, <2>2
<1>2. T \in P
  <2>1. P \in SUBSET SUBSET T
    OBVIOUS
  <2> HIDE DEF P
  <2> QED
    BY <1>1, <2>1, SubsetInduction
<1> QED
  BY <1>2

LEMMA SumMonotonic ==
    ASSUME NEW f, NEW S, IsFiniteSet(S), \A x \in S : f[x] \in Nat, NEW T \in SUBSET S
    PROVE  SumOver(f, T) \in Nat /\ SumOver(f, S) \in Nat /\ SumOver(f, T) <= SumOver(f, S)
<1>1. IsFiniteSet(T) /\ IsFiniteSet(S \ T)
  BY FS_Subset
<1>2. SumOver(f, T \cup (S \ T)) = SumOver(f, T) + SumOver(f, S \ T)
  BY <1>1, SumUnion
<1>3. T \cup (S \ T) = S
  OBVIOUS
<1>4. SumOver(f, T) \in Nat /\ SumOver(f, S \ T) \in Nat
  BY <1>1, SumType
<1>5. SumOver(f, S) = SumOver(f, T) + SumOver(f, S \ T)
  BY <1>2, <1>3
<1> QED
  BY <1>4, <1>5

\* A sum over what S injects into is at least as large.
LEMMA SumInjection ==
    ASSUME NEW f, NEW S, IsFiniteSet(S), NEW g, NEW T, IsFiniteSet(T),
           \A x \in S : f[x] \in Nat, \A y \in T : g[y] \in Nat,
           NEW h, \A x \in S : h[x] \in T /\ f[x] <= g[h[x]],
           \A x, y \in S : h[x] = h[y] => x = y
    PROVE  SumOver(f, S) \in Nat /\ SumOver(g, T) \in Nat /\ SumOver(f, S) <= SumOver(g, T)
<1> DEFINE Image(U) == {h[x] : x \in U}
           P == {U \in SUBSET S : SumOver(f, U) <= SumOver(g, Image(U))}
<1>1. ASSUME NEW U \in SUBSET S, \A V \in SUBSET U : V # U => V \in P
      PROVE  U \in P
  <2>1. CASE U = {}
    <3>1. SumOver(f, {}) = 0 /\ SumOver(g, {}) = 0 /\ Image({}) = {}
      BY SumEmpty
    <3> QED
      BY <2>1, <3>1
  <2>2. CASE U # {}
    <3> DEFINE V == Without(U)
               y == Chosen(U)
    <3>1. V \in P /\ y \in S /\ y \notin V /\ U = V \cup {y} /\ V \in SUBSET S
      BY <1>1, <2>2, ChosenFacts
    <3> HIDE DEF V, y
    <3>2. IsFiniteSet(V) /\ Image(V) \subseteq T /\ IsFiniteSet(Image(V))
      BY <3>1, FS_Subset
    <3>3. h[y] \notin Image(V) /\ Image(U) = Image(V) \cup {h[y]} /\ h[y] \in T
      BY <3>1
    <3>4. SumOver(f, V \cup {y}) = f[y] + SumOver(f, V)
      BY <3>1, <3>2, SumAdd
    <3>5. SumOver(g, Image(V) \cup {h[y]}) = g[h[y]] + SumOver(g, Image(V))
      <4> HIDE DEF Image
      <4> QED
        BY <3>2, <3>3, SumAdd
    <3>6. SumOver(f, V) \in Nat
      BY <3>1, <3>2, SumType
    <3>7. SumOver(g, Image(V)) \in Nat
      <4> HIDE DEF Image
      <4> QED
        BY <3>2, SumType
    <3>8. SumOver(f, V) <= SumOver(g, Image(V)) /\ f[y] <= g[h[y]] /\ f[y] \in Nat /\ g[h[y]] \in Nat
      BY <3>1
    <3>9. SumOver(f, U) <= SumOver(g, Image(U))
      <4> HIDE DEF Image
      <4> QED
        BY <3>1, <3>3, <3>4, <3>5, <3>6, <3>7, <3>8
    <3> QED
      BY <3>9
  <2> QED
    BY <2>1, <2>2
<1>2. S \in P
  <2>1. P \in SUBSET SUBSET S
    OBVIOUS
  <2> HIDE DEF P
  <2> QED
    BY <1>1, <2>1, SubsetInduction
<1>3. Image(S) \in SUBSET T
  OBVIOUS
<1>4. SumOver(f, S) <= SumOver(g, Image(S))
  BY <1>2
<1>5. SumOver(f, S) \in Nat
  BY SumType
<1> HIDE DEF Image
<1> QED
  BY <1>3, <1>4, <1>5, SumMonotonic

\* Smaller terms make a smaller sum.
LEMMA SumPointwise ==
    ASSUME NEW f, NEW g, NEW S, IsFiniteSet(S),
           \A x \in S : f[x] \in Nat /\ g[x] \in Nat /\ f[x] <= g[x]
    PROVE  SumOver(f, S) \in Nat /\ SumOver(g, S) \in Nat /\ SumOver(f, S) <= SumOver(g, S)
<1> DEFINE h == [x \in S |-> x]
<1>1. \A x \in S : h[x] = x
  OBVIOUS
<1> HIDE DEF h
<1> QED
  BY <1>1, SumInjection

\* Nothing adds up to nothing.
LEMMA SumZero ==
    ASSUME NEW f, NEW S, IsFiniteSet(S), \A x \in S : f[x] = 0
    PROVE  SumOver(f, S) = 0
<1> DEFINE P == {T \in SUBSET S : SumOver(f, T) = 0}
<1>1. ASSUME NEW T \in SUBSET S, \A U \in SUBSET T : U # T => U \in P
      PROVE  T \in P
  <2>1. CASE T = {}
    BY <2>1, SumEmpty
  <2>2. CASE T # {}
    <3>1. Without(T) \in P /\ Chosen(T) \in S
      BY <1>1, <2>2, ChosenFacts
    <3>2. IsFiniteSet(T)
      BY FS_Subset
    <3>3. SumOver(f, T) = f[Chosen(T)] + SumOver(f, Without(T))
      BY <2>2, <3>2, SumUnfolds
    <3> QED
      BY <3>1, <3>3
  <2> QED
    BY <2>1, <2>2
<1>2. P \in SUBSET SUBSET S
  OBVIOUS
<1>3. S \in P
  <2> HIDE DEF P
  <2> QED
    BY <1>1, <1>2, SubsetInduction
<1> QED
  BY <1>3

\* No term is larger than the sum, and to change one changes the sum by as much.
LEMMA SumTerm ==
    ASSUME NEW f, NEW S, IsFiniteSet(S), \A x \in S : f[x] \in Nat, NEW y \in S
    PROVE  f[y] <= SumOver(f, S)
<1>1. SumOver(f, S) = f[y] + SumOver(f, S \ {y})
  BY SumRemove
<1>2. SumOver(f, S \ {y}) \in Nat /\ f[y] \in Nat
  BY FS_RemoveElement, SumType
<1> QED
  BY <1>1, <1>2

LEMMA SumChange ==
    ASSUME NEW f, NEW g, NEW S, IsFiniteSet(S), NEW y \in S,
           \A x \in S : f[x] \in Nat /\ g[x] \in Nat,
           \A x \in S \ {y} : f[x] = g[x]
    PROVE  SumOver(g, S) + f[y] = SumOver(f, S) + g[y]
<1>1. IsFiniteSet(S \ {y})
  BY FS_RemoveElement
<1>2. SumOver(f, S) = f[y] + SumOver(f, S \ {y})
  BY SumRemove
<1>3. SumOver(g, S) = g[y] + SumOver(g, S \ {y})
  BY SumRemove
<1>4. SumOver(f, S \ {y}) = SumOver(g, S \ {y})
  BY <1>1, SumSame
<1>5. SumOver(f, S \ {y}) \in Nat /\ f[y] \in Nat /\ g[y] \in Nat
  BY <1>1, SumType
<1> QED
  BY <1>2, <1>3, <1>4, <1>5
=============================================================================
