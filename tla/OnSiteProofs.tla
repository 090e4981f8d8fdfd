---------------------------- MODULE OnSiteProofs ----------------------------
(***************************************************************************)
(* Proofs about CheckIn and Workshops, for any number of desks, clerks,    *)
(* members, workshops and requests.                                        *)
(***************************************************************************)
EXTENDS CheckIn, Workshops, Integers, FiniteSetTheorems, SequenceTheorems, TLAPS

-----------------------------------------------------------------------------
(* Recursion and induction along a list.                                    *)

\* Induction from 0 up to n.
LEMMA UpTo ==
    ASSUME NEW n \in Nat, NEW P, 0 \in P, \A k \in 0 .. n - 1 : k \in P => k + 1 \in P
    PROVE  \A k \in 0 .. n : k \in P
<1> DEFINE Q == {k \in Nat : k <= n /\ k \notin P}
<1> SUFFICES ASSUME Q # {} PROVE FALSE
  OBVIOUS
<1>1. Q \subseteq Nat
  OBVIOUS
<1>2. PICK k \in Q : \A y \in Q : <<y, k>> \notin OpToRel(<, Nat)
  <2> HIDE DEF Q
  <2> QED
    BY <1>1, NatLessThanWellFounded, WFMin
<1>3. k \in Nat /\ k <= n /\ k \notin P /\ k # 0
  OBVIOUS
<1>4. k - 1 \in Nat /\ k - 1 \in 0 .. n - 1 /\ k - 1 < k /\ k - 1 <= n
  BY <1>3
<1>5. k - 1 \notin Q
  BY <1>2, <1>3, <1>4 DEF OpToRel
<1>6. k - 1 \in P
  BY <1>4, <1>5
<1>7. (k - 1) + 1 \in P
  BY <1>4, <1>6
<1> QED
  BY <1>3, <1>7

\* What a step function st makes of b along 1 .. n.
Along(st, b, n, g) == g[0] = b /\ \A k \in 1 .. n : g[k] = st[<<k, g[k - 1]>>]

LEMMA AlongExists ==
    ASSUME NEW n \in Nat, NEW V, NEW b \in V, NEW st \in [(1 .. n) \X V -> V]
    PROVE  \E g \in [0 .. n -> V] : Along(st, b, n, g)
<1> DEFINE P == {k \in 0 .. n : \E g \in [0 .. k -> V] : Along(st, b, k, g)}
<1>1. 0 \in P
  <2> DEFINE g == [k \in 0 .. 0 |-> b]
  <2>1. g \in [0 .. 0 -> V] /\ Along(st, b, 0, g)
    BY DEF Along
  <2> QED
    BY <2>1
<1>2. ASSUME NEW k \in 0 .. n - 1, k \in P PROVE k + 1 \in P
  <2>1. PICK g \in [0 .. k -> V] : Along(st, b, k, g)
    BY <1>2
  <2>2. k \in Nat /\ k + 1 \in 1 .. n /\ k \in 0 .. k
    OBVIOUS
  <2>3. st[<<k + 1, g[k]>>] \in V
    BY <2>2
  <2>4. PICK v \in V : v = st[<<k + 1, g[k]>>]
    BY <2>3
  <2> DEFINE h == [i \in 0 .. k + 1 |-> IF i = k + 1 THEN v ELSE g[i]]
  <2>5. h \in [0 .. k + 1 -> V]
    BY <2>2
  <2>6. h[0] = b /\ \A i \in 0 .. k : h[i] = g[i]
    BY <2>1, <2>2 DEF Along
  <2>7. \A i \in 1 .. k : h[i] = st[<<i, h[i - 1]>>]
    <3> SUFFICES ASSUME NEW i \in 1 .. k PROVE h[i] = st[<<i, h[i - 1]>>]
      OBVIOUS
    <3>1. i \in 0 .. k /\ i - 1 \in 0 .. k
      BY <2>2
    <3>2. h[i] = g[i] /\ h[i - 1] = g[i - 1]
      BY <2>6, <3>1
    <3> QED
      BY <2>1, <3>2 DEF Along
  <2>8. h[k + 1] = st[<<k + 1, h[(k + 1) - 1]>>]
    <3>1. h[k] = g[k] /\ (k + 1) - 1 = k
      BY <2>2, <2>6
    <3>2. h[k + 1] = v
      BY <2>2
    <3> QED
      BY <2>4, <3>1, <3>2
  <2>9. Along(st, b, k + 1, h)
    <3> SUFFICES ASSUME NEW i \in 1 .. k + 1 PROVE h[i] = st[<<i, h[i - 1]>>]
      BY <2>6 DEF Along
    <3>1. i \in 1 .. k \/ i = k + 1
      BY <2>2
    <3> QED
      BY <2>7, <2>8, <3>1
  <2> QED
    BY <2>2, <2>5, <2>9
<1>3. \A k \in 0 .. n : k \in P
  <2> HIDE DEF P
  <2> QED
    BY <1>1, <1>2, UpTo
<1> QED
  BY <1>3

LEMMA AlongUnique ==
    ASSUME NEW n \in Nat, NEW b, NEW st, NEW g, NEW h, Along(st, b, n, g), Along(st, b, n, h)
    PROVE  \A k \in 0 .. n : g[k] = h[k]
<1> DEFINE P == {k \in 0 .. n : g[k] = h[k]}
<1>1. 0 \in P
  BY DEF Along
<1>2. ASSUME NEW k \in 0 .. n - 1, k \in P PROVE k + 1 \in P
  <2>1. k + 1 \in 1 .. n /\ (k + 1) - 1 = k
    OBVIOUS
  <2>2. g[k + 1] = st[<<k + 1, g[k]>>] /\ h[k + 1] = st[<<k + 1, h[k]>>]
    <3>1. PICK i \in 1 .. n : i = k + 1 /\ i - 1 = k
      BY <2>1
    <3>2. g[i] = st[<<i, g[i - 1]>>] /\ h[i] = st[<<i, h[i - 1]>>]
      BY DEF Along
    <3> QED
      BY <3>1, <3>2
  <2>3. g[k] = h[k]
    BY <1>2
  <2> QED
    BY <2>1, <2>2, <2>3
<1>3. \A k \in 0 .. n : k \in P
  <2> HIDE DEF P
  <2> QED
    BY <1>1, <1>2, UpTo
<1> QED
  BY <1>3

-----------------------------------------------------------------------------
(* What Those returns.                                                      *)

Filtering(s, S, g) ==
    /\ g[0] = <<>>
    /\ \A n \in 1 .. Len(s) : g[n] = IF s[n] \in S THEN Append(g[n - 1], s[n]) ELSE g[n - 1]

LEMMA FilteringAt ==
    ASSUME NEW X, NEW s \in Seq(X), NEW S, NEW g, Filtering(s, S, g), NEW k \in 0 .. Len(s) - 1
    PROVE  /\ k + 1 \in 1 .. Len(s) /\ s[k + 1] \in X
           /\ g[k + 1] = IF s[k + 1] \in S THEN Append(g[k], s[k + 1]) ELSE g[k]
<1>1. Len(s) \in Nat
  BY LenProperties
<1>2. PICK i \in 1 .. Len(s) : i = k + 1 /\ i - 1 = k
  BY <1>1
<1>3. g[i] = IF s[i] \in S THEN Append(g[i - 1], s[i]) ELSE g[i - 1]
  BY DEF Filtering
<1>4. s[i] \in X
  BY ElementOfSeq
<1> QED
  BY <1>2, <1>3, <1>4

LEMMA FilteringUnique ==
    ASSUME NEW X, NEW s \in Seq(X), NEW S, NEW g, NEW h, Filtering(s, S, g), Filtering(s, S, h)
    PROVE  g[Len(s)] = h[Len(s)]
<1> DEFINE P == {k \in 0 .. Len(s) : g[k] = h[k]}
<1>0. Len(s) \in Nat
  BY LenProperties
<1>1. 0 \in P
  BY <1>0 DEF Filtering
<1>2. ASSUME NEW k \in 0 .. Len(s) - 1, k \in P PROVE k + 1 \in P
  <2>1. g[k] = h[k]
    BY <1>2
  <2>2. k + 1 \in 0 .. Len(s)
    BY <1>0
  <2> QED
    BY <2>1, <2>2, FilteringAt
<1>3. \A k \in 0 .. Len(s) : k \in P
  <2> HIDE DEF P
  <2> QED
    BY <1>0, <1>1, <1>2, UpTo
<1> QED
  BY <1>0, <1>3

LEMMA FilteringExists ==
    ASSUME NEW X, NEW s \in Seq(X), NEW S
    PROVE  \E g \in [0 .. Len(s) -> Seq(X)] : Filtering(s, S, g)
<1> DEFINE st == [p \in (1 .. Len(s)) \X Seq(X) |->
                     IF s[p[1]] \in S THEN Append(p[2], s[p[1]]) ELSE p[2]]
<1>0. Len(s) \in Nat /\ <<>> \in Seq(X)
  BY LenProperties, EmptySeq
<1>1. st \in [(1 .. Len(s)) \X Seq(X) -> Seq(X)]
  <2> SUFFICES ASSUME NEW i \in 1 .. Len(s), NEW t \in Seq(X)
               PROVE  (IF s[i] \in S THEN Append(t, s[i]) ELSE t) \in Seq(X)
    OBVIOUS
  <2>1. s[i] \in X
    BY ElementOfSeq
  <2> QED
    BY <2>1, AppendProperties
<1>2. PICK g \in [0 .. Len(s) -> Seq(X)] : Along(st, <<>>, Len(s), g)
  <2> HIDE DEF st
  <2> QED
    BY <1>0, <1>1, AlongExists
<1>3. Filtering(s, S, g)
  <2>1. g[0] = <<>>
    BY <1>2 DEF Along
  <2> SUFFICES ASSUME NEW i \in 1 .. Len(s)
               PROVE  g[i] = IF s[i] \in S THEN Append(g[i - 1], s[i]) ELSE g[i - 1]
    BY <2>1 DEF Filtering
  <2>2. i - 1 \in 0 .. Len(s)
    BY <1>0
  <2>3. g[i - 1] \in Seq(X)
    BY <2>2
  <2>4. g[i] = st[<<i, g[i - 1]>>]
    BY <1>2 DEF Along
  <2>5. st[<<i, g[i - 1]>>] = IF s[i] \in S THEN Append(g[i - 1], s[i]) ELSE g[i - 1]
    BY <2>3
  <2> QED
    BY <2>4, <2>5
<1> QED
  BY <1>3

LEMMA ThoseFiltering ==
    ASSUME NEW X, NEW s \in Seq(X), NEW S, NEW g, Filtering(s, S, g)
    PROVE  Those(s, S) = g[Len(s)]
<1> DEFINE Eq(f) == f = [n \in 0 .. Len(s) |->
                            CASE n = 0               -> <<>>
                              [] n > 0 /\ s[n] \in S -> Append(f[n - 1], s[n])
                              [] OTHER               -> f[n - 1]]
<1>0. Len(s) \in Nat
  BY LenProperties
<1>1. Those(s, S) = (CHOOSE f : Eq(f))[Len(s)]
  BY DEF Those
<1>2. \A f : Eq(f) => Filtering(s, S, f)
  <2> SUFFICES ASSUME NEW f, Eq(f) PROVE Filtering(s, S, f)
    OBVIOUS
  <2>1. f[0] = <<>>
    BY <1>0
  <2>2. ASSUME NEW n \in 1 .. Len(s)
        PROVE  f[n] = IF s[n] \in S THEN Append(f[n - 1], s[n]) ELSE f[n - 1]
    <3>1. n \in 0 .. Len(s) /\ n # 0 /\ n > 0
      BY <1>0
    <3>2. f[n] = CASE n = 0               -> <<>>
                   [] n > 0 /\ s[n] \in S -> Append(f[n - 1], s[n])
                   [] OTHER               -> f[n - 1]
      BY <3>1
    <3> QED
      BY <3>1, <3>2
  <2> QED
    BY <2>1, <2>2 DEF Filtering
<1>3. \E f : Eq(f)
  <2>1. PICK h \in [0 .. Len(s) -> Seq(X)] : Filtering(s, S, h)
    BY FilteringExists
  <2>2. ASSUME NEW n \in 0 .. Len(s)
        PROVE  h[n] = CASE n = 0               -> <<>>
                        [] n > 0 /\ s[n] \in S -> Append(h[n - 1], s[n])
                        [] OTHER               -> h[n - 1]
    <3>1. CASE n = 0
      BY <2>1, <3>1 DEF Filtering
    <3>2. CASE n # 0
      <4>1. n \in 1 .. Len(s) /\ n > 0
        BY <1>0, <3>2
      <4>2. h[n] = IF s[n] \in S THEN Append(h[n - 1], s[n]) ELSE h[n - 1]
        BY <2>1, <4>1 DEF Filtering
      <4> QED
        BY <3>2, <4>1, <4>2
    <3> QED
      BY <3>1, <3>2
  <2>3. Eq(h)
    BY <2>2
  <2> QED
    BY <2>3
<1>4. Eq(CHOOSE f : Eq(f))
  <2> HIDE DEF Eq
  <2> QED
    BY <1>3
<1>5. Filtering(s, S, CHOOSE f : Eq(f))
  BY <1>2, <1>4
<1>6. (CHOOSE f : Eq(f))[Len(s)] = g[Len(s)]
  <2> HIDE DEF Eq
  <2> QED
    BY <1>5, FilteringUnique
<1> QED
  BY <1>1, <1>6

\* t is a sublist of the first k of s, in which every one that is in S occurs:
\* f tells where.
Sublist(s, S, k, t, f) ==
    /\ \A i \in 1 .. Len(t) : f[i] \in 1 .. k /\ t[i] = s[f[i]] /\ t[i] \in S
    /\ \A i, j \in 1 .. Len(t) : i < j => f[i] < f[j]
    /\ \A n \in 1 .. k : s[n] \in S => \E i \in 1 .. Len(t) : f[i] = n

LEMMA ThoseFacts ==
    ASSUME NEW X, NEW s \in Seq(X), NEW S
    PROVE  /\ Those(s, S) \in Seq(X) /\ Len(Those(s, S)) \in Nat
           /\ \E f \in [1 .. Len(Those(s, S)) -> 1 .. Len(s)] :
                 Sublist(s, S, Len(s), Those(s, S), f)
<1>0. Len(s) \in Nat /\ <<>> \in Seq(X) /\ Len(<<>>) = 0
  BY LenProperties, EmptySeq
<1>1. PICK g \in [0 .. Len(s) -> Seq(X)] : Filtering(s, S, g)
  BY FilteringExists
<1> DEFINE P == {k \in 0 .. Len(s) : \E f \in [1 .. Len(g[k]) -> 1 .. k] : Sublist(s, S, k, g[k], f)}
<1>2. 0 \in P
  <2>1. g[0] = <<>>
    BY <1>1 DEF Filtering
  <2>2. 1 .. Len(g[0]) = {}
    BY <1>0, <2>1
  <2> DEFINE f == [i \in 1 .. Len(g[0]) |-> i]
  <2>3. f \in [1 .. Len(g[0]) -> 1 .. 0]
    BY <2>2
  <2>4. Sublist(s, S, 0, g[0], f)
    BY <2>2 DEF Sublist
  <2> QED
    BY <1>0, <2>3, <2>4
<1>3. ASSUME NEW k \in 0 .. Len(s) - 1, k \in P PROVE k + 1 \in P
  <2>1. PICK f \in [1 .. Len(g[k]) -> 1 .. k] : Sublist(s, S, k, g[k], f)
    BY <1>3
  <2>2. /\ k \in Nat /\ k + 1 \in 0 .. Len(s) /\ s[k + 1] \in X
        /\ g[k + 1] = IF s[k + 1] \in S THEN Append(g[k], s[k + 1]) ELSE g[k]
    BY <1>0, <1>1, FilteringAt
  <2>3. g[k] \in Seq(X) /\ Len(g[k]) \in Nat
    <3>1. k \in 0 .. Len(s)
      BY <1>0
    <3>2. g[k] \in Seq(X)
      BY <3>1
    <3> QED
      BY <3>2, LenProperties
  <2>4. CASE s[k + 1] \in S
    <3> DEFINE l == Len(g[k])
               h == [i \in 1 .. l + 1 |-> IF i = l + 1 THEN k + 1 ELSE f[i]]
    <3>1. /\ Len(g[k + 1]) = l + 1 /\ g[k + 1][l + 1] = s[k + 1]
          /\ \A i \in 1 .. l : g[k + 1][i] = g[k][i]
      BY <2>2, <2>3, <2>4, AppendProperties
    <3>2. /\ \A i \in 1 .. l : h[i] = f[i] /\ h[i] \in 1 .. k
          /\ h[l + 1] = k + 1 /\ 1 .. l + 1 = 1 .. l \cup {l + 1}
      BY <2>1, <2>3 DEF Sublist
    <3>3. h \in [1 .. l + 1 -> 1 .. k + 1]
      BY <2>2, <2>3, <3>2
    <3> HIDE DEF h
    <3>4. Sublist(s, S, k + 1, g[k + 1], h)
      <4>1. \A i \in 1 .. l + 1 :
               h[i] \in 1 .. k + 1 /\ g[k + 1][i] = s[h[i]] /\ g[k + 1][i] \in S
        <5>1. \A i \in 1 .. l : h[i] \in 1 .. k + 1 /\ g[k + 1][i] = s[h[i]] /\ g[k + 1][i] \in S
          BY <2>1, <2>2, <3>1, <3>2 DEF Sublist
        <5>2. h[l + 1] \in 1 .. k + 1 /\ g[k + 1][l + 1] = s[h[l + 1]] /\ g[k + 1][l + 1] \in S
          BY <2>2, <2>4, <3>1, <3>2
        <5> QED
          BY <3>2, <5>1, <5>2
      <4>2. \A i, j \in 1 .. l + 1 : i < j => h[i] < h[j]
        <5> SUFFICES ASSUME NEW i \in 1 .. l + 1, NEW j \in 1 .. l + 1, i < j PROVE h[i] < h[j]
          OBVIOUS
        <5>1. i \in 1 .. l /\ h[i] = f[i] /\ h[i] \in 1 .. k
          BY <2>3, <3>2
        <5>2. CASE j \in 1 .. l
          <6>1. f[i] < f[j]
            BY <2>1, <5>1, <5>2 DEF Sublist
          <6> QED
            BY <3>2, <5>1, <5>2, <6>1
        <5>3. CASE j = l + 1
          BY <2>2, <3>2, <5>1, <5>3
        <5> QED
          BY <3>2, <5>2, <5>3
      <4>3. \A n \in 1 .. k + 1 : s[n] \in S => \E i \in 1 .. l + 1 : h[i] = n
        <5> SUFFICES ASSUME NEW n \in 1 .. k + 1, s[n] \in S PROVE \E i \in 1 .. l + 1 : h[i] = n
          OBVIOUS
        <5>1. CASE n = k + 1
          BY <2>3, <3>2, <5>1
        <5>2. CASE n # k + 1
          <6>1. n \in 1 .. k
            BY <2>2, <5>2
          <6>2. PICK i \in 1 .. l : f[i] = n
            BY <2>1, <6>1 DEF Sublist
          <6> QED
            BY <3>2, <6>2
        <5> QED
          BY <5>1, <5>2
      <4> QED
        BY <3>1, <4>1, <4>2, <4>3 DEF Sublist
    <3> QED
      BY <2>2, <3>1, <3>3, <3>4
  <2>5. CASE s[k + 1] \notin S
    <3>1. g[k + 1] = g[k]
      BY <2>2, <2>5
    <3>2. f \in [1 .. Len(g[k]) -> 1 .. k + 1]
      BY <2>2
    <3>3. Sublist(s, S, k + 1, g[k], f)
      <4>1. 1 .. k + 1 = 1 .. k \cup {k + 1}
        BY <2>2
      <4> QED
        BY <2>1, <2>5, <4>1 DEF Sublist
    <3> QED
      BY <2>2, <3>1, <3>2, <3>3
  <2> QED
    BY <2>4, <2>5
<1>4. \A k \in 0 .. Len(s) : k \in P
  <2> HIDE DEF P
  <2> QED
    BY <1>0, <1>2, <1>3, UpTo
<1>5. Len(s) \in P /\ Len(s) \in 0 .. Len(s)
  BY <1>0, <1>4
<1>6. Those(s, S) = g[Len(s)] /\ g[Len(s)] \in Seq(X)
  BY <1>1, <1>5, ThoseFiltering
<1> QED
  BY <1>5, <1>6, LenProperties

\* What is in the list and in the set is in the sublist, and nothing else; a
\* list without repetitions has sublists without.
LEMMA ThoseElements ==
    ASSUME NEW X, NEW s \in Seq(X), NEW S
    PROVE  /\ \A i \in 1 .. Len(Those(s, S)) :
                 /\ Those(s, S)[i] \in S /\ Those(s, S)[i] \in X
                 /\ \E k \in 1 .. Len(s) : s[k] = Those(s, S)[i]
           /\ \A k \in 1 .. Len(s) :
                 s[k] \in S => \E i \in 1 .. Len(Those(s, S)) : Those(s, S)[i] = s[k]
           /\ IsInjective(s) => IsInjective(Those(s, S))
<1> DEFINE t == Those(s, S)
<1>1. t \in Seq(X)
  BY ThoseFacts
<1>2. PICK f \in [1 .. Len(t) -> 1 .. Len(s)] : Sublist(s, S, Len(s), t, f)
  BY ThoseFacts
<1> HIDE DEF t
<1>3. DOMAIN t = 1 .. Len(t) /\ DOMAIN s = 1 .. Len(s) /\ Len(t) \in Nat /\ Len(s) \in Nat
  BY <1>1, LenProperties
<1>4. \A i \in 1 .. Len(t) : t[i] \in S /\ t[i] \in X /\ \E k \in 1 .. Len(s) : s[k] = t[i]
  BY <1>1, <1>2, ElementOfSeq DEF Sublist
<1>5. \A k \in 1 .. Len(s) : s[k] \in S => \E i \in 1 .. Len(t) : t[i] = s[k]
  BY <1>2 DEF Sublist
<1>6. IsInjective(s) => IsInjective(t)
  <2> SUFFICES ASSUME IsInjective(s), NEW i \in 1 .. Len(t), NEW j \in 1 .. Len(t), t[i] = t[j]
               PROVE  i = j
    BY <1>3 DEF IsInjective
  <2>1. f[i] \in 1 .. Len(s) /\ f[j] \in 1 .. Len(s) /\ s[f[i]] = s[f[j]]
    BY <1>2 DEF Sublist
  <2>2. f[i] = f[j]
    BY <1>3, <2>1 DEF IsInjective
  <2>3. ~(i < j) /\ ~(j < i)
    BY <1>3, <1>2, <2>1, <2>2 DEF Sublist
  <2> QED
    BY <1>3, <2>3
<1> QED
  BY <1>4, <1>5, <1>6 DEF t

\* The first of the sublist is the first in the list that is in the set.
LEMMA ThoseHead ==
    ASSUME NEW X, NEW s \in Seq(X), NEW S
    PROVE  /\ Those(s, S) = <<>> <=> \A k \in 1 .. Len(s) : s[k] \notin S
           /\ Those(s, S) # <<>> => \E k \in 1 .. Len(s) :
                 /\ Head(Those(s, S)) = s[k] /\ s[k] \in S /\ s[k] \in X
                 /\ \A n \in 1 .. k - 1 : s[n] \notin S
<1> DEFINE t == Those(s, S)
<1>1. t \in Seq(X)
  BY ThoseFacts
<1>2. PICK f \in [1 .. Len(t) -> 1 .. Len(s)] : Sublist(s, S, Len(s), t, f)
  BY ThoseFacts
<1> HIDE DEF t
<1>3. Len(t) \in Nat /\ Len(s) \in Nat /\ (t = <<>> <=> Len(t) = 0)
  BY <1>1, LenProperties, EmptySeq
<1>4. t = <<>> <=> \A k \in 1 .. Len(s) : s[k] \notin S
  <2>1. ASSUME t = <<>>, NEW k \in 1 .. Len(s) PROVE s[k] \notin S
    BY <1>2, <1>3, <2>1 DEF Sublist
  <2>2. ASSUME t # <<>> PROVE \E k \in 1 .. Len(s) : s[k] \in S
    <3>1. 1 \in 1 .. Len(t)
      BY <1>3, <2>2
    <3> QED
      BY <1>2, <3>1 DEF Sublist
  <2> QED
    BY <2>1, <2>2
<1>5. ASSUME t # <<>>
      PROVE  \E k \in 1 .. Len(s) :
                 Head(t) = s[k] /\ s[k] \in S /\ s[k] \in X /\ \A n \in 1 .. k - 1 : s[n] \notin S
  <2>1. 1 \in 1 .. Len(t) /\ Head(t) = t[1]
    BY <1>1, <1>3, <1>5
  <2>2. f[1] \in 1 .. Len(s) /\ t[1] = s[f[1]] /\ t[1] \in S
    BY <1>2, <2>1 DEF Sublist
  <2>3. ASSUME NEW n \in 1 .. f[1] - 1, s[n] \in S PROVE FALSE
    <3>1. n \in 1 .. Len(s) /\ n < f[1]
      BY <1>3, <2>2
    <3>2. PICK i \in 1 .. Len(t) : f[i] = n
      BY <1>2, <2>3, <3>1 DEF Sublist
    <3>3. i # 1 => 1 < i
      BY <1>3
    <3> QED
      BY <1>2, <2>1, <2>2, <3>1, <3>2, <3>3 DEF Sublist
  <2>4. s[f[1]] \in X
    BY <2>2, ElementOfSeq
  <2> QED
    BY <2>1, <2>2, <2>3, <2>4
<1> QED
  BY <1>4, <1>5 DEF t

LEMMA ThoseAppend ==
    ASSUME NEW X, NEW s \in Seq(X), NEW S, NEW e \in X
    PROVE  Those(Append(s, e), S) = IF e \in S THEN Append(Those(s, S), e) ELSE Those(s, S)
<1>0. Len(s) \in Nat
  BY LenProperties
<1>1. PICK a \in Seq(X) : a = Append(s, e)
  BY AppendProperties
<1>2. /\ Len(a) = Len(s) + 1 /\ a[Len(s) + 1] = e
      /\ \A i \in 1 .. Len(s) : a[i] = s[i]
  BY <1>1, AppendProperties
<1>3. PICK g \in [0 .. Len(a) -> Seq(X)] : Filtering(a, S, g)
  BY FilteringExists
<1>4. Filtering(s, S, g)
  <2>1. 1 .. Len(s) \subseteq 1 .. Len(a)
    BY <1>0, <1>2
  <2> QED
    BY <1>2, <1>3, <2>1 DEF Filtering
<1>5. Those(s, S) = g[Len(s)] /\ Those(a, S) = g[Len(s) + 1]
  BY <1>2, <1>3, <1>4, ThoseFiltering
<1>6. Len(s) \in 0 .. Len(a) - 1
  BY <1>0, <1>2
<1>7. g[Len(s) + 1] = IF a[Len(s) + 1] \in S THEN Append(g[Len(s)], a[Len(s) + 1]) ELSE g[Len(s)]
  BY <1>3, <1>6, FilteringAt
<1> QED
  BY <1>1, <1>2, <1>5, <1>7

LEMMA ThoseAll ==
    ASSUME NEW X, NEW s \in Seq(X), NEW S, \A k \in 1 .. Len(s) : s[k] \in S
    PROVE  Those(s, S) = s
<1> DEFINE h == [n \in 0 .. Len(s) |-> SubSeq(s, 1, n)]
<1>0. Len(s) \in Nat
  BY LenProperties
<1>1. Filtering(s, S, h)
  <2>1. h[0] = <<>>
    BY <1>0, SubSeqEmpty
  <2>2. ASSUME NEW n \in 1 .. Len(s) PROVE h[n] = Append(h[n - 1], s[n])
    <3>1. n \in 0 .. Len(s) /\ n - 1 \in 0 .. Len(s)
      BY <1>0
    <3>2. SubSeq(s, 1, n) = Append(SubSeq(s, 1, n - 1), s[n])
      <4>1. /\ SubSeq(s, 1, n) \in Seq(X) /\ Len(SubSeq(s, 1, n)) = n
            /\ \A i \in 1 .. n : SubSeq(s, 1, n)[i] = s[i]
        BY <1>0
      <4>2. /\ SubSeq(s, 1, n - 1) \in Seq(X) /\ Len(SubSeq(s, 1, n - 1)) = n - 1
            /\ \A i \in 1 .. n - 1 : SubSeq(s, 1, n - 1)[i] = s[i]
        BY <1>0
      <4>3. s[n] \in X
        BY ElementOfSeq
      <4>4. /\ Append(SubSeq(s, 1, n - 1), s[n]) \in Seq(X)
            /\ Len(Append(SubSeq(s, 1, n - 1), s[n])) = n
            /\ \A i \in 1 .. n : Append(SubSeq(s, 1, n - 1), s[n])[i] = s[i]
        BY <1>0, <4>2, <4>3, AppendProperties
      <4> QED
        BY <4>1, <4>4, SeqEqual
    <3> QED
      BY <3>1, <3>2
  <2>3. ASSUME NEW n \in 1 .. Len(s)
        PROVE  h[n] = IF s[n] \in S THEN Append(h[n - 1], s[n]) ELSE h[n - 1]
    <3>1. s[n] \in S /\ h[n] = Append(h[n - 1], s[n])
      BY <2>2
    <3> HIDE DEF h
    <3> QED
      BY <3>1
  <2> HIDE DEF h
  <2> QED
    BY <2>1, <2>3 DEF Filtering
<1>2. h[Len(s)] = s
  BY <1>0, SubSeqFull
<1> HIDE DEF h
<1> QED
  BY <1>1, <1>2, ThoseFiltering

-----------------------------------------------------------------------------
(* CheckIn: the inductive invariant.                                        *)

ScanTodos == {<<"attend", "status", "record">>, <<"status", "record">>, <<"record">>}
BulkTodos == {<<"record", "status", "attend">>, <<"status", "attend">>, <<"attend">>}

\* What a request decided, and what is left of its steps.
DeskInv ==
    \A d \in Desks : desk[d] # Free =>
        /\ desk[d].by = "scan" => desk[d].todo \in ScanTodos
        /\ desk[d].by = "bulk" => desk[d].todo \in BulkTodos /\ desk[d].success
        /\ desk[d].success => desk[d].new = StatusAfter(desk[d].action)
        /\ desk[d].sawCancelled => desk[d].new = "CANCELLED"
        /\ desk[d].by = "scan" /\ desk[d].success /\ ~desk[d].outdated =>
               (desk[d].action = "CHECK_IN") # IsCheckedIn(log)

RecordInv ==
    \A i \in 1 .. Len(log) :
        log[i].success /\ log[i].action = "CHECK_IN" => log[i].snapshot = "CHECKED_IN"

LastIn == Successes # <<>> /\ Last(Successes).action = "CHECK_IN"

\* is_checked_in knows of the last admission.
SeenInv == holes \cap {"raced", "hidden"} = {} /\ LastIn => IsCheckedIn(log)

AdmissionInv == DeskInv /\ RecordInv /\ SeenInv /\ AdmittedOnce

\* With no request in progress, status, attendance and log agree.
Agree ==
    /\ status = "CHECKED_IN" => attendance = "CHECK_IN" /\ LastIn
    /\ status = "CHECKED_OUT" => attendance # "CHECK_IN"
    /\ attendance = "CHECK_IN" => LastIn

Suits(action) ==
    /\ status = "CHECKED_IN" => action = "CHECK_IN"
    /\ status = "CHECKED_OUT" => action = "CHECK_OUT"

\* How far a scan that lets in or out, one that is refused, and a bulk update
\* have brought the three of them.
ScanPhase(j) ==
    /\ j.todo = <<"attend", "status", "record">> => Agree
    /\ j.todo # <<"attend", "status", "record">> =>
           (attendance = "CHECK_IN" <=> j.action = "CHECK_IN")
    /\ j.todo = <<"record">> => Suits(j.action)
RefusedPhase(j) ==
    /\ Agree
    /\ j.todo # <<"record">> =>
           j.new # "CHECKED_IN" /\ (j.new = "CHECKED_OUT" => attendance # "CHECK_IN")
BulkPhase(j) ==
    /\ j.todo = <<"record", "status", "attend">> => Agree
    /\ j.todo # <<"record", "status", "attend">> => (LastIn <=> j.action = "CHECK_IN")
    /\ j.todo = <<"attend">> => Suits(j.action)

Phase(j) ==
    /\ j.by = "scan" /\ j.success => ScanPhase(j)
    /\ j.by = "scan" /\ ~j.success => RefusedPhase(j) /\ j.todo # <<"attend", "status", "record">>
    /\ j.by = "bulk" => BulkPhase(j)

\* Unless requests overlapped or died or the log was tampered with, one request
\* is in progress at a time and has read what is still so.
QuietInv ==
    holes \cap {"torn", "hidden"} = {} =>
        /\ "raced" \notin holes
        /\ \A d, e \in Busy : d = e
        /\ Busy = {} => Agree
        /\ \A d \in Busy : ~desk[d].outdated /\ Phase(desk[d])

CheckInInv == CheckInTypeOK /\ AdmissionInv /\ QuietInv /\ CancelledStaysOut

-----------------------------------------------------------------------------
(* CheckIn: jobs and their steps.                                           *)

ScanJobs == [todo : BoundedSeq(Steps, 3) \ {<<>>}, action : Actions, by : {"scan", "bulk"},
             success : BOOLEAN, new : Statuses, again : BOOLEAN, sawCancelled : BOOLEAN,
             outdated : BOOLEAN]

LEMMA JobKinds ==
    /\ DeskJobs = {Free} \cup ScanJobs
    /\ Free \notin ScanJobs
<1>1. DeskJobs = {Free} \cup ScanJobs
  BY DEF DeskJobs, ScanJobs
<1>2. ASSUME Free \in ScanJobs PROVE FALSE
  <2>1. Free.todo \in BoundedSeq(Steps, 3) \ {<<>>}
    BY <1>2 DEF ScanJobs
  <2>2. Free.todo = <<>>
    BY DEF Free
  <2> QED
    BY <2>1, <2>2
<1> QED
  BY <1>1, <1>2

\* The lists of steps: the first step of each, and what is left after it.
LEMMA TodoFacts ==
    /\ \A t \in ScanTodos \cup BulkTodos : t \in BoundedSeq(Steps, 3) \ {<<>>}
    /\ \A t \in ScanTodos \cup BulkTodos : t # <<>>
    /\ LET t == <<"attend", "status", "record">> IN
           Len(t) = 3 /\ Head(t) = "attend" /\ Tail(t) = <<"status", "record">>
    /\ LET t == <<"status", "record">> IN
           Len(t) = 2 /\ Head(t) = "status" /\ Tail(t) = <<"record">>
    /\ LET t == <<"record">> IN Len(t) = 1 /\ Head(t) = "record"
    /\ LET t == <<"record", "status", "attend">> IN
           Len(t) = 3 /\ Head(t) = "record" /\ Tail(t) = <<"status", "attend">>
    /\ LET t == <<"status", "attend">> IN
           Len(t) = 2 /\ Head(t) = "status" /\ Tail(t) = <<"attend">>
    /\ LET t == <<"attend">> IN Len(t) = 1 /\ Head(t) = "attend"
<1>1. \A t \in ScanTodos \cup BulkTodos :
         t # <<>> /\ t \in [1 .. 1 -> Steps] \cup [1 .. 2 -> Steps] \cup [1 .. 3 -> Steps]
  BY DEF ScanTodos, BulkTodos, Steps
<1>2. [1 .. 1 -> Steps] \cup [1 .. 2 -> Steps] \cup [1 .. 3 -> Steps] \subseteq BoundedSeq(Steps, 3)
  <2>1. 1 \in 0 .. 3 /\ 2 \in 0 .. 3 /\ 3 \in 0 .. 3
    OBVIOUS
  <2> QED
    BY <2>1 DEF BoundedSeq, SeqOf
<1>3. \A t \in ScanTodos \cup BulkTodos : t \in BoundedSeq(Steps, 3) \ {<<>>}
  BY <1>1, <1>2
<1>4. LET t == <<"attend", "status", "record">> IN
           Len(t) = 3 /\ Head(t) = "attend" /\ Tail(t) = <<"status", "record">>
  OBVIOUS
<1>5. LET t == <<"status", "record">> IN
           Len(t) = 2 /\ Head(t) = "status" /\ Tail(t) = <<"record">>
  OBVIOUS
<1>6. LET t == <<"record", "status", "attend">> IN
           Len(t) = 3 /\ Head(t) = "record" /\ Tail(t) = <<"status", "attend">>
  OBVIOUS
<1>7. LET t == <<"status", "attend">> IN
           Len(t) = 2 /\ Head(t) = "status" /\ Tail(t) = <<"attend">>
  OBVIOUS
<1>8. LET t == <<"record">> IN Len(t) = 1 /\ Head(t) = "record"
  OBVIOUS
<1>9. LET t == <<"attend">> IN Len(t) = 1 /\ Head(t) = "attend"
  OBVIOUS
<1> QED
  BY <1>1, <1>3, <1>4, <1>5, <1>6, <1>7, <1>8, <1>9

\* The lists a request begins with, by its first step.
Todos(first) ==
    CASE first = "attend" -> {<<"attend", "status", "record">>, <<"attend">>}
      [] first = "status" -> {<<"status", "record">>, <<"status", "attend">>}
      [] first = "record" -> {<<"record">>, <<"record", "status", "attend">>}

\* A request that is about to take a step, and what it is after the step.
LEMMA StepFacts ==
    ASSUME CheckInTypeOK, DeskInv, NEW d \in Desks, NEW step \in Steps, Does(d, step)
    PROVE  /\ desk[d] \in ScanJobs /\ desk[d] # Free
           /\ desk[d].todo \in Todos(step) \cap (ScanTodos \cup BulkTodos)
           /\ desk[d].by = "scan" => desk[d].todo \in ScanTodos
           /\ desk[d].by = "bulk" => desk[d].todo \in BulkTodos /\ desk[d].success
           /\ desk[d].by \in {"scan", "bulk"}
<1>1. desk[d] # Free /\ desk[d] \in ScanJobs /\ Head(desk[d].todo) = step
  BY JobKinds DEF CheckInTypeOK, Does
<1>2. PICK j \in ScanJobs : j = desk[d]
  BY <1>1
<1>3. /\ j.by \in {"scan", "bulk"}
      /\ j.by = "scan" => j.todo \in ScanTodos
      /\ j.by = "bulk" => j.todo \in BulkTodos /\ j.success
  BY <1>1, <1>2 DEF DeskInv, ScanJobs
<1>4. PICK t \in ScanTodos \cup BulkTodos : t = j.todo
  BY <1>3
<1>5. t \in Todos(step)
  <2>1. Head(t) = step
    BY <1>1, <1>2, <1>4
  <2> QED
    BY <1>4, <2>1, TodoFacts DEF ScanTodos, BulkTodos, Todos, Steps
<1> QED
  BY <1>1, <1>2, <1>3, <1>4, <1>5

LEMMA RestFacts ==
    ASSUME NEW j \in ScanJobs, j.todo \in ScanTodos \cup BulkTodos
    PROVE  /\ Rest(j) \in DeskJobs
           /\ j.todo \in {<<"record">>, <<"attend">>} => Rest(j) = Free
           /\ j.todo \notin {<<"record">>, <<"attend">>} =>
                 /\ Rest(j) \in ScanJobs /\ Rest(j) # Free
                 /\ Rest(j).todo = Tail(j.todo)
                 /\ j.todo \in ScanTodos => Rest(j).todo \in ScanTodos
                 /\ j.todo \in BulkTodos => Rest(j).todo \in BulkTodos
                 /\ Rest(j).action = j.action /\ Rest(j).by = j.by
                 /\ Rest(j).success = j.success /\ Rest(j).new = j.new
                 /\ Rest(j).sawCancelled = j.sawCancelled /\ Rest(j).outdated = j.outdated
<1>1. PICK t \in ScanTodos \cup BulkTodos : t = j.todo
  OBVIOUS
<1>2. CASE t \in {<<"record">>, <<"attend">>}
  <2>1. Len(t) = 1
    BY <1>2, TodoFacts
  <2>2. Rest(j) = Free
    BY <1>1, <2>1 DEF Rest
  <2> QED
    BY <1>1, <1>2, <2>2, JobKinds
<1>3. CASE t \notin {<<"record">>, <<"attend">>}
  <2>1. Len(t) # 1
    BY <1>3, TodoFacts DEF ScanTodos, BulkTodos
  <2>2. Rest(j) = [j EXCEPT !.todo = Tail(t)]
    BY <1>1, <2>1 DEF Rest
  <2>3. t \in ScanTodos => Tail(t) \in ScanTodos
    <3>1. CASE t = <<"attend", "status", "record">>
      <4>1. Tail(t) = Tail(<<"attend", "status", "record">>)
        BY <3>1
      <4>2. Tail(<<"attend", "status", "record">>) \in ScanTodos
        BY TodoFacts DEF ScanTodos
      <4> QED
        BY <4>1, <4>2
    <3>2. CASE t = <<"status", "record">>
      <4>1. Tail(t) = Tail(<<"status", "record">>)
        BY <3>2
      <4>2. Tail(<<"status", "record">>) \in ScanTodos
        BY TodoFacts DEF ScanTodos
      <4> QED
        BY <4>1, <4>2
    <3> QED
      BY <1>3, <3>1, <3>2 DEF ScanTodos
  <2>4. t \in BulkTodos => Tail(t) \in BulkTodos
    <3>1. CASE t = <<"record", "status", "attend">>
      <4>1. Tail(t) = Tail(<<"record", "status", "attend">>)
        BY <3>1
      <4>2. Tail(<<"record", "status", "attend">>) \in BulkTodos
        BY TodoFacts DEF BulkTodos
      <4> QED
        BY <4>1, <4>2
    <3>2. CASE t = <<"status", "attend">>
      <4>1. Tail(t) = Tail(<<"status", "attend">>)
        BY <3>2
      <4>2. Tail(<<"status", "attend">>) \in BulkTodos
        BY TodoFacts DEF BulkTodos
      <4> QED
        BY <4>1, <4>2
    <3> QED
      BY <1>3, <3>1, <3>2 DEF BulkTodos
  <2>5. PICK u \in BoundedSeq(Steps, 3) \ {<<>>} : u = Tail(t)
    BY <2>3, <2>4, TodoFacts
  <2>6. Rest(j) \in ScanJobs
    BY <2>2, <2>5 DEF ScanJobs
  <2> QED
    BY <1>1, <1>3, <2>2, <2>5, <2>6, <2>3, <2>4, JobKinds DEF ScanJobs
<1> QED
  BY <1>2, <1>3

\* A job whose reading is no longer what is there is otherwise the same.
LEMMA OutdateFacts ==
    ASSUME NEW e \in Desks, desk[e] \in DeskJobs
    PROVE  /\ Outdate(e) \in DeskJobs
           /\ Outdate(e) = Free <=> desk[e] = Free
           /\ desk[e] # Free =>
                 /\ Outdate(e).outdated
                 /\ Outdate(e).todo = desk[e].todo /\ Outdate(e).action = desk[e].action
                 /\ Outdate(e).by = desk[e].by /\ Outdate(e).success = desk[e].success
                 /\ Outdate(e).new = desk[e].new
                 /\ Outdate(e).sawCancelled = desk[e].sawCancelled
<1>1. CASE desk[e] = Free
  BY <1>1, JobKinds DEF Outdate
<1>2. CASE desk[e] # Free
  <2>1. PICK j \in ScanJobs : j = desk[e]
    BY <1>2, JobKinds
  <2>2. Outdate(e) = [j EXCEPT !.outdated = TRUE]
    BY <1>2, <2>1 DEF Outdate
  <2>3. [j EXCEPT !.outdated = TRUE] \in ScanJobs
    BY DEF ScanJobs
  <2> QED
    BY <1>2, <2>1, <2>2, <2>3, JobKinds DEF ScanJobs
<1> QED
  BY <1>1, <1>2

\* A step that leaves the log alone.
LEMMA LogSame ==
    ASSUME log' = log
    PROVE  /\ (IsCheckedIn(log))' <=> IsCheckedIn(log)
           /\ LastIn' <=> LastIn
           /\ RecordInv => RecordInv'
           /\ Successes' = Successes
<1>1. Successes' = Successes
  BY DEF Successes
<1> QED
  BY <1>1 DEF IsCheckedIn, LastIn, RecordInv

LEMMA AdmissionsSame ==
    ASSUME log' = log, RecordInv, SeenInv, AdmittedOnce, holes \subseteq holes'
    PROVE  RecordInv' /\ SeenInv' /\ AdmittedOnce'
<1>1. holes' \cap {"raced", "hidden"} = {} => holes \cap {"raced", "hidden"} = {}
  OBVIOUS
<1>2. /\ (IsCheckedIn(log))' <=> IsCheckedIn(log)
      /\ LastIn' <=> LastIn
      /\ RecordInv'
      /\ Successes' = Successes
  BY LogSame
<1>3. SeenInv'
  BY <1>1, <1>2 DEF SeenInv
<1>4. AdmittedOnce'
  BY <1>1, <1>2 DEF AdmittedOnce
<1> QED
  BY <1>2, <1>3, <1>4

\* A job that has yet to save the status is otherwise the same.
LEMMA AgainFacts ==
    ASSUME NEW j \in ScanJobs, NEW b \in BOOLEAN
    PROVE  LET k == [j EXCEPT !.again = b]
           IN  /\ k \in ScanJobs /\ k # Free /\ k.todo = j.todo
               /\ k.action = j.action /\ k.by = j.by /\ k.success = j.success /\ k.new = j.new
               /\ k.sawCancelled = j.sawCancelled /\ k.outdated = j.outdated
<1>1. [j EXCEPT !.again = b] \in ScanJobs
  BY DEF ScanJobs
<1> QED
  BY <1>1, JobKinds DEF ScanJobs

\* What a job leaves of itself, if anything.
Succeeds(r, j) ==
    r # Free =>
        /\ r.action = j.action /\ r.by = j.by /\ r.success = j.success /\ r.new = j.new
        /\ r.sawCancelled = j.sawCancelled /\ r.outdated = j.outdated
        /\ j.todo \in ScanTodos => r.todo \in ScanTodos
        /\ j.todo \in BulkTodos => r.todo \in BulkTodos

\* A request takes a step and leaves the log alone.
LEMMA DeskAdvances ==
    ASSUME CheckInTypeOK, DeskInv, NEW d \in Desks, desk[d] \in ScanJobs,
           NEW r \in DeskJobs, log' = log, desk' = [desk EXCEPT ![d] = r],
           Succeeds(r, desk[d])
    PROVE  /\ desk' \in [Desks -> DeskJobs] /\ DeskInv'
           /\ desk'[d] = r /\ \A e \in Desks \ {d} : desk'[e] = desk[e]
<1>1. desk \in [Desks -> DeskJobs]
  BY DEF CheckInTypeOK
<1>2. PICK j \in ScanJobs : j = desk[d]
  OBVIOUS
<1>4. desk' \in [Desks -> DeskJobs] /\ desk'[d] = r /\ \A e \in Desks \ {d} : desk'[e] = desk[e]
  BY <1>1
<1>5. (IsCheckedIn(log))' <=> IsCheckedIn(log)
  BY LogSame
<1>6. ASSUME NEW e \in Desks, desk'[e] # Free
      PROVE  /\ desk'[e].by = "scan" => desk'[e].todo \in ScanTodos
             /\ desk'[e].by = "bulk" => desk'[e].todo \in BulkTodos /\ desk'[e].success
             /\ desk'[e].success => desk'[e].new = StatusAfter(desk'[e].action)
             /\ desk'[e].sawCancelled => desk'[e].new = "CANCELLED"
             /\ desk'[e].by = "scan" /\ desk'[e].success /\ ~desk'[e].outdated =>
                    (desk'[e].action = "CHECK_IN") # IsCheckedIn(log)
  <2>1. CASE e # d
    BY <1>4, <1>6, <2>1 DEF DeskInv
  <2>2. CASE e = d
    <3>1. r # Free
      BY <1>4, <1>6, <2>2
    <3>2. /\ r.action = j.action /\ r.by = j.by /\ r.success = j.success /\ r.new = j.new
          /\ r.sawCancelled = j.sawCancelled /\ r.outdated = j.outdated
          /\ j.todo \in ScanTodos => r.todo \in ScanTodos
          /\ j.todo \in BulkTodos => r.todo \in BulkTodos
      BY <1>2, <3>1 DEF Succeeds
    <3>3. j # Free
      BY JobKinds
    <3>4. /\ j.by = "scan" => j.todo \in ScanTodos
          /\ j.by = "bulk" => j.todo \in BulkTodos /\ j.success
          /\ j.success => j.new = StatusAfter(j.action)
          /\ j.sawCancelled => j.new = "CANCELLED"
          /\ j.by = "scan" /\ j.success /\ ~j.outdated => (j.action = "CHECK_IN") # IsCheckedIn(log)
      BY <1>2, <3>3 DEF DeskInv
    <3> QED
      BY <1>4, <2>2, <3>2, <3>4
  <2> QED
    BY <2>1, <2>2
<1>7. DeskInv'
  BY <1>5, <1>6 DEF DeskInv, StatusAfter
<1> QED
  BY <1>4, <1>7

-----------------------------------------------------------------------------
(* CheckIn: the steps preserve the invariant.                               *)

\* The first step of a request: what it decided is so.
LEMMA StartKeeps ==
    ASSUME CheckInInv, NEW d \in Desks, NEW todo, NEW action \in Actions,
           NEW by \in {"scan", "bulk"}, NEW success \in BOOLEAN, NEW new \in Statuses,
           Start(d, todo, action, by, success, new),
           by = "scan" => todo \in ScanTodos,
           by = "bulk" => todo = <<"record", "status", "attend">> /\ success,
           success => new = StatusAfter(action),
           status = "CANCELLED" => new = "CANCELLED",
           by = "scan" /\ success =>
               /\ todo = <<"attend", "status", "record">>
               /\ (action = "CHECK_IN") # IsCheckedIn(log),
           by = "scan" /\ ~success =>
               /\ todo # <<"attend", "status", "record">>
               /\ todo # <<"record">> =>
                      new # "CHECKED_IN" /\ (new = "CHECKED_OUT" => ~IsCheckedIn(log))
    PROVE  CheckInInv'
<1> DEFINE j == [todo |-> todo, action |-> action, by |-> by, success |-> success, new |-> new,
                 again |-> FALSE, sawCancelled |-> status = "CANCELLED", outdated |-> FALSE]
<1>1. /\ CheckInTypeOK /\ DeskInv /\ RecordInv /\ SeenInv /\ AdmittedOnce /\ QuietInv
      /\ CancelledStaysOut
  BY DEF CheckInInv, AdmissionInv
<1>2. /\ desk[d] = Free /\ requests < MaxRequests /\ requests' = requests + 1
      /\ desk' = [desk EXCEPT ![d] = j] /\ holes' = holes \cup Mark("torn", Busy # {})
      /\ status' = status /\ ticket' = ticket /\ attendance' = attendance /\ log' = log
      /\ cancelLogged' = cancelLogged /\ barred' = barred
  BY DEF Start
<1>3. todo \in ScanTodos \cup BulkTodos
  BY DEF BulkTodos
<1>4. j \in ScanJobs
  <2>1. todo \in BoundedSeq(Steps, 3) \ {<<>>}
    BY <1>3, TodoFacts
  <2>2. PICK saw \in BOOLEAN : saw = (status = "CANCELLED")
    OBVIOUS
  <2> QED
    BY <2>1, <2>2 DEF ScanJobs
<1>5. PICK k \in ScanJobs : k = j
  BY <1>4
<1>6. /\ k.todo = todo /\ k.action = action /\ k.by = by /\ k.success = success /\ k.new = new
      /\ k.sawCancelled = (status = "CANCELLED") /\ k.outdated = FALSE
  BY <1>5
<1> HIDE DEF j
<1>7. k # Free
  BY JobKinds
<1>8. desk' \in [Desks -> DeskJobs] /\ desk'[d] = k /\ \A e \in Desks \ {d} : desk'[e] = desk[e]
  BY <1>1, <1>2, <1>5, JobKinds DEF CheckInTypeOK
<1>9. CheckInTypeOK'
  <2>1. requests' \in 0 .. MaxRequests
    BY <1>1, <1>2, MaxRequestsAssumption DEF CheckInTypeOK
  <2>2. holes' \subseteq Holes
    BY <1>1, <1>2 DEF CheckInTypeOK, Mark, Holes
  <2> QED
    BY <1>1, <1>2, <1>8, <2>1, <2>2 DEF CheckInTypeOK
<1>10. /\ (IsCheckedIn(log))' <=> IsCheckedIn(log)
       /\ LastIn' <=> LastIn
  BY <1>2, LogSame
<1>11. DeskInv'
  <2>1. ASSUME NEW e \in Desks, desk'[e] # Free
        PROVE  /\ desk'[e].by = "scan" => desk'[e].todo \in ScanTodos
               /\ desk'[e].by = "bulk" => desk'[e].todo \in BulkTodos /\ desk'[e].success
               /\ desk'[e].success => desk'[e].new = StatusAfter(desk'[e].action)
               /\ desk'[e].sawCancelled => desk'[e].new = "CANCELLED"
               /\ desk'[e].by = "scan" /\ desk'[e].success /\ ~desk'[e].outdated =>
                      (desk'[e].action = "CHECK_IN") # IsCheckedIn(log)
    <3>1. CASE e # d
      BY <1>1, <1>8, <2>1, <3>1 DEF DeskInv
    <3>2. CASE e = d
      BY <1>6, <1>8, <3>2 DEF BulkTodos
    <3> QED
      BY <3>1, <3>2
  <2> QED
    BY <1>2, <2>1 DEF DeskInv, StatusAfter
<1>12. RecordInv' /\ SeenInv' /\ AdmittedOnce'
  BY <1>1, <1>2, AdmissionsSame
<1>13. QuietInv'
  <2> SUFFICES ASSUME holes' \cap {"torn", "hidden"} = {}
               PROVE  /\ "raced" \notin holes'
                      /\ \A a, e \in Busy' : a = e
                      /\ Busy' = {} => Agree'
                      /\ \A e \in Busy' : ~desk'[e].outdated /\ (Phase(desk[e]))'
    BY DEF QuietInv
  <2>1. Busy = {} /\ holes' = holes
    BY <1>2 DEF Mark
  <2>2. "raced" \notin holes /\ Agree /\ holes \cap {"raced", "hidden"} = {}
    BY <1>1, <2>1 DEF QuietInv
  <2>3. Busy' = {d}
    BY <1>7, <1>8, <2>1 DEF Busy
  <2>4. Agree'
    BY <1>2, <1>10, <2>2 DEF Agree
  <2>5. todo # <<"record">> /\ by = "scan" /\ ~success /\ new = "CHECKED_OUT" => attendance # "CHECK_IN"
    BY <1>1, <2>2 DEF Agree, SeenInv
  <2>6. /\ by = "scan" /\ success => todo = <<"attend", "status", "record">>
        /\ by = "bulk" => todo = <<"record", "status", "attend">>
        /\ <<"attend", "status", "record">> # <<"record">>
        /\ <<"record", "status", "attend">> # <<"attend">>
    <3>1. Len(<<"attend", "status", "record">>) = 3 /\ Len(<<"record">>) = 1
      BY TodoFacts
    <3>2. Len(<<"record", "status", "attend">>) = 3 /\ Len(<<"attend">>) = 1
      BY TodoFacts
    <3> QED
      BY <3>1, <3>2
  <2>7. (Phase(desk[d]))'
    <3>1. by = "scan" /\ success => (ScanPhase(desk[d]))'
      BY <1>6, <1>8, <2>4, <2>6 DEF ScanPhase
    <3>2. by = "scan" /\ ~success => (RefusedPhase(desk[d]))' /\ todo # <<"attend", "status", "record">>
      BY <1>2, <1>6, <1>8, <2>4, <2>5 DEF RefusedPhase
    <3>3. by = "bulk" => (BulkPhase(desk[d]))'
      BY <1>6, <1>8, <2>4, <2>6 DEF BulkPhase
    <3> QED
      BY <1>6, <1>8, <3>1, <3>2, <3>3 DEF Phase
  <2>8. ~desk'[d].outdated
    BY <1>6, <1>8
  <2> QED
    BY <2>1, <2>2, <2>3, <2>7, <2>8
<1>14. CancelledStaysOut'
  BY <1>1, <1>2 DEF CancelledStaysOut
<1> QED
  BY <1>9, <1>11, <1>12, <1>13, <1>14 DEF CheckInInv, AdmissionInv
LEMMA ScanKeeps ==
    ASSUME CheckInInv, NEW d \in Desks, NEW action \in Actions, NEW byTicket \in BOOLEAN,
           Scan(d, action, byTicket)
    PROVE  CheckInInv'
<1> DEFINE result == ScanResult(action, byTicket)
           new    == StatusFor(action, result)
           writes == \/ result = "ALREADY_CHECKED_OUT"
                     \/ action = "CHECK_IN" /\ new = "CANCELLED"
           todo   == CASE result = "SUCCESS" -> <<"attend", "status", "record">>
                       [] result # "SUCCESS" /\ writes -> <<"status", "record">>
                       [] OTHER -> <<"record">>
<1>1. Start(d, todo, action, "scan", result = "SUCCESS", new)
  BY DEF Scan
<1>2. /\ status \in Statuses
      /\ IsCheckedIn(log) \in BOOLEAN
  BY DEF CheckInInv, CheckInTypeOK, IsCheckedIn
<1>3. PICK r : r = result
  OBVIOUS
<1>4. /\ r \in {"SUCCESS", "ALREADY_CHECKED_IN", "ALREADY_CHECKED_OUT", "CANCELLED_ATTENDEE",
                "CANCELLED_TICKET"}
      /\ status = "CANCELLED" => r = "CANCELLED_ATTENDEE"
      /\ r = "SUCCESS" => (action = "CHECK_IN") # IsCheckedIn(log)
      /\ r = "ALREADY_CHECKED_OUT" => action = "CHECK_OUT" /\ ~IsCheckedIn(log)
  BY <1>2, <1>3 DEF ScanResult, Actions
<1>5. PICK s : s = new
  OBVIOUS
<1>6. /\ s \in Statuses
      /\ r = "SUCCESS" => s = StatusAfter(action)
      /\ status = "CANCELLED" => s = "CANCELLED"
      /\ r = "ALREADY_CHECKED_OUT" => s = "CHECKED_OUT"
  BY <1>2, <1>3, <1>4, <1>5 DEF StatusFor, StatusAfter, Statuses, Actions
<1>7. PICK t : t = todo
  OBVIOUS
<1>8. /\ r = "SUCCESS" => t = <<"attend", "status", "record">>
      /\ r # "SUCCESS" => \/ t = <<"record">>
                          \/ t = <<"status", "record">> /\ s \in {"CHECKED_OUT", "CANCELLED"}
                             /\ (s = "CHECKED_OUT" => r = "ALREADY_CHECKED_OUT")
  <2>1. writes => r = "ALREADY_CHECKED_OUT" \/ s = "CANCELLED"
    BY <1>3, <1>5
  <2>2. r = "SUCCESS" => t = <<"attend", "status", "record">>
    BY <1>3, <1>7
  <2>3. r # "SUCCESS" /\ writes => t = <<"status", "record">>
    BY <1>3, <1>7
  <2>4. r # "SUCCESS" /\ ~writes => t = <<"record">>
    BY <1>3, <1>7
  <2> HIDE DEF writes
  <2> QED
    BY <1>6, <2>1, <2>2, <2>3, <2>4
<1>9. PICK b \in BOOLEAN : b = (r = "SUCCESS")
  OBVIOUS
<1>10. Start(d, t, action, "scan", b, s)
  BY <1>1, <1>3, <1>5, <1>7, <1>9
<1> HIDE DEF result, new, writes, todo
<1>11. t \in ScanTodos
  BY <1>8 DEF ScanTodos
<1>12. /\ <<"record">> # <<"attend", "status", "record">>
       /\ <<"status", "record">> # <<"attend", "status", "record">>
  <2>1. /\ Len(<<"attend", "status", "record">>) = 3 /\ Len(<<"record">>) = 1
        /\ Len(<<"status", "record">>) = 2
    BY TodoFacts
  <2> QED
    BY <2>1
<1> QED
  BY <1>4, <1>6, <1>8, <1>9, <1>10, <1>11, <1>12, StartKeeps

LEMMA BulkKeeps ==
    ASSUME CheckInInv, NEW d \in Desks, NEW action \in Actions, Bulk(d, action)
    PROVE  CheckInInv'
<1>1. /\ status # "CANCELLED"
      /\ Start(d, <<"record", "status", "attend">>, action, "bulk", TRUE, StatusAfter(action))
  BY DEF Bulk
<1>2. PICK s \in Statuses : s = StatusAfter(action)
  BY DEF StatusAfter, Statuses
<1>3. PICK t : t = <<"record", "status", "attend">>
  OBVIOUS
<1>4. Start(d, t, action, "bulk", TRUE, s)
  BY <1>1, <1>2, <1>3
<1> QED
  BY <1>1, <1>2, <1>3, <1>4, StartKeeps

LEMMA TodosDiffer ==
    /\ <<"attend">> \notin ScanTodos
    /\ <<"record">> \notin BulkTodos
    /\ <<"status", "record">> \notin BulkTodos
    /\ <<"status", "attend">> \notin ScanTodos
    /\ <<"attend", "status", "record">> \notin BulkTodos
    /\ <<"record", "status", "attend">> \notin ScanTodos
    /\ <<"status", "record">> # <<"attend", "status", "record">>
    /\ <<"record">> # <<"attend", "status", "record">>
    /\ <<"status", "record">> # <<"record">>
    /\ <<"status", "attend">> # <<"record", "status", "attend">>
    /\ <<"attend">> # <<"record", "status", "attend">>
    /\ <<"status", "attend">> # <<"attend">>
<1>1. /\ Len(<<"attend", "status", "record">>) = 3 /\ Head(<<"attend", "status", "record">>) = "attend"
      /\ Len(<<"record", "status", "attend">>) = 3 /\ Head(<<"record", "status", "attend">>) = "record"
      /\ Len(<<"status", "record">>) = 2 /\ Tail(<<"status", "record">>) = <<"record">>
      /\ Len(<<"status", "attend">>) = 2 /\ Tail(<<"status", "attend">>) = <<"attend">>
      /\ Len(<<"record">>) = 1 /\ Head(<<"record">>) = "record"
      /\ Len(<<"attend">>) = 1 /\ Head(<<"attend">>) = "attend"
  BY TodoFacts
<1>2. <<"record">> # <<"attend">>
  BY <1>1
<1>3. <<"status", "record">> # <<"status", "attend">>
  BY <1>1, <1>2
<1> QED
  BY <1>1, <1>2, <1>3 DEF ScanTodos, BulkTodos

\* What a request has left to do, by who makes it and the step it takes.
LEMMA Remaining ==
    ASSUME CheckInTypeOK, DeskInv, NEW d \in Desks, NEW step \in Steps, Does(d, step),
           log' = log, NEW b \in BOOLEAN,
           desk' = [desk EXCEPT ![d] = IF desk[d].by = "scan" /\ step = "attend"
                                       THEN [Rest(desk[d]) EXCEPT !.again = b]
                                       ELSE Rest(desk[d])]
    PROVE  /\ DeskInv' /\ desk' \in [Desks -> DeskJobs]
           /\ desk[d] \in ScanJobs /\ desk[d] # Free
           /\ \A e \in Desks \ {d} : desk'[e] = desk[e]
           /\ desk'[d] # Free =>
                 /\ desk'[d].action = desk[d].action /\ desk'[d].by = desk[d].by
                 /\ desk'[d].success = desk[d].success /\ desk'[d].new = desk[d].new
                 /\ desk'[d].outdated = desk[d].outdated
           /\ desk[d].by = "scan" =>
                 /\ step = "attend" => /\ desk[d].todo = <<"attend", "status", "record">>
                                       /\ desk'[d].todo = <<"status", "record">>
                                       /\ desk'[d] # Free
                 /\ step = "status" => /\ desk[d].todo = <<"status", "record">>
                                       /\ desk'[d].todo = <<"record">>
                                       /\ desk'[d] # Free
           /\ desk[d].by = "bulk" =>
                 /\ step = "status" => /\ desk[d].todo = <<"status", "attend">>
                                       /\ desk'[d].todo = <<"attend">>
                                       /\ desk'[d] # Free
                 /\ step = "attend" => /\ desk[d].todo = <<"attend">>
                                       /\ desk'[d] = Free
           /\ desk[d].by \in {"scan", "bulk"} /\ (desk[d].by = "bulk" => desk[d].success)
<1>1. /\ desk[d] \in ScanJobs /\ desk[d] # Free
      /\ desk[d].todo \in Todos(step) \cap (ScanTodos \cup BulkTodos)
      /\ desk[d].by = "scan" => desk[d].todo \in ScanTodos
      /\ desk[d].by = "bulk" => desk[d].todo \in BulkTodos /\ desk[d].success
      /\ desk[d].by \in {"scan", "bulk"}
  BY StepFacts
<1>3. PICK j \in ScanJobs : j = desk[d]
  BY <1>1
<1>5. /\ Rest(j) \in DeskJobs
      /\ j.todo \in {<<"record">>, <<"attend">>} => Rest(j) = Free
      /\ j.todo \notin {<<"record">>, <<"attend">>} =>
            /\ Rest(j) \in ScanJobs /\ Rest(j) # Free /\ Rest(j).todo = Tail(j.todo)
            /\ j.todo \in ScanTodos => Rest(j).todo \in ScanTodos
            /\ j.todo \in BulkTodos => Rest(j).todo \in BulkTodos
            /\ Rest(j).action = j.action /\ Rest(j).by = j.by
            /\ Rest(j).success = j.success /\ Rest(j).new = j.new
            /\ Rest(j).sawCancelled = j.sawCancelled /\ Rest(j).outdated = j.outdated
  BY <1>1, <1>3, RestFacts
<1>6. ASSUME j.by = "scan", step = "attend"
      PROVE  j.todo = <<"attend", "status", "record">> /\ Tail(j.todo) = <<"status", "record">>
  <2>1. j.todo = <<"attend", "status", "record">>
    BY <1>1, <1>3, <1>6, TodosDiffer DEF Todos
  <2> QED
    BY <2>1, TodoFacts
<1>7. ASSUME j.by = "scan", step = "status"
      PROVE  j.todo = <<"status", "record">> /\ Tail(j.todo) = <<"record">>
  <2>1. j.todo = <<"status", "record">>
    BY <1>1, <1>3, <1>7, TodosDiffer DEF Todos
  <2> QED
    BY <2>1, TodoFacts
<1>8. ASSUME j.by = "bulk", step = "status"
      PROVE  j.todo = <<"status", "attend">> /\ Tail(j.todo) = <<"attend">>
  <2>1. j.todo = <<"status", "attend">>
    BY <1>1, <1>3, <1>8, TodosDiffer DEF Todos
  <2> QED
    BY <2>1, TodoFacts
<1>9. ASSUME j.by = "bulk", step = "attend" PROVE j.todo = <<"attend">>
  BY <1>1, <1>3, <1>9, TodosDiffer DEF Todos
<1>10. /\ <<"attend", "status", "record">> \notin {<<"record">>, <<"attend">>}
       /\ <<"status", "record">> \notin {<<"record">>, <<"attend">>}
       /\ <<"status", "attend">> \notin {<<"record">>, <<"attend">>}
  BY TodosDiffer DEF ScanTodos, BulkTodos
<1>14. PICK r : r = IF j.by = "scan" /\ step = "attend"
                    THEN [Rest(j) EXCEPT !.again = b] ELSE Rest(j)
  OBVIOUS
<1>15. /\ r \in DeskJobs
       /\ r = Free <=> Rest(j) = Free
       /\ r # Free =>
             /\ r.todo = Rest(j).todo
             /\ r.action = j.action /\ r.by = j.by /\ r.success = j.success /\ r.new = j.new
             /\ r.sawCancelled = j.sawCancelled /\ r.outdated = j.outdated
  <2>1. CASE j.by = "scan" /\ step = "attend"
    <3>1. PICK k \in ScanJobs : k = Rest(j)
      BY <1>5, <1>6, <1>10, <2>1
    <3>2. r = [k EXCEPT !.again = b]
      BY <1>14, <2>1, <3>1
    <3> QED
      BY <1>5, <1>6, <1>10, <2>1, <3>1, <3>2, AgainFacts, JobKinds
  <2>2. CASE ~(j.by = "scan" /\ step = "attend")
    <3>1. r = Rest(j)
      BY <1>14, <2>2
    <3> QED
      BY <1>5, <3>1
  <2> QED
    BY <2>1, <2>2
<1>2. /\ desk' \in [Desks -> DeskJobs] /\ DeskInv'
      /\ desk'[d] = r /\ \A e \in Desks \ {d} : desk'[e] = desk[e]
  <2>1. Succeeds(r, desk[d])
    BY <1>3, <1>5, <1>15 DEF Succeeds
  <2>2. desk' = [desk EXCEPT ![d] = r]
    BY <1>3, <1>14
  <2>3. r \in DeskJobs
    BY <1>15
  <2> QED
    BY <1>3, <2>1, <2>2, <2>3, DeskAdvances
<1>11. desk'[d] # Free => /\ desk'[d].action = j.action /\ desk'[d].by = j.by
                          /\ desk'[d].success = j.success /\ desk'[d].new = j.new
                          /\ desk'[d].outdated = j.outdated
  BY <1>2, <1>5, <1>15
<1>12. j.by = "scan" => /\ step = "attend" => /\ j.todo = <<"attend", "status", "record">>
                                              /\ desk'[d].todo = <<"status", "record">>
                                              /\ desk'[d] # Free
                        /\ step = "status" => /\ j.todo = <<"status", "record">>
                                              /\ desk'[d].todo = <<"record">>
                                              /\ desk'[d] # Free
  BY <1>2, <1>5, <1>6, <1>7, <1>10, <1>15
<1>13. j.by = "bulk" => /\ step = "status" => /\ j.todo = <<"status", "attend">>
                                              /\ desk'[d].todo = <<"attend">>
                                              /\ desk'[d] # Free
                        /\ step = "attend" => j.todo = <<"attend">> /\ desk'[d] = Free
  BY <1>2, <1>5, <1>8, <1>9, <1>10, <1>15
<1> QED
  BY <1>1, <1>2, <1>3, <1>11, <1>12, <1>13

\* Writing a status, by a request that had seen a cancellation or had not.
LEMMA WritesStatus ==
    ASSUME CheckInTypeOK, CancelledStaysOut, NEW j \in ScanJobs, WriteStatus(j),
           j.sawCancelled => j.new = "CANCELLED"
    PROVE  /\ CancelledStaysOut' /\ status' = j.new /\ status' \in Statuses
           /\ barred' \in BOOLEAN /\ holes' \subseteq Holes
           /\ holes \subseteq holes' /\ holes' \subseteq holes \cup {"overtaken"}
<1>1. /\ status' = j.new /\ barred' = (barred \/ j.new = "CANCELLED")
      /\ holes' = holes \cup Mark("overtaken", Overtakes(j))
  BY DEF WriteStatus
<1>2. /\ holes \subseteq holes' /\ holes' \subseteq holes \cup {"overtaken"}
      /\ Overtakes(j) => "overtaken" \in holes'
  BY <1>1 DEF Mark
<1>3. j.new \in Statuses /\ j.sawCancelled \in BOOLEAN
  BY DEF ScanJobs
<1>4. status = "CANCELLED" /\ j.new # "CANCELLED" => Overtakes(j)
  BY DEF Overtakes
<1>5. CancelledStaysOut'
  BY <1>1, <1>2, <1>4 DEF CancelledStaysOut
<1>6. barred' \in BOOLEAN /\ holes' \subseteq Holes
  BY <1>1, <1>2 DEF CheckInTypeOK, Holes
<1> QED
  BY <1>1, <1>2, <1>3, <1>5, <1>6

LEMMA AttendKeeps ==
    ASSUME CheckInInv, NEW d \in Desks, Attend(d)
    PROVE  CheckInInv'
<1>1. /\ CheckInTypeOK /\ DeskInv /\ RecordInv /\ SeenInv /\ AdmittedOnce /\ QuietInv
      /\ CancelledStaysOut
  BY DEF CheckInInv, AdmissionInv
<1> DEFINE found == \/ desk[d].by = "bulk" \/ desk[d].action = "CHECK_IN"
                    \/ attendance # "no row"
<1>2. /\ Does(d, "attend")
      /\ desk' = [desk EXCEPT ![d] = IF desk[d].by = "scan"
                                     THEN [Rest(desk[d]) EXCEPT !.again = found]
                                     ELSE Rest(desk[d])]
      /\ attendance' = IF found THEN desk[d].action ELSE attendance
      /\ status' = status /\ ticket' = ticket /\ log' = log /\ cancelLogged' = cancelLogged
      /\ requests' = requests /\ barred' = barred /\ holes' = holes
  BY DEF Attend, NewTime
<1>12. PICK b \in BOOLEAN : b = found
  OBVIOUS
<1>3. /\ DeskInv' /\ desk' \in [Desks -> DeskJobs]
      /\ desk[d] \in ScanJobs /\ desk[d] # Free
      /\ \A e \in Desks \ {d} : desk'[e] = desk[e]
      /\ desk'[d] # Free =>
            /\ desk'[d].action = desk[d].action /\ desk'[d].by = desk[d].by
            /\ desk'[d].success = desk[d].success /\ desk'[d].new = desk[d].new
            /\ desk'[d].outdated = desk[d].outdated
      /\ desk[d].by = "scan" => /\ desk[d].todo = <<"attend", "status", "record">>
                                /\ desk'[d].todo = <<"status", "record">>
                                /\ desk'[d] # Free
      /\ desk[d].by = "bulk" => desk[d].todo = <<"attend">> /\ desk'[d] = Free
      /\ desk[d].by \in {"scan", "bulk"} /\ (desk[d].by = "bulk" => desk[d].success)
  <2> HIDE DEF found
  <2>1. desk' = [desk EXCEPT ![d] = IF desk[d].by = "scan" /\ "attend" = "attend"
                                    THEN [Rest(desk[d]) EXCEPT !.again = b]
                                    ELSE Rest(desk[d])]
    BY <1>2, <1>12
  <2> QED
    BY <1>1, <1>2, <2>1, Remaining DEF Steps
<1>4. PICK j \in ScanJobs : j = desk[d]
  BY <1>3
<1>5. j.action \in Actions /\ j.by \in {"scan", "bulk"} /\ (j.sawCancelled => j.new = "CANCELLED")
  BY <1>1, <1>3, <1>4 DEF DeskInv, ScanJobs
<1>6. \/ attendance' = j.action
      \/ j.by = "scan" /\ j.action = "CHECK_OUT" /\ attendance' = attendance
         /\ attendance = "no row"
  BY <1>2, <1>4, <1>5 DEF Actions
<1>7. CancelledStaysOut'
  BY <1>1, <1>2 DEF CancelledStaysOut
<1>8. attendance' \in Attendances
  BY <1>1, <1>5, <1>6 DEF CheckInTypeOK, Attendances
<1>9. CheckInTypeOK'
  BY <1>1, <1>2, <1>3, <1>8 DEF CheckInTypeOK
<1>10. RecordInv' /\ SeenInv' /\ AdmittedOnce'
  BY <1>1, <1>2, AdmissionsSame
<1>11. QuietInv'
  <2> SUFFICES ASSUME holes' \cap {"torn", "hidden"} = {}
               PROVE  /\ "raced" \notin holes'
                      /\ \A a, e \in Busy' : a = e
                      /\ Busy' = {} => Agree'
                      /\ \A e \in Busy' : ~desk'[e].outdated /\ (Phase(desk[e]))'
    BY DEF QuietInv
  <2>1. holes \cap {"torn", "hidden"} = {}
    BY <1>2
  <2>2. /\ "raced" \notin holes /\ \A a, e \in Busy : a = e
        /\ ~j.outdated /\ Phase(j) /\ d \in Busy
    BY <1>1, <1>3, <1>4, <2>1 DEF QuietInv, Busy
  <2>3. "raced" \notin holes'
    BY <1>2, <2>2
  <2>4. Busy' \subseteq {d} /\ (desk'[d] # Free <=> d \in Busy')
    BY <1>3, <2>2 DEF Busy
  <2>5. LastIn' <=> LastIn
    BY <1>2, LogSame
  <2>6. CASE j.by = "scan"
    <3>1. j.success /\ desk'[d] # Free /\ desk'[d].todo = <<"status", "record">>
      BY <1>3, <1>4, <2>2, <2>6 DEF Phase
    <3>2. attendance' = "CHECK_IN" <=> j.action = "CHECK_IN"
      BY <1>5, <1>6, <2>6 DEF Actions
    <3>3. (Phase(desk[d]))'
      BY <1>3, <1>4, <2>6, <3>1, <3>2, TodosDiffer DEF Phase, ScanPhase
    <3> QED
      BY <1>3, <1>4, <2>2, <2>3, <2>4, <3>1, <3>3
  <2>7. CASE j.by = "bulk"
    <3>1. Busy' = {}
      BY <1>3, <1>4, <2>4, <2>7
    <3>2. (LastIn <=> j.action = "CHECK_IN") /\ Suits(j.action)
      BY <1>3, <1>4, <2>2, <2>7, TodosDiffer DEF Phase, BulkPhase
    <3>3. Agree'
      BY <1>2, <1>5, <1>6, <2>5, <2>7, <3>2 DEF Agree, Suits, Actions
    <3> QED
      BY <2>3, <3>1, <3>3
  <2> QED
    BY <1>5, <2>6, <2>7
<1> QED
  BY <1>3, <1>7, <1>9, <1>10, <1>11 DEF CheckInInv, AdmissionInv

LEMMA MarkStatusKeeps ==
    ASSUME CheckInInv, NEW d \in Desks, MarkStatus(d)
    PROVE  CheckInInv'
<1>1. /\ CheckInTypeOK /\ DeskInv /\ RecordInv /\ SeenInv /\ AdmittedOnce /\ QuietInv
      /\ CancelledStaysOut
  BY DEF CheckInInv, AdmissionInv
<1>2. /\ Does(d, "status") /\ desk' = [desk EXCEPT ![d] = [@ EXCEPT !.again = FALSE]]
      /\ WriteStatus(desk[d]) /\ attendance' = attendance
      /\ ticket' = ticket /\ log' = log /\ cancelLogged' = cancelLogged /\ requests' = requests
  BY DEF MarkStatus
<1>a. /\ desk[d] \in ScanJobs /\ desk[d] # Free
      /\ desk[d].todo \in Todos("status") \cap (ScanTodos \cup BulkTodos)
      /\ desk[d].by = "scan" => desk[d].todo \in ScanTodos
      /\ desk[d].by = "bulk" => desk[d].todo \in BulkTodos /\ desk[d].success
      /\ desk[d].by \in {"scan", "bulk"}
  BY <1>1, <1>2, StepFacts DEF Steps
<1>4. PICK j \in ScanJobs : j = desk[d]
  BY <1>a
<1>b. PICK k \in ScanJobs : /\ k = [j EXCEPT !.again = FALSE] /\ k # Free /\ k.todo = j.todo
                            /\ k.action = j.action /\ k.by = j.by /\ k.success = j.success
                            /\ k.new = j.new /\ k.sawCancelled = j.sawCancelled
                            /\ k.outdated = j.outdated
  BY AgainFacts
<1>3. /\ DeskInv' /\ desk' \in [Desks -> DeskJobs]
      /\ desk'[d] = k /\ \A e \in Desks \ {d} : desk'[e] = desk[e]
      /\ j.by = "scan" => j.todo = <<"status", "record">>
      /\ j.by = "bulk" => j.todo = <<"status", "attend">>
  <2>1. desk' = [desk EXCEPT ![d] = k] /\ k \in DeskJobs /\ Succeeds(k, desk[d])
    BY <1>2, <1>4, <1>b, JobKinds DEF Succeeds
  <2>2. /\ DeskInv' /\ desk' \in [Desks -> DeskJobs]
        /\ desk'[d] = k /\ \A e \in Desks \ {d} : desk'[e] = desk[e]
    BY <1>1, <1>2, <1>a, <2>1, DeskAdvances
  <2> QED
    BY <1>4, <1>a, <2>2, TodosDiffer DEF Todos
<1>5. /\ j.action \in Actions /\ j.by \in {"scan", "bulk"} /\ (j.sawCancelled => j.new = "CANCELLED")
      /\ j.success => j.new = StatusAfter(j.action)
  BY <1>1, <1>4, <1>a DEF DeskInv, ScanJobs
<1>6. WriteStatus(j)
  BY <1>2, <1>4
<1>7. /\ CancelledStaysOut' /\ status' = j.new /\ status' \in Statuses /\ barred' \in BOOLEAN
      /\ holes' \subseteq Holes /\ holes \subseteq holes' /\ holes' \subseteq holes \cup {"overtaken"}
  BY <1>1, <1>5, <1>6, WritesStatus
<1>8. CheckInTypeOK'
  BY <1>1, <1>2, <1>3, <1>7 DEF CheckInTypeOK
<1>9. RecordInv' /\ SeenInv' /\ AdmittedOnce'
  BY <1>1, <1>2, <1>7, AdmissionsSame
<1>10. QuietInv'
  <2> SUFFICES ASSUME holes' \cap {"torn", "hidden"} = {}
               PROVE  /\ "raced" \notin holes'
                      /\ \A a, e \in Busy' : a = e
                      /\ Busy' = {} => Agree'
                      /\ \A e \in Busy' : ~desk'[e].outdated /\ (Phase(desk[e]))'
    BY DEF QuietInv
  <2>1. holes \cap {"torn", "hidden"} = {}
    BY <1>7
  <2>2. /\ "raced" \notin holes /\ \A a, e \in Busy : a = e
        /\ ~j.outdated /\ Phase(j) /\ d \in Busy
    BY <1>1, <1>4, <1>a, <2>1 DEF QuietInv, Busy
  <2>3. "raced" \notin holes'
    BY <1>7, <2>2
  <2>4. Busy' = {d}
    BY <1>3, <1>b, <2>2 DEF Busy
  <2>5. LastIn' <=> LastIn
    BY <1>2, LogSame
  <2>6. j.success => (Suits(j.action))'
    BY <1>5, <1>7 DEF Suits, StatusAfter, Actions
  <2>7. CASE j.by = "scan" /\ j.success
    <3>1. attendance = "CHECK_IN" <=> j.action = "CHECK_IN"
      BY <1>3, <2>2, <2>7, TodosDiffer DEF Phase, ScanPhase
    <3>2. (ScanPhase(desk[d]))'
      BY <1>2, <1>3, <1>b, <2>7, <3>1, TodosDiffer DEF ScanPhase
    <3>3. (Phase(desk[d]))'
      BY <1>3, <1>b, <2>7, <3>2 DEF Phase
    <3> QED
      BY <1>3, <1>b, <2>2, <2>3, <2>4, <3>3
  <2>8. CASE j.by = "scan" /\ ~j.success
    <3>1. /\ Agree
          /\ j.new # "CHECKED_IN" /\ (j.new = "CHECKED_OUT" => attendance # "CHECK_IN")
      BY <1>3, <2>2, <2>8, TodosDiffer DEF Phase, RefusedPhase
    <3>2. Agree'
      BY <1>2, <1>7, <2>5, <3>1 DEF Agree
    <3>3. (RefusedPhase(desk[d]))'
      BY <1>2, <1>3, <1>b, <3>1, <3>2 DEF RefusedPhase
    <3>4. (Phase(desk[d]))'
      BY <1>3, <1>b, <2>8, <3>3, TodosDiffer DEF Phase
    <3> QED
      BY <1>3, <1>b, <2>2, <2>3, <2>4, <3>4
  <2>9. CASE j.by = "bulk"
    <3>1. LastIn <=> j.action = "CHECK_IN"
      BY <1>3, <2>2, <2>9, TodosDiffer DEF Phase, BulkPhase
    <3>2. (BulkPhase(desk[d]))'
      BY <1>3, <1>b, <2>5, <2>9, <3>1, TodosDiffer DEF BulkPhase
    <3>3. (Phase(desk[d]))'
      BY <1>3, <1>b, <2>9, <3>2 DEF Phase
    <3> QED
      BY <1>3, <1>b, <2>2, <2>3, <2>4, <3>3
  <2> QED
    BY <1>5, <2>7, <2>8, <2>9
<1> QED
  BY <1>3, <1>7, <1>8, <1>9, <1>10 DEF CheckInInv, AdmissionInv

LEMMA SaveStatusKeeps ==
    ASSUME CheckInInv, NEW d \in Desks, SaveStatus(d)
    PROVE  CheckInInv'
<1>1. /\ CheckInTypeOK /\ DeskInv /\ RecordInv /\ SeenInv /\ AdmittedOnce /\ QuietInv
      /\ CancelledStaysOut
  BY DEF CheckInInv, AdmissionInv
<1>2. /\ Does(d, "status") /\ desk' = [desk EXCEPT ![d] = Rest(desk[d])]
      /\ WriteStatus(desk[d]) /\ attendance' = attendance
      /\ ticket' = ticket /\ log' = log /\ cancelLogged' = cancelLogged /\ requests' = requests
  BY DEF SaveStatus, Advance
<1>3. /\ DeskInv' /\ desk' \in [Desks -> DeskJobs]
      /\ desk[d] \in ScanJobs /\ desk[d] # Free
      /\ \A e \in Desks \ {d} : desk'[e] = desk[e]
      /\ desk'[d] # Free =>
            /\ desk'[d].action = desk[d].action /\ desk'[d].by = desk[d].by
            /\ desk'[d].success = desk[d].success /\ desk'[d].new = desk[d].new
            /\ desk'[d].outdated = desk[d].outdated
      /\ desk[d].by = "scan" => /\ desk[d].todo = <<"status", "record">>
                                /\ desk'[d].todo = <<"record">>
                                /\ desk'[d] # Free
      /\ desk[d].by = "bulk" => /\ desk[d].todo = <<"status", "attend">>
                                /\ desk'[d].todo = <<"attend">>
                                /\ desk'[d] # Free
      /\ desk[d].by \in {"scan", "bulk"} /\ (desk[d].by = "bulk" => desk[d].success)
  <2>1. desk' = [desk EXCEPT ![d] = IF desk[d].by = "scan" /\ "status" = "attend"
                                    THEN [Rest(desk[d]) EXCEPT !.again = FALSE]
                                    ELSE Rest(desk[d])]
    BY <1>2
  <2> QED
    BY <1>1, <1>2, <2>1, Remaining DEF Steps
<1>4. PICK j \in ScanJobs : j = desk[d]
  BY <1>3
<1>5. /\ j.action \in Actions /\ j.by \in {"scan", "bulk"} /\ (j.sawCancelled => j.new = "CANCELLED")
      /\ j.success => j.new = StatusAfter(j.action)
  BY <1>1, <1>3, <1>4 DEF DeskInv, ScanJobs
<1>6. WriteStatus(j)
  BY <1>2, <1>4
<1>7. /\ CancelledStaysOut' /\ status' = j.new /\ status' \in Statuses /\ barred' \in BOOLEAN
      /\ holes' \subseteq Holes /\ holes \subseteq holes' /\ holes' \subseteq holes \cup {"overtaken"}
  BY <1>1, <1>5, <1>6, WritesStatus
<1>8. CheckInTypeOK'
  BY <1>1, <1>2, <1>3, <1>7 DEF CheckInTypeOK
<1>9. RecordInv' /\ SeenInv' /\ AdmittedOnce'
  BY <1>1, <1>2, <1>7, AdmissionsSame
<1>10. QuietInv'
  <2> SUFFICES ASSUME holes' \cap {"torn", "hidden"} = {}
               PROVE  /\ "raced" \notin holes'
                      /\ \A a, e \in Busy' : a = e
                      /\ Busy' = {} => Agree'
                      /\ \A e \in Busy' : ~desk'[e].outdated /\ (Phase(desk[e]))'
    BY DEF QuietInv
  <2>1. holes \cap {"torn", "hidden"} = {}
    BY <1>7
  <2>2. /\ "raced" \notin holes /\ \A a, e \in Busy : a = e
        /\ ~j.outdated /\ Phase(j) /\ d \in Busy
    BY <1>1, <1>3, <1>4, <2>1 DEF QuietInv, Busy
  <2>3. "raced" \notin holes'
    BY <1>7, <2>2
  <2>4. Busy' = {d}
    BY <1>3, <2>2 DEF Busy
  <2>5. LastIn' <=> LastIn
    BY <1>2, LogSame
  <2>6. j.success => (Suits(j.action))'
    BY <1>5, <1>7 DEF Suits, StatusAfter, Actions
  <2>7. CASE j.by = "scan" /\ j.success
    <3>1. desk'[d].todo = <<"record">> /\ (attendance = "CHECK_IN" <=> j.action = "CHECK_IN")
      BY <1>3, <1>4, <2>2, <2>7, TodosDiffer DEF Phase, ScanPhase
    <3>2. (ScanPhase(desk[d]))'
      BY <1>2, <1>3, <1>4, <2>6, <2>7, <3>1, TodosDiffer DEF ScanPhase, Suits
    <3>3. (Phase(desk[d]))'
      BY <1>3, <1>4, <2>7, <3>2 DEF Phase
    <3> QED
      BY <1>3, <1>4, <2>2, <2>3, <2>4, <3>3
  <2>8. CASE j.by = "scan" /\ ~j.success
    <3>1. /\ desk'[d].todo = <<"record">> /\ Agree
          /\ j.new # "CHECKED_IN" /\ (j.new = "CHECKED_OUT" => attendance # "CHECK_IN")
      BY <1>3, <1>4, <2>2, <2>8, TodosDiffer DEF Phase, RefusedPhase
    <3>2. Agree'
      BY <1>2, <1>7, <2>5, <3>1 DEF Agree
    <3>3. (Phase(desk[d]))'
      BY <1>3, <1>4, <2>8, <3>1, <3>2, TodosDiffer DEF Phase, RefusedPhase
    <3> QED
      BY <1>3, <1>4, <2>2, <2>3, <2>4, <3>3
  <2>9. CASE j.by = "bulk"
    <3>1. /\ desk'[d].todo = <<"attend">> /\ j.success
          /\ LastIn <=> j.action = "CHECK_IN"
      BY <1>3, <1>4, <2>2, <2>9, TodosDiffer DEF Phase, BulkPhase
    <3>2. (BulkPhase(desk[d]))'
      BY <1>3, <1>4, <2>5, <2>6, <2>9, <3>1, TodosDiffer DEF BulkPhase, Suits
    <3>3. (Phase(desk[d]))'
      BY <1>3, <1>4, <2>9, <3>2 DEF Phase
    <3> QED
      BY <1>3, <1>4, <2>2, <2>3, <2>4, <3>3
  <2> QED
    BY <1>5, <2>7, <2>8, <2>9
<1> QED
  BY <1>3, <1>7, <1>8, <1>9, <1>10 DEF CheckInInv, AdmissionInv

\* What a record adds to the log.
LEMMA LogGrows ==
    ASSUME log \in Seq(Records), NEW r \in Records, log' = Append(log, r)
    PROVE  /\ log' \in Seq(Records)
           /\ Successes \in Seq(Records)
           /\ r.success => Successes' = Append(Successes, r)
           /\ ~r.success => Successes' = Successes
           /\ IsCheckedIn(log') <=> r.action = "CHECK_IN" /\ r.snapshot = "CHECKED_IN"
           /\ r.success => (LastIn' <=> r.action = "CHECK_IN")
           /\ ~r.success => (LastIn' <=> LastIn)
           /\ RecordInv /\ (r.success /\ r.action = "CHECK_IN" => r.snapshot = "CHECKED_IN")
                 => RecordInv'
<1>1. /\ log' \in Seq(Records) /\ log' # <<>> /\ Len(log') = Len(log) + 1
      /\ \A i \in 1 .. Len(log) : log'[i] = log[i]
      /\ log'[Len(log) + 1] = r
      /\ Len(log) \in Nat
  BY AppendProperties, LenProperties
<1>2. Last(log') = r
  BY <1>1 DEF Last
<1>3. IsCheckedIn(log') <=> r.action = "CHECK_IN" /\ r.snapshot = "CHECKED_IN"
  BY <1>1, <1>2 DEF IsCheckedIn
<1> DEFINE S == {q \in Records : q.success}
<1>4. Those(log, S) \in Seq(Records) /\ Successes = Those(log, S) /\ Successes' = Those(log', S)
  BY ThoseFacts DEF Successes
<1>5. Those(log', S) = IF r \in S THEN Append(Those(log, S), r) ELSE Those(log, S)
  <2> HIDE DEF S
  <2> QED
    BY ThoseAppend
<1>6. r \in S <=> r.success
  OBVIOUS
<1>7. /\ r.success => Successes' = Append(Successes, r)
      /\ ~r.success => Successes' = Successes
      /\ Successes \in Seq(Records)
  <2> HIDE DEF S
  <2> QED
    BY <1>4, <1>5, <1>6
<1>8. r.success => (LastIn' <=> r.action = "CHECK_IN")
  <2> SUFFICES ASSUME r.success PROVE LastIn' <=> r.action = "CHECK_IN"
    OBVIOUS
  <2>1. PICK t \in Seq(Records) : t = Append(Successes, r)
    BY <1>7, AppendProperties
  <2>2. t # <<>> /\ Len(t) = Len(Successes) + 1 /\ t[Len(Successes) + 1] = r
    BY <1>7, <2>1, AppendProperties
  <2>3. Last(t) = r
    BY <2>2 DEF Last
  <2>4. Successes' = t
    BY <1>7, <2>1
  <2> QED
    BY <2>2, <2>3, <2>4 DEF LastIn
<1>9. ~r.success => (LastIn' <=> LastIn)
  BY <1>7 DEF LastIn
<1>10. RecordInv /\ (r.success /\ r.action = "CHECK_IN" => r.snapshot = "CHECKED_IN") => RecordInv'
  BY <1>1 DEF RecordInv
<1> QED
  BY <1>1, <1>3, <1>7, <1>8, <1>9, <1>10

\* An admission by a scan comes after a departure.
LEMMA AdmissionGrows ==
    ASSUME log \in Seq(Records), NEW r \in Records, log' = Append(log, r),
           holes \subseteq holes', AdmittedOnce,
           holes' \cap {"raced", "hidden"} = {} /\ r.success /\ r.by = "scan" =>
               (LastIn => r.action # "CHECK_IN")
    PROVE  AdmittedOnce'
<1>1. /\ Successes \in Seq(Records)
      /\ r.success => Successes' = Append(Successes, r)
      /\ ~r.success => Successes' = Successes
  BY LogGrows
<1> SUFFICES ASSUME holes' \cap {"raced", "hidden"} = {}, NEW i \in 1 .. Len(Successes') - 1,
                    Successes'[i].action = "CHECK_IN",
                    Successes'[i + 1].action = "CHECK_IN", Successes'[i + 1].by = "scan"
             PROVE  FALSE
  BY DEF AdmittedOnce
<1>2. ~ \E k \in 1 .. Len(Successes) - 1 :
          /\ Successes[k].action = "CHECK_IN"
          /\ Successes[k + 1].action = "CHECK_IN" /\ Successes[k + 1].by = "scan"
  BY DEF AdmittedOnce
<1>3. CASE ~r.success
  BY <1>1, <1>2, <1>3
<1>4. CASE r.success
  <2>1. PICK s \in Seq(Records) : s = Successes
    BY <1>1
  <2>2. PICK t \in Seq(Records) : t = Append(s, r)
    BY AppendProperties
  <2>3. /\ Len(s) \in Nat /\ Len(t) = Len(s) + 1 /\ t[Len(s) + 1] = r
        /\ \A k \in 1 .. Len(s) : t[k] = s[k]
    BY <2>2, AppendProperties, LenProperties
  <2>4. Successes' = t
    BY <1>1, <1>4, <2>1, <2>2
  <2>5. CASE i < Len(s)
    <3>1. i \in 1 .. Len(s) - 1 /\ i \in 1 .. Len(s) /\ i + 1 \in 1 .. Len(s)
      BY <2>3, <2>4, <2>5
    <3>2. t[i] = s[i] /\ t[i + 1] = s[i + 1]
      BY <2>3, <3>1
    <3> QED
      BY <1>2, <2>1, <2>4, <3>1, <3>2
  <2>6. CASE i = Len(s)
    <3>1. i \in 1 .. Len(s) /\ s # <<>>
      BY <2>3, <2>4, <2>6, EmptySeq
    <3>2. s[i].action = "CHECK_IN" /\ r.action = "CHECK_IN" /\ r.by = "scan"
      BY <2>3, <2>4, <2>6, <3>1
    <3>3. LastIn
      BY <2>1, <2>6, <3>1, <3>2 DEF LastIn, Last
    <3> QED
      BY <1>4, <3>2, <3>3
  <2> QED
    BY <2>3, <2>4, <2>5, <2>6
<1> QED
  BY <1>3, <1>4

LEMMA RecordKeeps ==
    ASSUME CheckInInv, NEW d \in Desks, RecordAttempt(d)
    PROVE  CheckInInv'
<1>1. /\ CheckInTypeOK /\ DeskInv /\ RecordInv /\ SeenInv /\ AdmittedOnce /\ QuietInv
      /\ CancelledStaysOut
  BY DEF CheckInInv, AdmissionInv
<1>2. /\ Does(d, "record")
      /\ status' = status /\ ticket' = ticket /\ attendance' = attendance
      /\ cancelLogged' = cancelLogged /\ requests' = requests /\ barred' = barred
  BY DEF RecordAttempt
<1>3. /\ desk[d] \in ScanJobs /\ desk[d] # Free
      /\ desk[d].todo \in Todos("record") \cap (ScanTodos \cup BulkTodos)
      /\ desk[d].by = "scan" => desk[d].todo \in ScanTodos
      /\ desk[d].by = "bulk" => desk[d].todo \in BulkTodos /\ desk[d].success
      /\ desk[d].by \in {"scan", "bulk"}
  BY <1>1, <1>2, StepFacts DEF Steps
<1>4. PICK j \in ScanJobs : j = desk[d]
  BY <1>3
<1>5. PICK n \in DeskJobs : n = Rest(j)
  BY <1>3, <1>4, RestFacts
<1>6. PICK r \in Records : r = [action |-> j.action, by |-> j.by, success |-> j.success,
                                snapshot |-> j.new]
  BY DEF ScanJobs, Records
<1>7. r.action = j.action /\ r.by = j.by /\ r.success = j.success /\ r.snapshot = j.new
  BY <1>6
<1>8. /\ log' = Append(log, r)
      /\ desk' = [e \in Desks |-> IF e = d THEN n ELSE Outdate(e)]
      /\ holes' = holes \cup Mark("raced", j.by = "scan" /\ j.outdated)
                        \cup Mark("hidden", ~j.success /\ IsCheckedIn(log) /\ ~IsCheckedIn(log'))
  BY <1>4, <1>5, <1>6 DEF RecordAttempt
<1>9. /\ holes \subseteq holes' /\ holes' \subseteq holes \cup {"raced", "hidden"}
      /\ j.by = "scan" /\ j.outdated => "raced" \in holes'
      /\ ~j.success /\ IsCheckedIn(log) /\ ~IsCheckedIn(log') => "hidden" \in holes'
      /\ "raced" \in holes' => "raced" \in holes \/ j.outdated
  BY <1>8 DEF Mark
<1>10. j.by = "scan" => j.todo = <<"record">> /\ n = Free
  <2>1. j.by = "scan" => j.todo = <<"record">>
    BY <1>3, <1>4, TodosDiffer DEF Todos
  <2> QED
    BY <1>3, <1>4, <1>5, <2>1, RestFacts
<1>11. j.by = "bulk" =>
          /\ j.todo = <<"record", "status", "attend">> /\ j.success
          /\ n \in ScanJobs /\ n # Free /\ n.todo = <<"status", "attend">>
          /\ n.action = j.action /\ n.by = j.by /\ n.success = j.success /\ n.new = j.new
          /\ n.sawCancelled = j.sawCancelled /\ n.outdated = j.outdated
  <2> SUFFICES ASSUME j.by = "bulk"
               PROVE  /\ j.todo = <<"record", "status", "attend">> /\ j.success
                      /\ n \in ScanJobs /\ n # Free /\ n.todo = <<"status", "attend">>
                      /\ n.action = j.action /\ n.by = j.by /\ n.success = j.success
                      /\ n.new = j.new /\ n.sawCancelled = j.sawCancelled
                      /\ n.outdated = j.outdated
    OBVIOUS
  <2>1. j.todo = <<"record", "status", "attend">>
    BY <1>3, <1>4, TodosDiffer DEF Todos
  <2>2. j.todo \notin {<<"record">>, <<"attend">>} /\ Tail(j.todo) = <<"status", "attend">>
    BY <2>1, TodosDiffer, TodoFacts DEF BulkTodos
  <2> QED
    BY <1>3, <1>4, <1>5, <2>1, <2>2, RestFacts
<1>12. /\ j.success => j.new = StatusAfter(j.action)
       /\ j.sawCancelled => j.new = "CANCELLED"
       /\ j.by = "scan" /\ j.success /\ ~j.outdated => (j.action = "CHECK_IN") # IsCheckedIn(log)
       /\ j.by \in {"scan", "bulk"} /\ j.action \in Actions /\ j.success \in BOOLEAN
  BY <1>1, <1>3, <1>4 DEF DeskInv, ScanJobs
<1>13. /\ log' \in Seq(Records)
       /\ IsCheckedIn(log') <=> r.action = "CHECK_IN" /\ r.snapshot = "CHECKED_IN"
       /\ r.success => (LastIn' <=> r.action = "CHECK_IN")
       /\ ~r.success => (LastIn' <=> LastIn)
       /\ RecordInv /\ (r.success /\ r.action = "CHECK_IN" => r.snapshot = "CHECKED_IN")
             => RecordInv'
  BY <1>1, <1>8, LogGrows DEF CheckInTypeOK
<1>14. r.success /\ r.action = "CHECK_IN" => r.snapshot = "CHECKED_IN"
  BY <1>7, <1>12 DEF StatusAfter
<1>15. \A e \in Desks \ {d} :
          /\ desk'[e] \in DeskJobs /\ (desk'[e] = Free <=> desk[e] = Free)
          /\ desk[e] # Free =>
                /\ desk'[e].outdated
                /\ desk'[e].todo = desk[e].todo /\ desk'[e].action = desk[e].action
                /\ desk'[e].by = desk[e].by /\ desk'[e].success = desk[e].success
                /\ desk'[e].new = desk[e].new
                /\ desk'[e].sawCancelled = desk[e].sawCancelled
  BY <1>1, <1>8, OutdateFacts DEF CheckInTypeOK
<1>16. desk'[d] = n /\ desk' \in [Desks -> DeskJobs]
  <2>1. \A e \in Desks : (IF e = d THEN n ELSE Outdate(e)) \in DeskJobs
    BY <1>1, OutdateFacts DEF CheckInTypeOK
  <2> QED
    BY <1>8, <2>1
<1>17. CheckInTypeOK'
  <2>1. holes' \subseteq Holes
    BY <1>1, <1>9 DEF CheckInTypeOK, Holes
  <2> QED
    BY <1>1, <1>2, <1>13, <1>16, <2>1 DEF CheckInTypeOK
<1>18. DeskInv'
  <2> SUFFICES ASSUME NEW e \in Desks, desk'[e] # Free
               PROVE  /\ desk'[e].by = "scan" => desk'[e].todo \in ScanTodos
                      /\ desk'[e].by = "bulk" => desk'[e].todo \in BulkTodos /\ desk'[e].success
                      /\ desk'[e].success => desk'[e].new = (StatusAfter(desk[e].action))'
                      /\ desk'[e].sawCancelled => desk'[e].new = "CANCELLED"
                      /\ desk'[e].by = "scan" => desk'[e].outdated
    BY DEF DeskInv
  <2>1. CASE e # d
    <3>1. /\ desk[e].by = "scan" => desk[e].todo \in ScanTodos
          /\ desk[e].by = "bulk" => desk[e].todo \in BulkTodos /\ desk[e].success
          /\ desk[e].success => desk[e].new = StatusAfter(desk[e].action)
          /\ desk[e].sawCancelled => desk[e].new = "CANCELLED"
      BY <1>1, <1>15, <2>1 DEF DeskInv
    <3> QED
      BY <1>15, <2>1, <3>1 DEF StatusAfter
  <2>2. CASE e = d
    <3>1. j.by = "bulk"
      BY <1>10, <1>12, <1>16, <2>2
    <3>2. n.todo \in BulkTodos
      BY <1>11, <3>1 DEF BulkTodos
    <3> QED
      BY <1>11, <1>12, <1>16, <2>2, <3>1, <3>2 DEF StatusAfter
  <2> QED
    BY <2>1, <2>2
<1>19. RecordInv'
  BY <1>1, <1>13, <1>14
<1>20. SeenInv'
  <2> SUFFICES ASSUME holes' \cap {"raced", "hidden"} = {}, LastIn' PROVE (IsCheckedIn(log))'
    BY DEF SeenInv
  <2>1. CASE r.success
    BY <1>13, <1>14, <2>1
  <2>2. CASE ~r.success
    BY <1>1, <1>7, <1>9, <1>13, <2>2 DEF SeenInv
  <2> QED
    BY <2>1, <2>2
<1>21. AdmittedOnce'
  <2>1. holes' \cap {"raced", "hidden"} = {} /\ r.success /\ r.by = "scan" =>
            (LastIn => r.action # "CHECK_IN")
    BY <1>1, <1>7, <1>9, <1>12 DEF SeenInv
  <2> QED
    BY <1>1, <1>8, <1>9, <2>1, AdmissionGrows DEF CheckInTypeOK
<1>22. QuietInv'
  <2> SUFFICES ASSUME holes' \cap {"torn", "hidden"} = {}
               PROVE  /\ "raced" \notin holes'
                      /\ \A a, e \in Busy' : a = e
                      /\ Busy' = {} => Agree'
                      /\ \A e \in Busy' : ~desk'[e].outdated /\ (Phase(desk[e]))'
    BY DEF QuietInv
  <2>1. holes \cap {"torn", "hidden"} = {}
    BY <1>9
  <2>2. /\ "raced" \notin holes /\ \A a, e \in Busy : a = e
        /\ ~j.outdated /\ Phase(j) /\ d \in Busy
    BY <1>1, <1>3, <1>4, <2>1 DEF QuietInv, Busy
  <2>3. "raced" \notin holes'
    BY <1>9, <2>2
  <2>4. Busy' \subseteq {d} /\ (n # Free <=> d \in Busy')
    BY <1>15, <1>16, <2>2 DEF Busy
  <2>5. CASE j.by = "scan" /\ j.success
    <3>1. (attendance = "CHECK_IN" <=> j.action = "CHECK_IN") /\ Suits(j.action)
      BY <1>10, <2>2, <2>5, TodosDiffer DEF Phase, ScanPhase
    <3>2. LastIn' <=> j.action = "CHECK_IN"
      BY <1>7, <1>13, <2>5
    <3>3. Agree'
      BY <1>2, <1>12, <3>1, <3>2 DEF Agree, Suits, Actions
    <3>4. Busy' = {}
      BY <1>10, <2>4, <2>5
    <3> QED
      BY <2>3, <3>3, <3>4
  <2>6. CASE j.by = "scan" /\ ~j.success
    <3>1. Agree /\ (LastIn' <=> LastIn)
      BY <1>7, <1>13, <2>2, <2>6 DEF Phase, RefusedPhase
    <3>2. Agree'
      BY <1>2, <3>1 DEF Agree
    <3>3. Busy' = {}
      BY <1>10, <2>4, <2>6
    <3> QED
      BY <2>3, <3>2, <3>3
  <2>7. CASE j.by = "bulk"
    <3>1. LastIn' <=> j.action = "CHECK_IN"
      BY <1>7, <1>11, <1>13, <2>7
    <3>2. (BulkPhase(desk[d]))'
      BY <1>11, <1>16, <2>7, <3>1, TodosDiffer DEF BulkPhase
    <3>3. (Phase(desk[d]))' /\ ~desk'[d].outdated
      BY <1>11, <1>16, <2>2, <2>7, <3>2 DEF Phase
    <3>4. Busy' = {d}
      BY <1>11, <2>4, <2>7
    <3> QED
      BY <2>3, <3>3, <3>4
  <2> QED
    BY <1>12, <2>5, <2>6, <2>7
<1>23. CancelledStaysOut'
  BY <1>1, <1>2, <1>9 DEF CancelledStaysOut
<1> QED
  BY <1>17, <1>18, <1>19, <1>20, <1>21, <1>22, <1>23 DEF CheckInInv, AdmissionInv

LEMMA DieKeeps ==
    ASSUME CheckInInv, NEW d \in Desks, Die(d)
    PROVE  CheckInInv'
<1>1. /\ CheckInTypeOK /\ DeskInv /\ RecordInv /\ SeenInv /\ AdmittedOnce
      /\ CancelledStaysOut
  BY DEF CheckInInv, AdmissionInv
<1>2. /\ desk' = [desk EXCEPT ![d] = Free] /\ holes' = holes \cup {"torn"}
      /\ status' = status /\ ticket' = ticket /\ attendance' = attendance /\ log' = log
      /\ cancelLogged' = cancelLogged /\ requests' = requests /\ barred' = barred
  BY DEF Die
<1>3. /\ desk' \in [Desks -> DeskJobs] /\ desk'[d] = Free
      /\ \A e \in Desks \ {d} : desk'[e] = desk[e]
  BY <1>1, <1>2, JobKinds DEF CheckInTypeOK
<1>4. CheckInTypeOK'
  BY <1>1, <1>2, <1>3 DEF CheckInTypeOK, Holes
<1>5. DeskInv'
  BY <1>1, <1>2, <1>3 DEF DeskInv, StatusAfter
<1>6. RecordInv' /\ SeenInv' /\ AdmittedOnce'
  BY <1>1, <1>2, AdmissionsSame
<1>7. QuietInv'
  BY <1>2 DEF QuietInv
<1>8. CancelledStaysOut'
  BY <1>1, <1>2 DEF CancelledStaysOut
<1> QED
  BY <1>4, <1>5, <1>6, <1>7, <1>8 DEF CheckInInv, AdmissionInv

LEMMA DeleteLogsKeeps ==
    ASSUME CheckInInv, NEW from \in DOMAIN log, NEW to \in from .. Len(log), DeleteLogs(from, to)
    PROVE  CheckInInv'
<1>1. /\ CheckInTypeOK /\ DeskInv /\ RecordInv /\ CancelledStaysOut
  BY DEF CheckInInv, AdmissionInv
<1>2. /\ requests < MaxRequests /\ requests' = requests + 1
      /\ log' = SubSeq(log, 1, from - 1) \o SubSeq(log, to + 1, Len(log))
      /\ desk' = [e \in Desks |-> Outdate(e)]
      /\ holes' = holes \cup {"hidden"}
      /\ status' = status /\ ticket' = ticket /\ attendance' = attendance
      /\ cancelLogged' = cancelLogged /\ barred' = barred
  BY DEF DeleteLogs
<1>3. log \in Seq(Records) /\ Len(log) \in Nat /\ from \in 1 .. Len(log) /\ to \in 1 .. Len(log)
  BY <1>1, LenProperties DEF CheckInTypeOK
<1>4. PICK a \in Seq(Records) : a = SubSeq(log, 1, from - 1)
  <2>1. SubSeq(log, 1, from - 1) \in Seq(Records)
    BY <1>3, SubSeqProperties
  <2> QED
    BY <2>1
<1>5. PICK b \in Seq(Records) : b = SubSeq(log, to + 1, Len(log))
  <2>1. SubSeq(log, to + 1, Len(log)) \in Seq(Records)
    BY <1>3, SubSeqProperties
  <2> QED
    BY <2>1
<1>6. \A i \in 1 .. Len(a) : \E k \in 1 .. Len(log) : a[i] = log[k]
  <2>1. Len(a) = from - 1 /\ \A i \in 1 .. from - 1 : a[i] = log[i]
    BY <1>3, <1>4
  <2> QED
    BY <1>3, <2>1
<1>7. \A i \in 1 .. Len(b) : \E k \in 1 .. Len(log) : b[i] = log[k]
  <2>1. /\ Len(b) = Len(log) - to
        /\ \A i \in 1 .. Len(log) - to : b[i] = log[to + i]
    BY <1>3, <1>5
  <2>2. \A i \in 1 .. Len(log) - to : to + i \in 1 .. Len(log)
    BY <1>3
  <2> QED
    BY <2>1, <2>2
<1>8. /\ log' = a \o b /\ a \o b \in Seq(Records) /\ Len(a) \in Nat /\ Len(b) \in Nat
      /\ Len(a \o b) = Len(a) + Len(b)
      /\ \A i \in 1 .. Len(a) + Len(b) :
            (a \o b)[i] = IF i <= Len(a) THEN a[i] ELSE b[i - Len(a)]
  BY <1>2, <1>4, <1>5, ConcatProperties, LenProperties
<1>9. \A i \in 1 .. Len(log') : \E k \in 1 .. Len(log) : log'[i] = log[k]
  <2> SUFFICES ASSUME NEW i \in 1 .. Len(a) + Len(b)
               PROVE  \E k \in 1 .. Len(log) : (a \o b)[i] = log[k]
    BY <1>8
  <2>1. CASE i <= Len(a)
    BY <1>6, <1>8, <2>1
  <2>2. CASE ~(i <= Len(a))
    <3>1. i - Len(a) \in 1 .. Len(b) /\ (a \o b)[i] = b[i - Len(a)]
      BY <1>8, <2>2
    <3> QED
      BY <1>7, <3>1
  <2> QED
    BY <2>1, <2>2
<1>10. RecordInv'
  BY <1>1, <1>9 DEF RecordInv
<1>11. \A e \in Desks :
          /\ desk'[e] = Outdate(e)
          /\ desk'[e] \in DeskJobs /\ (desk'[e] = Free <=> desk[e] = Free)
          /\ desk[e] # Free =>
                /\ desk'[e].outdated
                /\ desk'[e].todo = desk[e].todo /\ desk'[e].action = desk[e].action
                /\ desk'[e].by = desk[e].by /\ desk'[e].success = desk[e].success
                /\ desk'[e].new = desk[e].new
                /\ desk'[e].sawCancelled = desk[e].sawCancelled
  BY <1>1, <1>2, OutdateFacts DEF CheckInTypeOK
<1>12. desk' \in [Desks -> DeskJobs]
  BY <1>2, <1>11
<1>13. CheckInTypeOK'
  <2>1. requests' \in 0 .. MaxRequests
    BY <1>1, <1>2, MaxRequestsAssumption DEF CheckInTypeOK
  <2> QED
    BY <1>1, <1>2, <1>8, <1>12, <2>1 DEF CheckInTypeOK, Holes
<1>14. DeskInv'
  <2> SUFFICES ASSUME NEW e \in Desks, desk'[e] # Free
               PROVE  /\ desk'[e].by = "scan" => desk'[e].todo \in ScanTodos
                      /\ desk'[e].by = "bulk" => desk'[e].todo \in BulkTodos /\ desk'[e].success
                      /\ desk'[e].success => desk'[e].new = (StatusAfter(desk[e].action))'
                      /\ desk'[e].sawCancelled => desk'[e].new = "CANCELLED"
                      /\ desk'[e].outdated
    BY DEF DeskInv
  <2>1. desk[e] # Free
    BY <1>11
  <2>2. /\ desk[e].by = "scan" => desk[e].todo \in ScanTodos
        /\ desk[e].by = "bulk" => desk[e].todo \in BulkTodos /\ desk[e].success
        /\ desk[e].success => desk[e].new = StatusAfter(desk[e].action)
        /\ desk[e].sawCancelled => desk[e].new = "CANCELLED"
    BY <1>1, <2>1 DEF DeskInv
  <2> QED
    BY <1>11, <2>1, <2>2 DEF StatusAfter
<1>15. SeenInv' /\ AdmittedOnce' /\ QuietInv'
  BY <1>2 DEF SeenInv, AdmittedOnce, QuietInv
<1>16. CancelledStaysOut'
  BY <1>1, <1>2 DEF CancelledStaysOut
<1> QED
  BY <1>10, <1>13, <1>14, <1>15, <1>16 DEF CheckInInv, AdmissionInv

\* A cancellation, or a ticket made or cancelled: neither the desks, the log nor
\* the attendance change, and nobody gets to be checked in or out by it.
LEMMA ElsewhereKeeps ==
    ASSUME CheckInInv,
           attendance' = attendance, log' = log, desk' = desk, requests' = requests, holes' = holes,
           status' \in Statuses, ticket' \in Tickets, cancelLogged' \in BOOLEAN, barred' \in BOOLEAN,
           status' = status \/ status' \notin {"CHECKED_IN", "CHECKED_OUT"},
           barred' => status' = "CANCELLED" \/ (barred /\ status' = status)
    PROVE  CheckInInv'
<1>1. /\ CheckInTypeOK /\ DeskInv /\ RecordInv /\ SeenInv /\ AdmittedOnce /\ QuietInv
      /\ CancelledStaysOut
  BY DEF CheckInInv, AdmissionInv
<1>2. CheckInTypeOK'
  BY <1>1 DEF CheckInTypeOK
<1>3. DeskInv'
  BY <1>1 DEF DeskInv, StatusAfter
<1>4. RecordInv' /\ SeenInv' /\ AdmittedOnce' /\ (LastIn' <=> LastIn)
  BY <1>1, AdmissionsSame, LogSame
<1>5. Agree => Agree'
  BY <1>4 DEF Agree
<1>6. ASSUME NEW a, Suits(a) PROVE (Suits(a))'
  BY <1>6 DEF Suits
<1>7. QuietInv'
  <2> SUFFICES ASSUME holes \cap {"torn", "hidden"} = {}
               PROVE  /\ "raced" \notin holes
                      /\ \A a, e \in Busy' : a = e
                      /\ Busy' = {} => Agree'
                      /\ \A e \in Busy' : ~desk[e].outdated /\ (Phase(desk[e]))'
    BY DEF QuietInv
  <2>1. Busy' = Busy
    BY DEF Busy
  <2>2. /\ "raced" \notin holes /\ \A a, e \in Busy : a = e
        /\ Busy = {} => Agree
        /\ \A e \in Busy : ~desk[e].outdated /\ Phase(desk[e])
    BY <1>1 DEF QuietInv
  <2>3. ASSUME NEW e \in Busy PROVE (Phase(desk[e]))'
    <3>1. PICK j : j = desk[e]
      OBVIOUS
    <3>2. Phase(j)
      BY <2>2, <3>1
    <3>3. Suits(j.action) => (Suits(desk[e].action))'
      BY <1>6, <3>1 DEF Suits
    <3>4. ScanPhase(j) => (ScanPhase(desk[e]))'
      BY <1>5, <3>1, <3>3 DEF ScanPhase
    <3>5. RefusedPhase(j) => (RefusedPhase(desk[e]))'
      BY <1>5, <3>1 DEF RefusedPhase
    <3>6. BulkPhase(j) => (BulkPhase(desk[e]))'
      BY <1>4, <1>5, <3>1, <3>3 DEF BulkPhase
    <3> QED
      BY <3>1, <3>2, <3>4, <3>5, <3>6 DEF Phase
  <2> QED
    BY <1>5, <2>1, <2>2, <2>3
<1>8. CancelledStaysOut'
  BY <1>1 DEF CancelledStaysOut
<1> QED
  BY <1>2, <1>3, <1>4, <1>7, <1>8 DEF CheckInInv, AdmissionInv

LEMMA CheckInStarts ==
    ASSUME CheckInInit
    PROVE  CheckInInv
<1>1. /\ status \in {"PENDING_PAYMENT", "REGISTERED"} /\ ticket \in {"none", "active"}
      /\ attendance = "no row" /\ log = <<>> /\ cancelLogged = FALSE
      /\ desk = [d \in Desks |-> Free] /\ requests = 0 /\ barred = FALSE /\ holes = {}
  BY DEF CheckInInit
<1>2. CheckInTypeOK
  <2>1. desk \in [Desks -> DeskJobs]
    BY <1>1, JobKinds
  <2>2. 0 \in 0 .. MaxRequests
    BY MaxRequestsAssumption
  <2>3. log \in Seq(Records)
    BY <1>1, EmptySeq
  <2> QED
    BY <1>1, <2>1, <2>2, <2>3 DEF CheckInTypeOK, Statuses, Tickets, Attendances
<1>3. DeskInv
  BY <1>1 DEF DeskInv
<1>4. RecordInv
  <2>1. Len(log) = 0
    BY <1>1, EmptySeq
  <2> QED
    BY <2>1 DEF RecordInv
<1>5. Successes = <<>>
  <2>1. log \in Seq(Records) /\ Len(log) = 0
    BY <1>1, EmptySeq
  <2> DEFINE S == {r \in Records : r.success}
  <2>2. Successes = Those(log, S)
    BY DEF Successes
  <2> HIDE DEF S
  <2>3. \A k \in 1 .. Len(log) : log[k] \notin S
    BY <2>1
  <2>4. Those(log, S) = <<>> <=> \A k \in 1 .. Len(log) : log[k] \notin S
    BY <2>1, ThoseHead
  <2> QED
    BY <2>2, <2>3, <2>4
<1>6. ~LastIn /\ AdmittedOnce
  <2>1. Len(Successes) = 0
    BY <1>5, EmptySeq
  <2> QED
    BY <1>5, <2>1 DEF LastIn, AdmittedOnce
<1>7. SeenInv /\ QuietInv
  <2>1. Busy = {}
    BY <1>1 DEF Busy
  <2> QED
    BY <1>1, <1>6, <2>1 DEF SeenInv, QuietInv, Agree
<1>8. CancelledStaysOut
  BY <1>1 DEF CancelledStaysOut
<1> QED
  BY <1>2, <1>3, <1>4, <1>6, <1>7, <1>8 DEF CheckInInv, AdmissionInv

-----------------------------------------------------------------------------
(* CheckIn: the theorems.                                                   *)

\* What is written of an attendee at any number of desks, by any number of scans
\* and bulk updates, satisfies the invariant.
THEOREM CheckInInvariance == CheckInSpec => []CheckInInv
<1>1. CheckInInit => CheckInInv
  BY CheckInStarts
<1>2. CheckInInv /\ [CheckInNext]_checkInVars => CheckInInv'
  <2> SUFFICES ASSUME CheckInInv, [CheckInNext]_checkInVars PROVE CheckInInv'
    OBVIOUS
  <2>1. ASSUME NEW d \in Desks, DeskStep(d) PROVE CheckInInv'
    <3>1. CASE \E action \in Actions, byTicket \in BOOLEAN : Scan(d, action, byTicket)
      BY <3>1, ScanKeeps
    <3>2. CASE \E action \in Actions : Bulk(d, action)
      BY <3>2, BulkKeeps
    <3>3. CASE Attend(d)
      BY <3>3, AttendKeeps
    <3>4. CASE SaveStatus(d)
      BY <3>4, SaveStatusKeeps
    <3>7. CASE MarkStatus(d)
      BY <3>7, MarkStatusKeeps
    <3>5. CASE RecordAttempt(d)
      BY <3>5, RecordKeeps
    <3>6. CASE Die(d)
      BY <3>6, DieKeeps
    <3> QED
      BY <2>1, <3>1, <3>2, <3>3, <3>4, <3>5, <3>6, <3>7 DEF DeskStep
  <2>2. CASE \E from \in DOMAIN log : \E to \in from .. Len(log) : DeleteLogs(from, to)
    BY <2>2, DeleteLogsKeeps
  <2>3. CASE CancelAttendee
    BY <2>3, ElsewhereKeeps DEF CancelAttendee, CheckInInv, CheckInTypeOK, Statuses
  <2>4. CASE RefundTicket
    BY <2>4, ElsewhereKeeps DEF RefundTicket, CheckInInv, CheckInTypeOK, Tickets
  <2>5. CASE MakeTicket
    BY <2>5, ElsewhereKeeps DEF MakeTicket, CheckInInv, CheckInTypeOK, Tickets, Statuses
  <2>6. CASE UNCHANGED checkInVars
    BY <2>6, ElsewhereKeeps DEF checkInVars, CheckInInv, CheckInTypeOK
  <2> QED
    BY <2>1, <2>2, <2>3, <2>4, <2>5, <2>6 DEF CheckInNext
<1> QED
  BY <1>1, <1>2, PTL DEF CheckInSpec

\* Every variable of CheckIn keeps its shape.
THEOREM CheckInTypesHold == CheckInSpec => []CheckInTypeOK
<1>1. CheckInInv => CheckInTypeOK
  BY DEF CheckInInv
<1> QED
  BY <1>1, CheckInInvariance, PTL

\* Nobody is let in by a scan twice in a row, unless two desks scanned at the
\* same time, or the record of the admission was deleted or hidden.
THEOREM AdmittedOnceHolds == CheckInSpec => []AdmittedOnce
<1>1. CheckInInv => AdmittedOnce
  BY DEF CheckInInv, AdmissionInv
<1> QED
  BY <1>1, CheckInInvariance, PTL

\* Status, attendance and audit trail agree whenever no request is in progress,
\* unless requests overlapped or died, or records were deleted or hidden.
THEOREM RecordsAgreeHolds == CheckInSpec => []RecordsAgree
<1>1. ASSUME CheckInInv PROVE RecordsAgree
  BY <1>1 DEF CheckInInv, QuietInv, Agree, LastIn, RecordsAgree
<1> QED
  BY <1>1, CheckInInvariance, PTL

\* A cancelled attendee stays cancelled, unless a request that had read the
\* attendee before the cancellation wrote afterwards.
THEOREM CancelledStaysOutHolds == CheckInSpec => []CancelledStaysOut
<1>1. CheckInInv => CancelledStaysOut
  BY DEF CheckInInv
<1> QED
  BY <1>1, CheckInInvariance, PTL

-----------------------------------------------------------------------------
(* Workshops: the inductive invariant.                                      *)

\* The list l has everybody who is registered according to r, once.
Lists(l, r) ==
    /\ IsInjective(l)
    /\ \A m \in Members : r[m] # "none" <=> \E i \in 1 .. Len(l) : l[i] = m

LineInv == \A w \in Workshops : Lists(line[w], reg[w])

Placed(plan, w) == {n \in Members : plan[n] = w}

\* A plan gives places that are free, to members who are not registered.
PlanFits(plan, w) ==
    Placed(plan, w) # {} =>
        /\ Confirmed(w) + Cardinality(Placed(plan, w)) <= Capacity[w]
        /\ \A n \in Placed(plan, w) : reg[w][n] = "none"

\* What a request has read of a workshop, and chose on it, is still so.
UpToDate(j, w) ==
    /\ j.op = "register" /\ j.of = w => reg[w][j.who] = "none" /\ j.to = StatusOnRegistering(w)
    /\ j.op = "promote" /\ j.of = w => j.who = NextWaiting(w, Nobody)
    /\ j.op = "cancelling" /\ j.of = w => reg[w][j.who] # "none" /\ j.next = NextWaiting(w, j.who)
    /\ j.op = "draw" /\ j.of = w => /\ j.pending = HasStatus(w, "PENDING_ALLOCATION")
                                    /\ j.places = PlacesLeft(w)
    /\ j.op = "rank" => PlanFits(j.plan, w)

ClerkInv ==
    \A c \in Clerks, w \in Workshops :
        clerk[c] # AtDesk /\ w \notin clerk[c].outdated => UpToDate(clerk[c], w)

\* In a workshop where places go to whoever comes first, nobody waits for a
\* place that is free or before somebody who has one.
InOrder(w) ==
    /\ HasStatus(w, "PENDING_ALLOCATION") = {}
    /\ HasStatus(w, "WAITLISTED") # {} => NoPlaceLeft(w)
    /\ \A i, k \in 1 .. Len(line[w]) :
           i < k /\ reg[w][line[w][i]] = "WAITLISTED" => reg[w][line[w][k]] # "CONFIRMED"

InPlace(w) == Confirmed(w) <= Capacity[w] /\ (programme.mode[w] = "FCFS" => InOrder(w))

WorkshopInv ==
    /\ WorkshopTypeOK /\ LineInv /\ ClerkInv
    /\ \A w \in Undisturbed : InPlace(w)

-----------------------------------------------------------------------------
(* Workshops: jobs, and the lines after a commit.                           *)

MemberOps == {"register", "confirm", "cancel", "cancelling", "promote"}
MemberJobs == [op : MemberOps, of : Workshops, who : Members, to : RegStatuses,
               next : Members \cup {Nobody}, outdated : SUBSET Workshops]
DrawJobs == [op : {"draw"}, of : Workshops, pending : SUBSET Members, places : Nat,
             outdated : SUBSET Workshops]
RankJobs == [op : {"rank"}, plan : [Members -> Workshops \cup {Nowhere}],
             outdated : SUBSET Workshops]

LEMMA ClerkKinds ==
    /\ ClerkJobs = {AtDesk} \cup MemberJobs \cup DrawJobs \cup RankJobs
    /\ AtDesk.op = "none"
    /\ \A j \in ClerkJobs :
          /\ j.op \in MemberOps => j \in MemberJobs
          /\ j.op = "draw" => j \in DrawJobs
          /\ j.op = "rank" => j \in RankJobs
          /\ j # AtDesk => j \in MemberJobs \cup DrawJobs \cup RankJobs
          /\ j # AtDesk <=> j.op # "none"
<1>1. ClerkJobs = {AtDesk} \cup MemberJobs \cup DrawJobs \cup RankJobs
  BY DEF ClerkJobs, MemberJobs, DrawJobs, RankJobs, MemberOps
<1>2. AtDesk.op = "none"
  BY DEF AtDesk
<1>3. \A j \in MemberJobs : j.op \in MemberOps
  BY DEF MemberJobs
<1>4. \A j \in DrawJobs : j.op = "draw"
  BY DEF DrawJobs
<1>5. \A j \in RankJobs : j.op = "rank"
  BY DEF RankJobs
<1>6. "none" \notin MemberOps /\ "draw" \notin MemberOps /\ "rank" \notin MemberOps
  BY DEF MemberOps
<1> QED
  BY <1>1, <1>2, <1>3, <1>4, <1>5, <1>6

\* A job whose reading is no longer what is there is otherwise the same.
LEMMA OutdatedJob ==
    ASSUME NEW j \in ClerkJobs, j # AtDesk, NEW ws \in SUBSET Workshops,
           NEW k, k = [j EXCEPT !.outdated = @ \cup ws]
    PROVE  /\ k \in ClerkJobs /\ k # AtDesk /\ k.outdated = j.outdated \cup ws
           /\ k.op = j.op
           /\ j.op \in MemberOps => k.of = j.of /\ k.who = j.who /\ k.to = j.to /\ k.next = j.next
           /\ j.op = "draw" => k.of = j.of /\ k.pending = j.pending /\ k.places = j.places
           /\ j.op = "rank" => k.plan = j.plan
<1>1. CASE j \in MemberJobs
  <2>1. k \in MemberJobs /\ k.outdated = j.outdated \cup ws /\ k.op = j.op /\ j.op \in MemberOps
        /\ k.of = j.of /\ k.who = j.who /\ k.to = j.to /\ k.next = j.next
    BY <1>1 DEF MemberJobs
  <2> QED
    BY <2>1, ClerkKinds DEF MemberOps
<1>2. CASE j \in DrawJobs
  <2>1. k \in DrawJobs /\ k.outdated = j.outdated \cup ws /\ k.op = j.op /\ j.op = "draw"
        /\ k.of = j.of /\ k.pending = j.pending /\ k.places = j.places
    BY <1>2 DEF DrawJobs
  <2> QED
    BY <2>1, ClerkKinds DEF MemberOps
<1>3. CASE j \in RankJobs
  <2>1. k \in RankJobs /\ k.outdated = j.outdated \cup ws /\ k.op = j.op /\ j.op = "rank"
        /\ k.plan = j.plan
    BY <1>3 DEF RankJobs
  <2> QED
    BY <2>1, ClerkKinds DEF MemberOps
<1> QED
  BY <1>1, <1>2, <1>3, ClerkKinds

\* One line after the registrations r of a workshop have become q.
LineAfter(l, r, q) ==
    LET there == {m \in Members : q[m] # "none"}
        added == {m \in there : r[m] = "none"}
    IN  Those(l, there) \o Those(Submitted, added)

\* If nobody is removed, who is added comes last.
Extends(l, r, q, new) ==
    (\A m \in Members : r[m] # "none" => q[m] # "none") =>
        /\ Len(l) <= Len(new)
        /\ \A i \in 1 .. Len(l) : new[i] = l[i]
        /\ \A i \in Len(l) + 1 .. Len(new) : new[i] \in Members /\ r[new[i]] = "none"

LEMMA NewLine ==
    ASSUME NEW l \in Seq(Members),
           NEW r \in [Members -> RegStatuses], NEW q \in [Members -> RegStatuses],
           Lists(l, r)
    PROVE  /\ LineAfter(l, r, q) \in Seq(Members)
           /\ Lists(LineAfter(l, r, q), q)
           /\ Extends(l, r, q, LineAfter(l, r, q))
           /\ r = q => LineAfter(l, r, q) = l
<1>a. PICK there \in SUBSET Members : there = {m \in Members : q[m] # "none"}
  OBVIOUS
<1>b. PICK added \in SUBSET there : added = {m \in there : r[m] = "none"}
  OBVIOUS
<1> PICK new : new = Those(l, there) \o Those(Submitted, added)
  OBVIOUS
<1>c. new = LineAfter(l, r, q)
  BY <1>a, <1>b DEF LineAfter
<1> /\ \A m \in Members : m \in there <=> q[m] # "none"
    /\ \A m \in there : m \in added <=> r[m] = "none"
  BY <1>a, <1>b
<1> IsInjective(l) /\ \A m \in Members : r[m] # "none" <=> \E i \in 1 .. Len(l) : l[i] = m
  BY DEF Lists
<1>0. PICK a, b : a = Those(l, there) /\ b = Those(Submitted, added)
  OBVIOUS
<1>1. /\ Submitted \in Seq(Members) /\ IsInjective(Submitted)
      /\ \A m \in Members : \E i \in 1 .. Len(Submitted) : Submitted[i] = m
  BY SubmittedAssumption DEF Contains
<1>2. /\ a \in Seq(Members) /\ b \in Seq(Members)
      /\ Len(a) \in Nat /\ Len(b) \in Nat /\ Len(l) \in Nat
      /\ DOMAIN a = 1 .. Len(a) /\ DOMAIN b = 1 .. Len(b)
  <2>1. Those(l, there) \in Seq(Members)
    BY ThoseFacts
  <2>2. Those(Submitted, added) \in Seq(Members)
    BY <1>1, ThoseFacts
  <2> QED
    BY <1>0, <2>1, <2>2, LenProperties
<1>3. /\ \A i \in 1 .. Len(a) : a[i] \in there /\ \E k \in 1 .. Len(l) : l[k] = a[i]
      /\ \A k \in 1 .. Len(l) : l[k] \in there => \E i \in 1 .. Len(a) : a[i] = l[k]
      /\ IsInjective(a)
  <2>1. /\ \A i \in 1 .. Len(Those(l, there)) :
              /\ Those(l, there)[i] \in there /\ Those(l, there)[i] \in Members
              /\ \E k \in 1 .. Len(l) : l[k] = Those(l, there)[i]
        /\ \A k \in 1 .. Len(l) :
              l[k] \in there => \E i \in 1 .. Len(Those(l, there)) : Those(l, there)[i] = l[k]
        /\ IsInjective(l) => IsInjective(Those(l, there))
    BY ThoseElements
  <2> QED
    BY <1>0, <2>1
<1>4. /\ \A i \in 1 .. Len(b) : b[i] \in added
      /\ \A k \in 1 .. Len(Submitted) : Submitted[k] \in added => \E i \in 1 .. Len(b) : b[i] = Submitted[k]
      /\ IsInjective(b)
  <2>1. /\ \A i \in 1 .. Len(Those(Submitted, added)) :
              /\ Those(Submitted, added)[i] \in added /\ Those(Submitted, added)[i] \in Members
              /\ \E k \in 1 .. Len(Submitted) : Submitted[k] = Those(Submitted, added)[i]
        /\ \A k \in 1 .. Len(Submitted) :
              Submitted[k] \in added =>
                  \E i \in 1 .. Len(Those(Submitted, added)) : Those(Submitted, added)[i] = Submitted[k]
        /\ IsInjective(Submitted) => IsInjective(Those(Submitted, added))
    BY <1>1, ThoseElements
  <2> QED
    BY <1>0, <1>1, <2>1
<1>5. \A m \in added : \E i \in 1 .. Len(b) : b[i] = m
  <2> SUFFICES ASSUME NEW m \in added PROVE \E i \in 1 .. Len(b) : b[i] = m
    OBVIOUS
  <2>1. PICK k \in 1 .. Len(Submitted) : Submitted[k] = m
    BY <1>1
  <2> QED
    BY <1>4, <2>1
<1>6. (\A m \in Members : r[m] # "none" => q[m] # "none") => a = l
  <2> SUFFICES ASSUME \A m \in Members : r[m] # "none" => q[m] # "none" PROVE a = l
    OBVIOUS
  <2>1. \A k \in 1 .. Len(l) : l[k] \in there
    BY ElementOfSeq
  <2>2. Those(l, there) = l
    BY <2>1, ThoseAll
  <2> QED
    BY <1>0, <2>2
<1>7. added = {} => b = <<>>
  <2>1. Those(Submitted, added) = <<>> <=> \A k \in 1 .. Len(Submitted) : Submitted[k] \notin added
    BY <1>1, ThoseHead
  <2> QED
    BY <1>0, <2>1
<1>8. IsInjective(a) /\ IsInjective(b)
  BY <1>3, <1>4
<1>9. /\ new \in Seq(Members) /\ Len(new) = Len(a) + Len(b) /\ DOMAIN new = 1 .. Len(new)
      /\ \A i \in 1 .. Len(a) + Len(b) : new[i] = IF i <= Len(a) THEN a[i] ELSE b[i - Len(a)]
  <2>1. new = a \o b
    BY <1>0
  <2>2. /\ a \o b \in Seq(Members) /\ Len(a \o b) = Len(a) + Len(b)
        /\ \A i \in 1 .. Len(a) + Len(b) : (a \o b)[i] = IF i <= Len(a) THEN a[i] ELSE b[i - Len(a)]
    BY <1>2, ConcatProperties
  <2>3. DOMAIN (a \o b) = 1 .. Len(a \o b)
    BY <2>2, LenProperties
  <2> QED
    BY <2>1, <2>2, <2>3
<1>10. /\ \A i \in 1 .. Len(a) : i \in 1 .. Len(new) /\ new[i] = a[i]
       /\ \A i \in 1 .. Len(b) : i + Len(a) \in 1 .. Len(new) /\ new[i + Len(a)] = b[i]
  <2>1. ASSUME NEW i \in 1 .. Len(a) PROVE i \in 1 .. Len(new) /\ new[i] = a[i]
    <3>1. i \in 1 .. Len(a) + Len(b) /\ i <= Len(a)
      BY <1>2
    <3> QED
      BY <1>9, <3>1
  <2>2. ASSUME NEW i \in 1 .. Len(b)
        PROVE  i + Len(a) \in 1 .. Len(new) /\ new[i + Len(a)] = b[i]
    <3>1. i + Len(a) \in 1 .. Len(a) + Len(b) /\ ~(i + Len(a) <= Len(a)) /\ (i + Len(a)) - Len(a) = i
      BY <1>2
    <3> QED
      BY <1>9, <3>1
  <2> QED
    BY <2>1, <2>2
<1>11. \A i \in 1 .. Len(new) :
          \/ i \in 1 .. Len(a) /\ new[i] = a[i]
          \/ i > Len(a) /\ i - Len(a) \in 1 .. Len(b) /\ new[i] = b[i - Len(a)]
  <2> SUFFICES ASSUME NEW i \in 1 .. Len(a) + Len(b)
               PROVE  \/ i \in 1 .. Len(a) /\ new[i] = a[i]
                      \/ i > Len(a) /\ i - Len(a) \in 1 .. Len(b) /\ new[i] = b[i - Len(a)]
    BY <1>9
  <2>1. CASE i <= Len(a)
    BY <1>2, <1>9, <2>1
  <2>2. CASE ~(i <= Len(a))
    <3>1. i > Len(a) /\ i - Len(a) \in 1 .. Len(b)
      BY <1>2, <2>2
    <3> QED
      BY <1>9, <2>2, <3>1
  <2> QED
    BY <2>1, <2>2
<1>12. \A m \in Members : q[m] # "none" <=> \E i \in 1 .. Len(new) : new[i] = m
  <2> SUFFICES ASSUME NEW m \in Members
               PROVE  m \in there <=> \E i \in 1 .. Len(new) : new[i] = m
    OBVIOUS
  <2>1. ASSUME m \in there, r[m] # "none" PROVE \E i \in 1 .. Len(new) : new[i] = m
    <3>1. PICK k \in 1 .. Len(l) : l[k] = m
      BY <2>1
    <3>2. PICK i \in 1 .. Len(a) : a[i] = m
      BY <1>3, <2>1, <3>1
    <3> QED
      BY <1>10, <3>2
  <2>2. ASSUME m \in there, r[m] = "none" PROVE \E i \in 1 .. Len(new) : new[i] = m
    <3>1. PICK i \in 1 .. Len(b) : b[i] = m
      BY <1>5, <2>2
    <3> QED
      BY <1>10, <3>1
  <2>3. ASSUME NEW i \in 1 .. Len(new), new[i] = m PROVE m \in there
    BY <1>3, <1>4, <1>11, <2>3
  <2> QED
    BY <2>1, <2>2, <2>3
<1>13. IsInjective(new)
  <2> SUFFICES ASSUME NEW i \in 1 .. Len(new), NEW k \in 1 .. Len(new), new[i] = new[k]
               PROVE  i = k
    BY <1>9 DEF IsInjective
  <2>1. ASSUME NEW x \in 1 .. Len(a), NEW y \in 1 .. Len(b) PROVE a[x] # b[y]
    <3>1. PICK n \in 1 .. Len(l) : l[n] = a[x]
      BY <1>3
    <3>2. a[x] \in Members
      BY <1>2, ElementOfSeq
    <3>3. r[a[x]] # "none"
      BY <3>1, <3>2
    <3> QED
      BY <1>4, <3>3
  <2>2. CASE i \in 1 .. Len(a) /\ k \in 1 .. Len(a) /\ new[i] = a[i] /\ new[k] = a[k]
    BY <1>2, <1>8, <2>2 DEF IsInjective
  <2>3. CASE /\ i > Len(a) /\ i - Len(a) \in 1 .. Len(b) /\ new[i] = b[i - Len(a)]
             /\ k > Len(a) /\ k - Len(a) \in 1 .. Len(b) /\ new[k] = b[k - Len(a)]
    <3>1. i - Len(a) = k - Len(a)
      BY <1>2, <1>8, <2>3 DEF IsInjective
    <3> QED
      BY <1>2, <3>1
  <2> QED
    BY <1>11, <2>1, <2>2, <2>3
<1>14. ASSUME \A m \in Members : r[m] # "none" => q[m] # "none"
       PROVE  /\ Len(l) <= Len(new)
              /\ \A i \in 1 .. Len(l) : new[i] = l[i]
              /\ \A i \in Len(l) + 1 .. Len(new) : new[i] \in added
  <2>1. a = l
    BY <1>6, <1>14
  <2>2. Len(l) <= Len(new) /\ \A i \in 1 .. Len(l) : new[i] = l[i]
    BY <1>2, <1>9, <1>10, <2>1
  <2>3. ASSUME NEW i \in Len(l) + 1 .. Len(new) PROVE new[i] \in added
    <3>1. i \in 1 .. Len(new) /\ i \notin 1 .. Len(a)
      BY <1>2, <2>1
    <3>2. PICK n \in 1 .. Len(b) : new[i] = b[n]
      BY <1>11, <3>1
    <3> QED
      BY <1>4, <3>2
  <2> QED
    BY <2>2, <2>3
<1>15. ASSUME \A m \in Members : r[m] = q[m] PROVE new = l
  <2>1. added = {}
    BY <1>15
  <2>2. a = l /\ b = <<>>
    BY <1>6, <1>7, <1>15, <2>1
  <2>3. new = l \o <<>>
    BY <1>0, <2>2
  <2> QED
    BY <2>3, ConcatEmptySeq
<1>16. Lists(new, q) /\ Extends(l, r, q, new)
  BY <1>12, <1>13, <1>14 DEF Lists, Extends
<1> QED
  BY <1>9, <1>15, <1>16, <1>c

-----------------------------------------------------------------------------
(* Workshops: what changes, and what stays as it was read.                  *)

LEMMA MembersFinite ==
    ASSUME NEW S \in SUBSET Members
    PROVE  IsFiniteSet(S) /\ Cardinality(S) \in Nat
BY MembersAssumption, FS_Subset, FS_CardinalityType

LEMMA OneMore ==
    ASSUME NEW S \in SUBSET Members, NEW T \in SUBSET Members, NEW m \in Members, T \subseteq S \cup {m}
    PROVE  Cardinality(T) <= Cardinality(S) + 1
<1>1. IsFiniteSet(S) /\ IsFiniteSet(S \cup {m})
  BY MembersFinite
<1>2. Cardinality(S \cup {m}) <= Cardinality(S) + 1
  BY <1>1, MembersFinite, FS_AddElement
<1>3. Cardinality(T) <= Cardinality(S \cup {m})
  BY <1>1, FS_Subset
<1> QED
  BY <1>2, <1>3, MembersFinite

\* A workshop whose registrations stay as they are is in no other way different.
LEMMA SameWorkshop ==
    ASSUME NEW w \in Workshops, reg'[w] = reg[w], line'[w] = line[w], programme' = programme
    PROVE  /\ \A s : (HasStatus(w, s))' = HasStatus(w, s)
           /\ (InPlace(w))' <=> InPlace(w)
           /\ \A j : UpToDate(j, w) => (UpToDate(j, w))'
<1>1. \A s : (HasStatus(w, s))' = HasStatus(w, s)
  BY DEF HasStatus
<1>2. (Confirmed(w))' = Confirmed(w)
  BY <1>1 DEF Confirmed
<1>3. (NoPlaceLeft(w))' <=> NoPlaceLeft(w)
  BY <1>2 DEF NoPlaceLeft
<1>4. (PlacesLeft(w))' = PlacesLeft(w)
  BY <1>2, <1>3 DEF PlacesLeft
<1>5. (StatusOnRegistering(w))' = StatusOnRegistering(w)
  BY <1>3 DEF StatusOnRegistering
<1>6. ASSUME NEW x PROVE (NextWaiting(w, x))' = NextWaiting(w, x)
  <2>1. (Waiting(w, x))' = Waiting(w, x)
    BY <1>1 DEF Waiting
  <2>2. (HasPlace(w, x))' <=> HasPlace(w, x)
    BY <1>1 DEF HasPlace
  <2> QED
    BY <2>1, <2>2 DEF NextWaiting
<1>7. (InOrder(w))' <=> InOrder(w)
  <2>1. /\ (HasStatus(w, "PENDING_ALLOCATION"))' = HasStatus(w, "PENDING_ALLOCATION")
        /\ (HasStatus(w, "WAITLISTED"))' = HasStatus(w, "WAITLISTED")
    BY <1>1
  <2> QED
    BY <1>3, <2>1 DEF InOrder
<1>8. (InPlace(w))' <=> InPlace(w)
  BY <1>2, <1>7 DEF InPlace
<1>9. ASSUME NEW j, UpToDate(j, w) PROVE (UpToDate(j, w))'
  <2>1. PlanFits(j.plan, w) => (PlanFits(j.plan, w))'
    BY <1>2 DEF PlanFits, Placed
  <2>2. j.op = "register" /\ j.of = w => reg'[w][j.who] = "none" /\ j.to = (StatusOnRegistering(w))'
    BY <1>5, <1>9 DEF UpToDate
  <2>3. j.op = "promote" /\ j.of = w => j.who = (NextWaiting(w, Nobody))'
    BY <1>6, <1>9 DEF UpToDate
  <2>4. j.op = "cancelling" /\ j.of = w =>
            reg'[w][j.who] # "none" /\ j.next = (NextWaiting(w, j.who))'
    BY <1>6, <1>9 DEF UpToDate
  <2>5. j.op = "draw" /\ j.of = w => /\ j.pending = (HasStatus(w, "PENDING_ALLOCATION"))'
                                     /\ j.places = (PlacesLeft(w))'
    BY <1>1, <1>4, <1>9 DEF UpToDate
  <2> QED
    BY <1>9, <2>1, <2>2, <2>3, <2>4, <2>5 DEF UpToDate
<1> QED
  BY <1>1, <1>8, <1>9

\* A request begins, chooses or ends, workshops open or close, submissions are
\* finalised: registrations stay.
LEMMA ReadingKeeps ==
    ASSUME WorkshopInv,
           programme' = programme, reg' = reg, line' = line,
           raced' = raced, overridden' = overridden,
           open' \subseteq Workshops, finalised' \subseteq Members, services' \in 0 .. MaxServices,
           \/ clerk' = clerk
           \/ \E c \in Clerks, j \in ClerkJobs :
                 /\ clerk' = [clerk EXCEPT ![c] = j]
                 /\ j # AtDesk => \A w \in Workshops \ j.outdated : UpToDate(j, w)
    PROVE  WorkshopInv'
<1>1. /\ WorkshopTypeOK /\ LineInv /\ ClerkInv /\ \A w \in Undisturbed : InPlace(w)
  BY DEF WorkshopInv
<1>2. \A w \in Workshops : /\ (InPlace(w))' <=> InPlace(w)
                           /\ \A j : UpToDate(j, w) => (UpToDate(j, w))'
  BY SameWorkshop
<1>3. Undisturbed' = Undisturbed /\ Undisturbed \subseteq Workshops
  BY DEF Undisturbed
<1>4. clerk' \in [Clerks -> ClerkJobs] /\ ClerkInv'
  <2>1. CASE clerk' = clerk
    <3>1. ASSUME NEW c \in Clerks, NEW w \in Workshops, clerk[c] # AtDesk, w \notin clerk[c].outdated
          PROVE  (UpToDate(clerk[c], w))'
      <4>1. PICK j : j = clerk[c]
        OBVIOUS
      <4>2. UpToDate(j, w)
        BY <1>1, <3>1, <4>1 DEF ClerkInv
      <4>3. (UpToDate(j, w))'
        BY <1>2, <4>2
      <4> QED
        BY <2>1, <4>1, <4>3 DEF UpToDate
    <3> QED
      BY <1>1, <2>1, <3>1 DEF ClerkInv, WorkshopTypeOK
  <2>2. ASSUME NEW c \in Clerks, NEW j \in ClerkJobs, clerk' = [clerk EXCEPT ![c] = j],
               j # AtDesk => \A w \in Workshops \ j.outdated : UpToDate(j, w)
        PROVE  clerk' \in [Clerks -> ClerkJobs] /\ ClerkInv'
    <3>1. /\ clerk' \in [Clerks -> ClerkJobs] /\ clerk'[c] = j
          /\ \A o \in Clerks \ {c} : clerk'[o] = clerk[o]
      BY <1>1, <2>2 DEF WorkshopTypeOK
    <3>2. ASSUME NEW o \in Clerks, NEW w \in Workshops, clerk'[o] # AtDesk, w \notin clerk'[o].outdated
          PROVE  (UpToDate(clerk[o], w))'
      <4>1. PICK k : k = clerk'[o]
        OBVIOUS
      <4>2. UpToDate(k, w)
        <5>1. CASE o = c
          BY <2>2, <3>1, <3>2, <4>1, <5>1
        <5>2. CASE o # c
          BY <1>1, <3>1, <3>2, <4>1, <5>2 DEF ClerkInv
        <5> QED
          BY <5>1, <5>2
      <4>3. (UpToDate(k, w))'
        BY <1>2, <4>2
      <4> QED
        BY <4>1, <4>3 DEF UpToDate
    <3> QED
      BY <3>1, <3>2 DEF ClerkInv
  <2> QED
    BY <2>1, <2>2
<1>5. WorkshopTypeOK'
  BY <1>1, <1>4 DEF WorkshopTypeOK
<1>6. LineInv'
  BY <1>1 DEF LineInv
<1> QED
  BY <1>1, <1>2, <1>3, <1>4, <1>5, <1>6 DEF WorkshopInv

\* What a commit writes of the registrations of ws.
LEMMA WriteFacts ==
    ASSUME WorkshopTypeOK, LineInv, ClerkInv, NEW c \in Clerks, NEW ws \in SUBSET Workshops,
           NEW new \in [Workshops -> [Members -> RegStatuses]],
           \A w \in Workshops \ ws : new[w] = reg[w],
           Write(c, new, ws), programme' = programme
    PROVE  /\ reg' = new
           /\ line' \in [Workshops -> Seq(Members)] /\ LineInv'
           /\ clerk' \in [Clerks -> ClerkJobs] /\ ClerkInv'
           /\ \A w \in Workshops : reg'[w] = reg[w] => line'[w] = line[w]
           /\ \A w \in Workshops : Extends(line[w], reg[w], new[w], line'[w])
<1>1. /\ reg' = new
      /\ line' = [w \in Workshops |-> LineAfter(line[w], reg[w], new[w])]
      /\ clerk' = [o \in Clerks |->
             CASE o = c -> AtDesk
               [] o # c /\ clerk[o] = AtDesk -> AtDesk
               [] OTHER -> [clerk[o] EXCEPT !.outdated = @ \cup ws]]
  BY DEF Write, LineAfter
<1>2. ASSUME NEW w \in Workshops
      PROVE  /\ line'[w] \in Seq(Members)
             /\ Lists(line'[w], new[w])
             /\ Extends(line[w], reg[w], new[w], line'[w])
             /\ reg'[w] = reg[w] => line'[w] = line[w]
  <2>1. /\ line[w] \in Seq(Members) /\ Lists(line[w], reg[w])
        /\ reg[w] \in [Members -> RegStatuses] /\ new[w] \in [Members -> RegStatuses]
    BY DEF WorkshopTypeOK, LineInv
  <2>2. line'[w] = LineAfter(line[w], reg[w], new[w])
    BY <1>1
  <2> QED
    BY <1>1, <2>1, <2>2, NewLine
<1>3. line' \in [Workshops -> Seq(Members)]
  BY <1>1, <1>2
<1>4. LineInv'
  <2> SUFFICES ASSUME NEW w \in Workshops PROVE Lists(line'[w], reg'[w])
    BY DEF LineInv, Lists
  <2>1. reg'[w] = new[w]
    BY <1>1
  <2> QED
    BY <1>2, <2>1
<1>5. ASSUME NEW o \in Clerks
      PROVE  /\ clerk'[o] \in ClerkJobs
             /\ \A w \in Workshops : clerk'[o] # AtDesk /\ w \notin clerk'[o].outdated =>
                    (UpToDate(clerk[o], w))'
  <2>1. CASE o = c \/ clerk[o] = AtDesk
    BY <1>1, <2>1, ClerkKinds
  <2>2. CASE o # c /\ clerk[o] # AtDesk
    <3>1. PICK j \in ClerkJobs : j = clerk[o]
      BY DEF WorkshopTypeOK
    <3>2. PICK k : k = [j EXCEPT !.outdated = @ \cup ws]
      OBVIOUS
    <3>3. clerk'[o] = k
      BY <1>1, <2>2, <3>1, <3>2
    <3>4. /\ k \in ClerkJobs /\ k # AtDesk /\ k.outdated = j.outdated \cup ws
          /\ k.op = j.op
          /\ j.op \in MemberOps => k.of = j.of /\ k.who = j.who /\ k.to = j.to /\ k.next = j.next
          /\ j.op = "draw" => k.of = j.of /\ k.pending = j.pending /\ k.places = j.places
          /\ j.op = "rank" => k.plan = j.plan
      <4>1. j # AtDesk
        BY <2>2, <3>1
      <4> HIDE <2>2, <3>1
      <4> QED
        BY <3>2, <4>1, OutdatedJob
    <3>5. ASSUME NEW w \in Workshops, w \notin k.outdated PROVE (UpToDate(clerk[o], w))'
      <4>1. w \notin ws /\ w \notin j.outdated
        BY <3>4, <3>5
      <4>2. UpToDate(j, w)
        BY <2>2, <3>1, <4>1 DEF ClerkInv
      <4>3. reg'[w] = reg[w] /\ line'[w] = line[w]
        BY <1>1, <1>2, <4>1
      <4>4. (UpToDate(j, w))'
        BY <4>2, <4>3, SameWorkshop
      <4>5. (UpToDate(k, w))'
        BY <3>4, <4>4 DEF UpToDate, MemberOps
      <4> QED
        BY <3>3, <4>5 DEF UpToDate
    <3> QED
      BY <3>3, <3>4, <3>5
  <2> QED
    BY <2>1, <2>2
<1>6. clerk' \in [Clerks -> ClerkJobs]
  <2>1. DOMAIN clerk' = Clerks /\ clerk' = [o \in Clerks |-> clerk'[o]]
    BY <1>1
  <2> QED
    BY <1>5, <2>1
<1>7. ClerkInv'
  BY <1>5 DEF ClerkInv
<1> QED
  BY <1>1, <1>2, <1>3, <1>4, <1>6, <1>7

\* A commit that leaves the workshops it is held to in place.
LEMMA CommitKeeps ==
    ASSUME WorkshopInv, NEW c \in Clerks, NEW ws \in SUBSET Workshops,
           NEW new \in [Workshops -> [Members -> RegStatuses]],
           \A w \in Workshops \ ws : new[w] = reg[w],
           Write(c, new, ws),
           programme' = programme, open' = open, finalised' = finalised,
           services' \in 0 .. MaxServices, raced' \subseteq Workshops, overridden' \subseteq Workshops,
           Undisturbed' \subseteq Undisturbed,
           \A w \in ws \cap Undisturbed' : (InPlace(w))'
    PROVE  WorkshopInv'
<1>1. /\ WorkshopTypeOK /\ LineInv /\ ClerkInv /\ \A w \in Undisturbed : InPlace(w)
  BY DEF WorkshopInv
<1>2. /\ reg' = new
      /\ line' \in [Workshops -> Seq(Members)] /\ LineInv'
      /\ clerk' \in [Clerks -> ClerkJobs] /\ ClerkInv'
      /\ \A w \in Workshops : reg'[w] = reg[w] => line'[w] = line[w]
  BY <1>1, WriteFacts
<1>3. WorkshopTypeOK'
  BY <1>1, <1>2 DEF WorkshopTypeOK
<1>4. ASSUME NEW w \in Undisturbed', w \notin ws PROVE (InPlace(w))'
  <2>1. w \in Workshops /\ w \in Undisturbed
    BY <1>4 DEF Undisturbed
  <2>2. reg'[w] = reg[w] /\ line'[w] = line[w]
    BY <1>2, <1>4, <2>1
  <2> QED
    BY <1>1, <2>1, <2>2, SameWorkshop
<1> QED
  BY <1>2, <1>3, <1>4 DEF WorkshopInv

-----------------------------------------------------------------------------
(* Workshops: the plan of an allocation by interest.                        *)

Plans == [Members -> Workshops \cup {Nowhere}]

\* One submission after the other, from 0 to n of them.
Planning(order, n, g) ==
    /\ g[0] = [m \in Members |-> Nowhere]
    /\ \A k \in 1 .. n : g[k] = PlaceOne(g[k - 1], order[k])

\* The workshops a submission may still get.
StillFree(plan, m) ==
    Those(programme.ranks[m],
          {w \in open : Confirmed(w) + Cardinality(Placed(plan, w)) < Capacity[w]})

LEMMA PlaceOneFacts ==
    ASSUME WorkshopTypeOK, NEW plan \in Plans, NEW m \in Members
    PROVE  /\ PlaceOne(plan, m) \in Plans
           /\ \/ /\ PlaceOne(plan, m) = plan
                 /\ StillFree(plan, m) = <<>> \/ reg[Head(StillFree(plan, m))][m] # "none"
              \/ \E v \in open : /\ PlaceOne(plan, m) = [plan EXCEPT ![m] = v]
                                 /\ StillFree(plan, m) # <<>> /\ v = Head(StillFree(plan, m))
                                 /\ Confirmed(v) + Cardinality(Placed(plan, v)) < Capacity[v]
                                 /\ reg[v][m] = "none"
<1> DEFINE S == {w \in open : Confirmed(w) + Cardinality(Placed(plan, w)) < Capacity[w]}
<1>1. programme.ranks[m] \in Seq(Workshops)
  BY ProgrammesAssumption DEF WorkshopTypeOK
<1>2. PICK f : f = Those(programme.ranks[m], S)
  OBVIOUS
<1>3. f = StillFree(plan, m)
  BY <1>2 DEF StillFree
<1>4. PlaceOne(plan, m) = IF f = <<>> \/ reg[Head(f)][m] # "none" THEN plan
                          ELSE [plan EXCEPT ![m] = Head(f)]
  BY <1>2 DEF PlaceOne, Placed
<1>5. f # <<>> => Head(f) \in S
  <2> HIDE DEF S
  <2>1. Those(programme.ranks[m], S) # <<>> => \E k \in 1 .. Len(programme.ranks[m]) :
                 /\ Head(Those(programme.ranks[m], S)) = programme.ranks[m][k]
                 /\ programme.ranks[m][k] \in S /\ programme.ranks[m][k] \in Workshops
                 /\ \A n \in 1 .. k - 1 : programme.ranks[m][n] \notin S
    BY <1>1, ThoseHead
  <2> QED
    BY <1>2, <2>1
<1>6. CASE f = <<>> \/ reg[Head(f)][m] # "none"
  BY <1>3, <1>4, <1>6
<1>7. CASE ~(f = <<>> \/ reg[Head(f)][m] # "none")
  <2>1. PICK v \in open : /\ v = Head(f)
                          /\ Confirmed(v) + Cardinality(Placed(plan, v)) < Capacity[v]
    BY <1>5, <1>7
  <2>2. PlaceOne(plan, m) = [plan EXCEPT ![m] = v]
    BY <1>4, <1>7, <2>1
  <2>3. v \in Workshops
    BY DEF WorkshopTypeOK
  <2>4. [plan EXCEPT ![m] = v] \in Plans
    BY <2>3 DEF Plans
  <2> QED
    BY <1>3, <1>7, <2>1, <2>2, <2>4
<1> QED
  BY <1>6, <1>7

LEMMA PlanningExists ==
    ASSUME WorkshopTypeOK, NEW order \in Seq(Members)
    PROVE  \E g \in [0 .. Len(order) -> Plans] : Planning(order, Len(order), g)
<1> DEFINE st == [p \in (1 .. Len(order)) \X Plans |-> PlaceOne(p[2], order[p[1]])]
           b == [m \in Members |-> Nowhere]
<1>0. Len(order) \in Nat /\ b \in Plans
  BY LenProperties DEF Plans
<1>1. st \in [(1 .. Len(order)) \X Plans -> Plans]
  <2> SUFFICES ASSUME NEW i \in 1 .. Len(order), NEW t \in Plans
               PROVE  PlaceOne(t, order[i]) \in Plans
    OBVIOUS
  <2>1. order[i] \in Members
    BY ElementOfSeq
  <2> QED
    BY <2>1, PlaceOneFacts
<1>2. PICK g \in [0 .. Len(order) -> Plans] : Along(st, b, Len(order), g)
  <2> HIDE DEF st, b
  <2> QED
    BY <1>0, <1>1, AlongExists
<1>3. g[0] = b
  BY <1>2 DEF Along
<1>4. ASSUME NEW i \in 1 .. Len(order) PROVE g[i] = PlaceOne(g[i - 1], order[i])
  <2>1. i - 1 \in 0 .. Len(order)
    BY <1>0
  <2>2. g[i - 1] \in Plans
    BY <2>1
  <2>3. g[i] = st[<<i, g[i - 1]>>]
    BY <1>2 DEF Along
  <2>4. st[<<i, g[i - 1]>>] = PlaceOne(g[i - 1], order[i])
    BY <2>2
  <2> QED
    BY <2>3, <2>4
<1> QED
  BY <1>3, <1>4 DEF Planning

LEMMA PlanningUnique ==
    ASSUME NEW n \in Nat, NEW order, NEW g, NEW h, Planning(order, n, g), Planning(order, n, h)
    PROVE  g[n] = h[n]
<1> DEFINE P == {k \in 0 .. n : g[k] = h[k]}
<1>1. 0 \in P
  BY DEF Planning
<1>2. ASSUME NEW k \in 0 .. n - 1, k \in P PROVE k + 1 \in P
  <2>1. PICK i \in 1 .. n : i = k + 1 /\ i - 1 = k
    OBVIOUS
  <2>2. g[i] = PlaceOne(g[i - 1], order[i]) /\ h[i] = PlaceOne(h[i - 1], order[i])
    BY DEF Planning
  <2>3. g[i - 1] = h[i - 1]
    BY <1>2, <2>1
  <2>4. g[i] = h[i]
    BY <2>2, <2>3
  <2> QED
    BY <2>1, <2>4
<1>3. \A k \in 0 .. n : k \in P
  <2> HIDE DEF P
  <2> QED
    BY <1>1, <1>2, UpTo
<1> QED
  BY <1>3

LEMMA PlanForPlanning ==
    ASSUME WorkshopTypeOK, NEW order \in Seq(Members), NEW g, Planning(order, Len(order), g)
    PROVE  PlanFor(order) = g[Len(order)]
<1> DEFINE Eq(f) == f = [n \in 0 .. Len(order) |->
                            IF n = 0 THEN [m \in Members |-> Nowhere]
                            ELSE PlaceOne(f[n - 1], order[n])]
<1>0. Len(order) \in Nat
  BY LenProperties
<1>1. PlanFor(order) = (CHOOSE f : Eq(f))[Len(order)]
  BY DEF PlanFor
<1>2. \A f : Eq(f) => Planning(order, Len(order), f)
  <2> SUFFICES ASSUME NEW f, Eq(f) PROVE Planning(order, Len(order), f)
    OBVIOUS
  <2>1. f[0] = [m \in Members |-> Nowhere]
    BY <1>0
  <2>2. ASSUME NEW n \in 1 .. Len(order) PROVE f[n] = PlaceOne(f[n - 1], order[n])
    <3>1. n \in 0 .. Len(order) /\ n # 0
      BY <1>0
    <3> QED
      BY <3>1
  <2> QED
    BY <2>1, <2>2 DEF Planning
<1>3. \E f : Eq(f)
  <2>1. PICK h \in [0 .. Len(order) -> Plans] : Planning(order, Len(order), h)
    BY PlanningExists
  <2>2. ASSUME NEW n \in 0 .. Len(order)
        PROVE  h[n] = IF n = 0 THEN [m \in Members |-> Nowhere] ELSE PlaceOne(h[n - 1], order[n])
    <3>1. CASE n = 0
      BY <2>1, <3>1 DEF Planning
    <3>2. CASE n # 0
      <4>1. n \in 1 .. Len(order)
        BY <1>0, <3>2
      <4> QED
        BY <2>1, <3>2, <4>1 DEF Planning
    <3> QED
      BY <3>1, <3>2
  <2>3. Eq(h)
    BY <2>2
  <2> QED
    BY <2>3
<1>4. Eq(CHOOSE f : Eq(f))
  <2> HIDE DEF Eq
  <2> QED
    BY <1>3
<1>5. Planning(order, Len(order), CHOOSE f : Eq(f))
  BY <1>2, <1>4
<1>6. (CHOOSE f : Eq(f))[Len(order)] = g[Len(order)]
  <2> HIDE DEF Eq
  <2> QED
    BY <1>0, <1>5, PlanningUnique
<1> QED
  BY <1>1, <1>6

\* Whatever the order, a plan gives places that are free to who is not registered.
LEMMA PlanIsFit ==
    ASSUME WorkshopTypeOK, NEW order \in Seq(Members)
    PROVE  /\ PlanFor(order) \in Plans
           /\ \A w \in Workshops : PlanFits(PlanFor(order), w)
<1>0. Len(order) \in Nat
  BY LenProperties
<1>1. PICK g \in [0 .. Len(order) -> Plans] : Planning(order, Len(order), g)
  BY PlanningExists
<1> DEFINE P == {k \in 0 .. Len(order) : \A w \in Workshops : PlanFits(g[k], w)}
<1>2. 0 \in P
  <2>1. g[0] = [m \in Members |-> Nowhere]
    BY <1>1 DEF Planning
  <2>2. \A w \in Workshops : Placed(g[0], w) = {}
    BY <2>1, NamesAssumption DEF Placed
  <2> QED
    BY <1>0, <2>2 DEF PlanFits
<1>3. ASSUME NEW k \in 0 .. Len(order) - 1, k \in P PROVE k + 1 \in P
  <2>1. PICK i \in 1 .. Len(order) : i = k + 1 /\ i - 1 = k
    BY <1>0
  <2>2. PICK m \in Members : m = order[i]
    BY ElementOfSeq
  <2>3. PICK p \in Plans : p = g[k]
    BY <1>0
  <2>4. g[i] = PlaceOne(p, m)
    BY <1>1, <2>1, <2>2, <2>3 DEF Planning
  <2>5. \A w \in Workshops : PlanFits(p, w)
    BY <1>3, <2>3
  <2>6. ASSUME NEW w \in Workshops PROVE PlanFits(PlaceOne(p, m), w)
    <3>1. CASE PlaceOne(p, m) = p
      BY <2>5, <3>1
    <3>2. ASSUME NEW v \in open, PlaceOne(p, m) = [p EXCEPT ![m] = v],
                 Confirmed(v) + Cardinality(Placed(p, v)) < Capacity[v], reg[v][m] = "none"
          PROVE  PlanFits(PlaceOne(p, m), w)
      <4> PICK q : q = [p EXCEPT ![m] = v]
        OBVIOUS
      <4>1. /\ Placed(p, w) \in SUBSET Members /\ Placed(q, w) \in SUBSET Members
            /\ w # v => Placed(q, w) \subseteq Placed(p, w)
            /\ w = v => Placed(q, w) \subseteq Placed(p, w) \cup {m}
        BY DEF Placed, Plans
      <4>2. /\ Cardinality(Placed(p, w)) \in Nat /\ Cardinality(Placed(q, w)) \in Nat
            /\ Confirmed(w) \in Nat /\ Capacity[w] \in Nat
        BY <4>1, MembersFinite, CapacityAssumption DEF Confirmed, HasStatus
      <4>3. CASE w = v
        <5>1. Cardinality(Placed(q, w)) <= Cardinality(Placed(p, w)) + 1
          BY <4>1, <4>3, OneMore
        <5>2. Confirmed(w) + Cardinality(Placed(q, w)) <= Capacity[w]
          BY <3>2, <4>2, <4>3, <5>1
        <5>3. \A n \in Placed(q, w) : reg[w][n] = "none"
          BY <2>5, <3>2, <4>1, <4>3 DEF PlanFits
        <5> QED
          BY <3>2, <5>2, <5>3 DEF PlanFits
      <4>4. CASE w # v
        <5>1. Cardinality(Placed(q, w)) <= Cardinality(Placed(p, w))
          BY <4>1, <4>4, MembersFinite, FS_Subset
        <5>2. ASSUME Placed(q, w) # {} PROVE Confirmed(w) + Cardinality(Placed(q, w)) <= Capacity[w]
          <6>1. Placed(p, w) # {}
            BY <4>1, <4>4, <5>2
          <6>2. PlanFits(p, w)
            BY <2>5
          <6>3. Confirmed(w) + Cardinality(Placed(p, w)) <= Capacity[w]
            BY <6>1, <6>2 DEF PlanFits
          <6> QED
            BY <4>2, <5>1, <6>3
        <5>3. \A n \in Placed(q, w) : reg[w][n] = "none"
          BY <2>5, <4>1, <4>4 DEF PlanFits
        <5>4. PlanFits(q, w)
          BY <5>2, <5>3 DEF PlanFits
        <5> QED
          BY <3>2, <5>4
      <4> QED
        BY <4>3, <4>4
    <3> QED
      BY <3>1, <3>2, PlaceOneFacts
  <2> QED
    BY <1>0, <2>1, <2>4, <2>6
<1>4. \A k \in 0 .. Len(order) : k \in P
  <2> HIDE DEF P
  <2> QED
    BY <1>0, <1>2, <1>3, UpTo
<1>5. PlanFor(order) = g[Len(order)] /\ Len(order) \in 0 .. Len(order)
  BY <1>0, <1>1, PlanForPlanning
<1> QED
  BY <1>4, <1>5

-----------------------------------------------------------------------------
(* Workshops: requests begin, choose, or end without a commit.              *)

LEMMA OnJob ==
    ASSUME NEW op \in MemberOps, NEW w \in Workshops, NEW m \in Members, NEW to \in RegStatuses
    PROVE  \E j \in ClerkJobs : /\ j = On(op, w, m, to) /\ j # AtDesk
                                /\ j.op = op /\ j.of = w /\ j.who = m /\ j.to = to
<1> DEFINE j == On(op, w, m, to)
<1>1. /\ j \in MemberJobs
      /\ j.op = op /\ j.of = w /\ j.who = m /\ j.to = to
  BY DEF On, MemberJobs
<1>2. op # "none"
  BY DEF MemberOps
<1> QED
  BY <1>1, <1>2, ClerkKinds

LEMMA BeginKeeps ==
    ASSUME WorkshopInv, NEW c \in Clerks, NEW j \in ClerkJobs, Begin(c, j),
           \A w \in Workshops : UpToDate(j, w)
    PROVE  WorkshopInv'
<1>1. /\ programme' = programme /\ reg' = reg /\ line' = line
      /\ raced' = raced /\ overridden' = overridden
      /\ open' = open /\ finalised' = finalised
      /\ services < MaxServices /\ services' = services + 1
      /\ clerk' = [clerk EXCEPT ![c] = j]
  BY DEF Begin, Serve
<1>2. open' \subseteq Workshops /\ finalised' \subseteq Members /\ services' \in 0 .. MaxServices
  BY <1>1, MaxServicesAssumption DEF WorkshopInv, WorkshopTypeOK
<1> QED
  BY <1>1, <1>2, ReadingKeeps

\* Whom promote_from_waitlist chooses: the first in the line who waits.
LEMMA NextWaitingFacts ==
    ASSUME WorkshopTypeOK, LineInv, NEW w \in Workshops, NEW x
    PROVE  /\ NextWaiting(w, x) \in Members \cup {Nobody}
           /\ NextWaiting(w, x) # Nobody =>
                 /\ HasPlace(w, x)
                 /\ \E k \in 1 .. Len(line[w]) :
                       /\ line[w][k] = NextWaiting(w, x) /\ line[w][k] \in Members
                       /\ reg[w][line[w][k]] = "WAITLISTED" /\ line[w][k] # x
                       /\ \A n \in 1 .. k - 1 :
                             reg[w][line[w][n]] = "WAITLISTED" => line[w][n] = x
           /\ HasPlace(w, x) /\ NextWaiting(w, x) = Nobody => HasStatus(w, "WAITLISTED") \subseteq {x}
<1>1. PICK l \in Seq(Members) : l = line[w]
  BY DEF WorkshopTypeOK
<1>2. PICK S : S = HasStatus(w, "WAITLISTED") \ {x}
  OBVIOUS
<1>3. PICK f : f = Those(l, S)
  OBVIOUS
<1>4. NextWaiting(w, x) = IF HasPlace(w, x) /\ f # <<>> THEN Head(f) ELSE Nobody
  BY <1>1, <1>2, <1>3 DEF NextWaiting, Waiting
<1>5. f = <<>> <=> \A k \in 1 .. Len(l) : l[k] \notin S
  BY <1>3, ThoseHead
<1>6. f # <<>> => \E k \in 1 .. Len(l) :
                 /\ Head(f) = l[k] /\ l[k] \in S /\ l[k] \in Members
                 /\ \A n \in 1 .. k - 1 : l[n] \notin S
  BY <1>3, ThoseHead
<1>7. \A m \in Members : m \in S <=> reg[w][m] = "WAITLISTED" /\ m # x
  BY <1>2 DEF HasStatus
<1>8. \A n \in 1 .. Len(l) : l[n] \in Members
  BY ElementOfSeq
<1>9. \A m \in Members : reg[w][m] # "none" => \E i \in 1 .. Len(l) : l[i] = m
  BY <1>1 DEF LineInv, Lists
<1>10. CASE HasPlace(w, x) /\ f # <<>>
  <2>1. PICK k \in 1 .. Len(l) : /\ Head(f) = l[k] /\ l[k] \in S /\ l[k] \in Members
                                 /\ \A n \in 1 .. k - 1 : l[n] \notin S
    BY <1>6, <1>10
  <2>2. NextWaiting(w, x) = l[k]
    BY <1>4, <1>10, <2>1
  <2>3. Len(l) \in Nat
    BY LenProperties
  <2>4. ASSUME NEW n \in 1 .. k - 1, reg[w][l[n]] = "WAITLISTED" PROVE l[n] = x
    <3>1. n \in 1 .. Len(l)
      BY <2>3
    <3> QED
      BY <1>7, <1>8, <2>1, <2>4, <3>1
  <2>5. reg[w][l[k]] = "WAITLISTED" /\ l[k] # x
    BY <1>7, <2>1
  <2>6. l[k] # Nobody
    BY <2>1, NamesAssumption
  <2> QED
    BY <1>1, <1>10, <2>1, <2>2, <2>4, <2>5, <2>6
<1>11. CASE ~(HasPlace(w, x) /\ f # <<>>)
  <2>1. NextWaiting(w, x) = Nobody
    BY <1>4, <1>11
  <2>2. ASSUME HasPlace(w, x), NEW m \in HasStatus(w, "WAITLISTED") PROVE m = x
    <3>1. m \in Members /\ reg[w][m] = "WAITLISTED"
      BY <2>2 DEF HasStatus
    <3>2. PICK i \in 1 .. Len(l) : l[i] = m
      BY <1>9, <3>1
    <3>3. m \notin S
      BY <1>5, <1>11, <2>2, <3>2
    <3> QED
      BY <1>7, <3>1, <3>3
  <2> QED
    BY <2>1, <2>2
<1> QED
  BY <1>10, <1>11

LEMMA RegisterKeeps ==
    ASSUME WorkshopInv, NEW c \in Clerks, NEW w \in Workshops, NEW m \in Members, Register(c, w, m)
    PROVE  WorkshopInv'
<1>1. reg[w][m] = "none" /\ Begin(c, On("register", w, m, StatusOnRegistering(w)))
  BY DEF Register
<1>2. StatusOnRegistering(w) \in RegStatuses
  BY DEF StatusOnRegistering, RegStatuses
<1>3. PICK j \in ClerkJobs : /\ j = On("register", w, m, StatusOnRegistering(w))
                             /\ j.op = "register" /\ j.of = w /\ j.who = m /\ j.to = StatusOnRegistering(w)
  BY <1>2, OnJob DEF MemberOps
<1>4. Begin(c, j)
  BY <1>1, <1>3
<1>5. \A v \in Workshops : UpToDate(j, v)
  BY <1>1, <1>3 DEF UpToDate
<1> QED
  BY <1>4, <1>5, BeginKeeps

LEMMA PromoteKeeps ==
    ASSUME WorkshopInv, NEW c \in Clerks, NEW w \in Workshops, Promote(c, w)
    PROVE  WorkshopInv'
<1>1. PICK m : m = NextWaiting(w, Nobody)
  OBVIOUS
<1>2. m # Nobody /\ Begin(c, On("promote", w, m, "CONFIRMED"))
  BY <1>1 DEF Promote
<1>3. m \in Members
  BY <1>1, <1>2, NextWaitingFacts DEF WorkshopInv
<1>4. PICK j \in ClerkJobs : /\ j = On("promote", w, m, "CONFIRMED")
                             /\ j.op = "promote" /\ j.of = w /\ j.who = m
  BY <1>3, OnJob DEF MemberOps, RegStatuses
<1>5. Begin(c, j)
  BY <1>2, <1>4
<1>6. \A v \in Workshops : UpToDate(j, v)
  BY <1>1, <1>4 DEF UpToDate
<1> QED
  BY <1>5, <1>6, BeginKeeps

LEMMA CancelKeeps ==
    ASSUME WorkshopInv, NEW c \in Clerks, NEW w \in Workshops, NEW m \in Members,
           Cancel(c, w, m) \/ Confirm(c, w, m)
    PROVE  WorkshopInv'
<1>1. PICK op \in {"cancel", "confirm"}, to \in RegStatuses : Begin(c, On(op, w, m, to))
  BY DEF Cancel, Confirm, RegStatuses
<1>2. PICK j \in ClerkJobs : j = On(op, w, m, to) /\ j.op = op
  BY OnJob DEF MemberOps
<1>3. Begin(c, j)
  BY <1>1, <1>2
<1>4. \A v \in Workshops : UpToDate(j, v)
  BY <1>2 DEF UpToDate
<1> QED
  BY <1>3, <1>4, BeginKeeps

LEMMA DrawKeeps ==
    ASSUME WorkshopInv, NEW c \in Clerks, NEW w \in Workshops, Draw(c, w)
    PROVE  WorkshopInv'
<1>1. PICK P, n : P = HasStatus(w, "PENDING_ALLOCATION") /\ n = PlacesLeft(w)
  OBVIOUS
<1>2. P \in SUBSET Members /\ n \in Nat
  <2>1. Capacity[w] \in Nat /\ Confirmed(w) \in Nat
    BY CapacityAssumption, MembersFinite DEF Confirmed, HasStatus
  <2> QED
    BY <1>1, <2>1 DEF HasStatus, PlacesLeft, NoPlaceLeft
<1>3. PICK j : j = [op |-> "draw", of |-> w, pending |-> P, places |-> n, outdated |-> {}]
  OBVIOUS
<1>4. j \in DrawJobs /\ j.op = "draw" /\ j.of = w /\ j.pending = P /\ j.places = n
  BY <1>2, <1>3 DEF DrawJobs
<1>5. Begin(c, j)
  BY <1>1, <1>3 DEF Draw
<1>6. \A v \in Workshops : UpToDate(j, v)
  BY <1>1, <1>4 DEF UpToDate
<1> QED
  BY <1>4, <1>5, <1>6, BeginKeeps, ClerkKinds

LEMMA RankKeeps ==
    ASSUME WorkshopInv, NEW c \in Clerks, Rank(c)
    PROVE  WorkshopInv'
<1>1. PICK p : p = Plan
  OBVIOUS
<1>2. Finalised \in Seq(Members)
  BY SubmittedAssumption, ThoseFacts DEF Finalised
<1>3. p \in Plans /\ \A w \in Workshops : PlanFits(p, w)
  BY <1>1, <1>2, PlanIsFit DEF Plan, WorkshopInv
<1>4. PICK j : j = [op |-> "rank", plan |-> p, outdated |-> {}]
  OBVIOUS
<1>5. j \in RankJobs /\ j.op = "rank" /\ j.plan = p
  BY <1>3, <1>4 DEF RankJobs, Plans
<1>6. Begin(c, j)
  BY <1>1, <1>4 DEF Rank
<1>7. \A v \in Workshops : UpToDate(j, v)
  BY <1>3, <1>5 DEF UpToDate
<1> QED
  BY <1>5, <1>6, <1>7, BeginKeeps, ClerkKinds

LEMMA CancellingKeeps ==
    ASSUME WorkshopInv, NEW c \in Clerks, Cancelling(c)
    PROVE  WorkshopInv'
<1>1. WorkshopTypeOK /\ LineInv
  BY DEF WorkshopInv
<1>2. PICK j \in ClerkJobs : j = clerk[c]
  BY <1>1 DEF WorkshopTypeOK
<1>3. /\ j.op = "cancel" /\ reg[j.of][j.who] # "none"
      /\ clerk' = [clerk EXCEPT ![c] = [j EXCEPT !.op = "cancelling", !.outdated = {},
                                               !.next = NextWaiting(j.of, j.who)]]
      /\ UNCHANGED <<programme, open, finalised, reg, line, services, raced, overridden>>
  BY <1>2 DEF Cancelling
<1>4. j \in MemberJobs /\ j.of \in Workshops
  BY <1>3, ClerkKinds DEF MemberOps, MemberJobs
<1>5. PICK n \in Members \cup {Nobody} : n = NextWaiting(j.of, j.who)
  BY <1>1, <1>4, NextWaitingFacts
<1>6. PICK k : k = [j EXCEPT !.op = "cancelling", !.outdated = {}, !.next = n]
  OBVIOUS
<1>7. /\ k \in MemberJobs /\ k.op = "cancelling" /\ k.of = j.of /\ k.who = j.who /\ k.next = n
      /\ k.outdated = {}
  BY <1>4, <1>6 DEF MemberJobs, MemberOps
<1>8. k \in ClerkJobs /\ clerk' = [clerk EXCEPT ![c] = k]
  BY <1>3, <1>5, <1>6, <1>7, ClerkKinds
<1>9. \A w \in Workshops \ k.outdated : UpToDate(k, w)
  BY <1>3, <1>5, <1>7 DEF UpToDate
<1>10. open' \subseteq Workshops /\ finalised' \subseteq Members /\ services' \in 0 .. MaxServices
  BY <1>1, <1>3 DEF WorkshopTypeOK
<1> QED
  BY <1>3, <1>8, <1>9, <1>10, ReadingKeeps

LEMMA RollBackKeeps ==
    ASSUME WorkshopInv, NEW c \in Clerks, RollBack(c)
    PROVE  WorkshopInv'
<1>1. AtDesk \in ClerkJobs
  BY ClerkKinds
<1>2. /\ clerk' = [clerk EXCEPT ![c] = AtDesk]
      /\ UNCHANGED <<programme, open, finalised, reg, line, services, raced, overridden>>
  BY DEF RollBack
<1>3. open' \subseteq Workshops /\ finalised' \subseteq Members /\ services' \in 0 .. MaxServices
  BY <1>2 DEF WorkshopInv, WorkshopTypeOK
<1> QED
  BY <1>1, <1>2, <1>3, ReadingKeeps

LEMMA SettingKeeps ==
    ASSUME WorkshopInv,
           \/ \E w \in Workshops : SetOpen(open \cup {w}) \/ SetOpen(open \ {w})
           \/ \E m \in Members : SetFinalised(m)
    PROVE  WorkshopInv'
<1>1. open \subseteq Workshops /\ finalised \subseteq Members /\ services \in 0 .. MaxServices
  BY DEF WorkshopInv, WorkshopTypeOK
<1>2. /\ UNCHANGED <<programme, reg, line, clerk, raced, overridden>>
      /\ services < MaxServices /\ services' = services + 1
      /\ open' \subseteq Workshops /\ finalised' \subseteq Members
  BY <1>1 DEF SetOpen, SetFinalised, Serve
<1>3. services' \in 0 .. MaxServices
  BY <1>1, <1>2, MaxServicesAssumption
<1> QED
  BY <1>2, <1>3, ReadingKeeps

-----------------------------------------------------------------------------
(* Workshops: one registration is committed.                                *)

\* A status that m may be given: a place if one is free, or to wait if none is.
MayBeGiven(w, m, to) ==
    /\ to # "none"
    /\ to = "CONFIRMED" => ~NoPlaceLeft(w)
    /\ programme.mode[w] = "FCFS" =>
           \/ to = "CONFIRMED"
           \/ to = "WAITLISTED" /\ NoPlaceLeft(w) /\ reg[w][m] = "none"

LEMMA OneChanged ==
    ASSUME WorkshopTypeOK, LineInv, NEW w \in Workshops, NEW m \in Members,
           NEW to \in RegStatuses,
           line' \in [Workshops -> Seq(Members)], programme' = programme,
           \A n \in Members : reg'[w][n] = IF n = m THEN to ELSE reg[w][n],
           Extends(line[w], reg[w], reg'[w], line'[w]),
           InPlace(w), MayBeGiven(w, m, to)
    PROVE  (InPlace(w))'
<1>1. /\ \A s : (HasStatus(w, s))' \subseteq HasStatus(w, s) \cup {m}
      /\ \A s : s # to => (HasStatus(w, s))' \subseteq HasStatus(w, s)
      /\ \A s : (HasStatus(w, s))' \subseteq Members /\ HasStatus(w, s) \subseteq Members
  BY DEF HasStatus
<1>2. PICK S \in SUBSET Members, T \in SUBSET Members :
          S = HasStatus(w, "CONFIRMED") /\ T = (HasStatus(w, "CONFIRMED"))'
  BY <1>1
<1>3. /\ Confirmed(w) = Cardinality(S) /\ (Confirmed(w))' = Cardinality(T)
      /\ Cardinality(S) \in Nat /\ Cardinality(T) \in Nat /\ Capacity[w] \in Nat
  BY <1>2, MembersFinite, CapacityAssumption DEF Confirmed
<1>4. Cardinality(S) <= Capacity[w]
  BY <1>3 DEF InPlace
<1>5. (Confirmed(w))' <= Capacity[w]
  <2>1. CASE to = "CONFIRMED"
    <3>1. T \subseteq S \cup {m}
      BY <1>1, <1>2
    <3>2. Cardinality(T) <= Cardinality(S) + 1
      BY <3>1, OneMore
    <3>3. Cardinality(S) < Capacity[w]
      BY <1>3, <2>1 DEF NoPlaceLeft, MayBeGiven
    <3> QED
      BY <1>3, <3>2, <3>3
  <2>2. CASE to # "CONFIRMED"
    <3>1. T \subseteq S
      BY <1>1, <1>2, <2>2
    <3>2. Cardinality(T) <= Cardinality(S)
      BY <3>1, MembersFinite, FS_Subset
    <3> QED
      BY <1>3, <1>4, <3>2
  <2> QED
    BY <2>1, <2>2
<1>6. ASSUME programme.mode[w] = "FCFS" PROVE (InOrder(w))'
  <2>1. /\ HasStatus(w, "PENDING_ALLOCATION") = {}
        /\ HasStatus(w, "WAITLISTED") # {} => NoPlaceLeft(w)
        /\ \A i, k \in 1 .. Len(line[w]) :
              i < k /\ reg[w][line[w][i]] = "WAITLISTED" => reg[w][line[w][k]] # "CONFIRMED"
    BY <1>6 DEF InPlace, InOrder
  <2>2. \/ to = "CONFIRMED"
        \/ to = "WAITLISTED" /\ NoPlaceLeft(w) /\ reg[w][m] = "none"
    BY <1>6 DEF MayBeGiven
  <2>3. (HasStatus(w, "PENDING_ALLOCATION"))' = {}
    <3>1. (HasStatus(w, "PENDING_ALLOCATION"))' \subseteq HasStatus(w, "PENDING_ALLOCATION")
      BY <1>1, <2>2
    <3> QED
      BY <2>1, <3>1
  <2>4. PICK l \in Seq(Members), k \in Seq(Members) : l = line[w] /\ k = line'[w]
    BY DEF WorkshopTypeOK
  <2>5. \A i \in 1 .. Len(k) : k[i] \in Members
    BY ElementOfSeq
  <2>6. CASE to = "CONFIRMED"
    <3>1. HasStatus(w, "WAITLISTED") = {}
      BY <2>1, <2>6 DEF MayBeGiven
    <3>2. (HasStatus(w, "WAITLISTED"))' = {}
      <4>1. (HasStatus(w, "WAITLISTED"))' \subseteq HasStatus(w, "WAITLISTED")
        BY <1>1, <2>6
      <4> QED
        BY <3>1, <4>1
    <3>3. \A i \in 1 .. Len(line'[w]) : reg'[w][line'[w][i]] # "WAITLISTED"
      BY <2>4, <2>5, <3>2 DEF HasStatus
    <3> QED
      BY <2>3, <3>2, <3>3 DEF InOrder
  <2>7. CASE to = "WAITLISTED" /\ NoPlaceLeft(w) /\ reg[w][m] = "none"
    <3>1. S \subseteq T
      BY <1>2, <2>7 DEF HasStatus
    <3>2. Cardinality(S) <= Cardinality(T)
      BY <3>1, MembersFinite, FS_Subset
    <3>3. (NoPlaceLeft(w))'
      BY <1>3, <2>7, <3>2 DEF NoPlaceLeft
    <3>4. /\ Len(l) <= Len(k)
          /\ \A i \in 1 .. Len(l) : k[i] = l[i]
          /\ \A i \in Len(l) + 1 .. Len(k) : k[i] \in Members /\ reg[w][k[i]] = "none"
      <4>1. \A n \in Members : reg[w][n] # "none" => reg'[w][n] # "none"
        BY <2>7
      <4> QED
        BY <2>4, <4>1 DEF Extends
    <3>5. ASSUME NEW i \in 1 .. Len(k), NEW n \in 1 .. Len(k), i < n,
                 reg'[w][k[i]] = "WAITLISTED", reg'[w][k[n]] = "CONFIRMED"
          PROVE  FALSE
      <4>1. k[n] # m /\ reg[w][k[n]] = "CONFIRMED"
        BY <2>5, <2>7, <3>5
      <4>2. Len(l) \in Nat /\ Len(k) \in Nat
        BY LenProperties
      <4>3. n \in 1 .. Len(l) /\ i \in 1 .. Len(l)
        BY <3>4, <3>5, <4>1, <4>2
      <4>4. k[i] = l[i] /\ k[n] = l[n]
        BY <3>4, <4>3
      <4>5. reg[w][l[i]] # "none"
        BY <2>4, <2>5, <4>3, <4>4 DEF LineInv, Lists
      <4>6. k[i] # m
        BY <2>7, <4>4, <4>5
      <4>7. reg[w][l[i]] = "WAITLISTED"
        BY <2>5, <3>5, <4>4, <4>6
      <4> QED
        BY <2>1, <2>4, <3>5, <4>1, <4>3, <4>4, <4>7
    <3>6. \A i, n \in 1 .. Len(line'[w]) :
              i < n /\ reg'[w][line'[w][i]] = "WAITLISTED" => reg'[w][line'[w][n]] # "CONFIRMED"
      BY <2>4, <3>5
    <3> QED
      BY <2>3, <3>3, <3>6 DEF InOrder
  <2> QED
    BY <2>2, <2>6, <2>7
<1> QED
  BY <1>5, <1>6 DEF InPlace

LEMMA CommitOne ==
    ASSUME WorkshopInv, NEW c \in Clerks, NEW w \in Workshops, NEW m \in Members,
           NEW to \in RegStatuses, Write(c, With(w, m, to), {w}),
           programme' = programme, open' = open, finalised' = finalised,
           services' \in 0 .. MaxServices,
           raced \subseteq raced', raced' \subseteq Workshops,
           overridden \subseteq overridden', overridden' \subseteq Workshops,
           w \in Undisturbed' => MayBeGiven(w, m, to)
    PROVE  WorkshopInv'
<1>1. /\ WorkshopTypeOK /\ LineInv /\ ClerkInv /\ \A v \in Undisturbed : InPlace(v)
  BY DEF WorkshopInv
<1>2. PICK new : new = With(w, m, to)
  OBVIOUS
<1>3. /\ new \in [Workshops -> [Members -> RegStatuses]]
      /\ \A v \in Workshops \ {w} : new[v] = reg[v]
      /\ \A n \in Members : new[w][n] = IF n = m THEN to ELSE reg[w][n]
  BY <1>1, <1>2 DEF With, WorkshopTypeOK
<1>4. Write(c, new, {w})
  BY <1>2
<1>5. /\ reg' = new
      /\ line' \in [Workshops -> Seq(Members)]
      /\ \A v \in Workshops : Extends(line[v], reg[v], new[v], line'[v])
  BY <1>1, <1>3, <1>4, WriteFacts
<1>6. Undisturbed' \subseteq Undisturbed
  BY DEF Undisturbed
<1>7. ASSUME w \in Undisturbed' PROVE (InPlace(w))'
  <2>1. InPlace(w)
    BY <1>1, <1>6, <1>7
  <2>2. \A n \in Members : reg'[w][n] = IF n = m THEN to ELSE reg[w][n]
    BY <1>3, <1>5
  <2>3. Extends(line[w], reg[w], reg'[w], line'[w])
    BY <1>5
  <2> HIDE <1>2
  <2> QED
    BY <1>1, <1>5, <1>7, <2>1, <2>2, <2>3, OneChanged
<1>8. \A v \in {w} \cap Undisturbed' : (InPlace(v))'
  <2> SUFFICES ASSUME NEW v \in {w} \cap Undisturbed' PROVE (InPlace(v))'
    OBVIOUS
  <2>1. v = w /\ w \in Undisturbed'
    OBVIOUS
  <2> QED
    BY <1>7, <2>1
<1>9. {w} \in SUBSET Workshops
  OBVIOUS
<1> QED
  BY <1>3, <1>4, <1>6, <1>8, <1>9, CommitKeeps

\* A request that commits on what is still so.
LEMMA InTime ==
    ASSUME WorkshopInv, NEW c \in Clerks, clerk[c] # AtDesk, NEW ws \in SUBSET Workshops,
           raced' = raced \cup (clerk[c].outdated \cap ws), NEW w \in ws, w \in Undisturbed'
    PROVE  UpToDate(clerk[c], w)
BY DEF WorkshopInv, ClerkInv, Undisturbed

\* What a commit on a single registration has in common.
LEMMA MemberCommit ==
    ASSUME WorkshopInv, NEW c \in Clerks, clerk[c].op \in MemberOps, NEW new,
           Commit(c, new, {clerk[c].of})
    PROVE  /\ clerk[c] # AtDesk /\ clerk[c] \in MemberJobs
           /\ Write(c, new, {clerk[c].of})
           /\ programme' = programme /\ open' = open /\ finalised' = finalised
           /\ services' \in 0 .. MaxServices
           /\ raced' = raced \cup (clerk[c].outdated \cap {clerk[c].of})
           /\ raced \subseteq raced' /\ raced' \subseteq Workshops
<1>1. /\ clerk[c] \in ClerkJobs /\ services \in 0 .. MaxServices /\ raced \subseteq Workshops
      /\ overridden \subseteq Workshops
  BY DEF WorkshopInv, WorkshopTypeOK
<1>2. clerk[c] \in MemberJobs /\ clerk[c] # AtDesk
  BY <1>1, ClerkKinds DEF MemberOps
<1>3. clerk[c].of \in Workshops
  BY <1>2 DEF MemberJobs
<1> QED
  BY <1>1, <1>2, <1>3 DEF Commit

LEMMA RegisteredKeeps ==
    ASSUME WorkshopInv, NEW c \in Clerks, Registered(c)
    PROVE  WorkshopInv'
<1>1. PICK j : j = clerk[c]
  OBVIOUS
<1>2. j.op = "register" /\ Commit(c, With(j.of, j.who, j.to), {j.of}) /\ overridden' = overridden
  BY <1>1 DEF Registered
<1>3. /\ j # AtDesk /\ j \in MemberJobs
      /\ Write(c, With(j.of, j.who, j.to), {j.of})
      /\ programme' = programme /\ open' = open /\ finalised' = finalised
      /\ services' \in 0 .. MaxServices
      /\ raced' = raced \cup (j.outdated \cap {j.of})
      /\ raced \subseteq raced' /\ raced' \subseteq Workshops
  BY <1>1, <1>2, MemberCommit DEF MemberOps
<1>4. PICK w \in Workshops, m \in Members, to \in RegStatuses : w = j.of /\ m = j.who /\ to = j.to
  BY <1>3 DEF MemberJobs
<1>5. ASSUME w \in Undisturbed'
      PROVE  MayBeGiven(w, m, to)
  <2>1. UpToDate(j, w)
    BY <1>1, <1>3, <1>4, <1>5, InTime
  <2>2. reg[w][m] = "none" /\ to = StatusOnRegistering(w)
    BY <1>2, <1>4, <2>1 DEF UpToDate
  <2> QED
    BY <2>2 DEF StatusOnRegistering, MayBeGiven
<1>6. overridden' \subseteq Workshops
  BY <1>2 DEF WorkshopInv, WorkshopTypeOK
<1>7. Write(c, With(w, m, to), {w})
  BY <1>3, <1>4
<1> QED
  BY <1>2, <1>3, <1>5, <1>6, <1>7, CommitOne

LEMMA PromotedKeeps ==
    ASSUME WorkshopInv, NEW c \in Clerks, Promoted(c)
    PROVE  WorkshopInv'
<1>1. PICK j : j = clerk[c]
  OBVIOUS
<1>2. j.op = "promote" /\ Commit(c, With(j.of, j.who, "CONFIRMED"), {j.of}) /\ overridden' = overridden
  BY <1>1 DEF Promoted
<1>3. /\ j # AtDesk /\ j \in MemberJobs
      /\ Write(c, With(j.of, j.who, "CONFIRMED"), {j.of})
      /\ programme' = programme /\ open' = open /\ finalised' = finalised
      /\ services' \in 0 .. MaxServices
      /\ raced' = raced \cup (j.outdated \cap {j.of})
      /\ raced \subseteq raced' /\ raced' \subseteq Workshops
  BY <1>1, <1>2, MemberCommit DEF MemberOps
<1>4. PICK w \in Workshops, m \in Members : w = j.of /\ m = j.who
  BY <1>3 DEF MemberJobs
<1>5. ASSUME w \in Undisturbed' PROVE MayBeGiven(w, m, "CONFIRMED")
  <2>1. UpToDate(j, w)
    BY <1>1, <1>3, <1>4, <1>5, InTime
  <2>2. m = NextWaiting(w, Nobody) /\ m # Nobody
    BY <1>2, <1>4, <2>1, NamesAssumption DEF UpToDate
  <2>3. HasPlace(w, Nobody)
    BY <2>2, NextWaitingFacts DEF WorkshopInv
  <2>4. HasStatus(w, "CONFIRMED") \ {Nobody} = HasStatus(w, "CONFIRMED")
    BY NamesAssumption DEF HasStatus
  <2>5. Confirmed(w) < Capacity[w]
    BY <2>3, <2>4 DEF HasPlace, Confirmed
  <2>6. Confirmed(w) \in Nat /\ Capacity[w] \in Nat
    BY MembersFinite, CapacityAssumption DEF Confirmed, HasStatus
  <2> QED
    BY <2>5, <2>6 DEF NoPlaceLeft, MayBeGiven
<1>6. overridden' \subseteq Workshops
  BY <1>2 DEF WorkshopInv, WorkshopTypeOK
<1>7. Write(c, With(w, m, "CONFIRMED"), {w}) /\ "CONFIRMED" \in RegStatuses
  BY <1>3, <1>4 DEF RegStatuses
<1> QED
  BY <1>2, <1>3, <1>5, <1>6, <1>7, CommitOne

LEMMA ConfirmedByStaffKeeps ==
    ASSUME WorkshopInv, NEW c \in Clerks, ConfirmedByStaff(c)
    PROVE  WorkshopInv'
<1>1. PICK j : j = clerk[c]
  OBVIOUS
<1>2. /\ j.op = "confirm" /\ Commit(c, With(j.of, j.who, "CONFIRMED"), {j.of})
      /\ overridden' = overridden \cup IF PassesOver(j.of, j.who) THEN {j.of} ELSE {}
  BY <1>1 DEF ConfirmedByStaff
<1>3. /\ j \in MemberJobs
      /\ Write(c, With(j.of, j.who, "CONFIRMED"), {j.of})
      /\ programme' = programme /\ open' = open /\ finalised' = finalised
      /\ services' \in 0 .. MaxServices
      /\ raced \subseteq raced' /\ raced' \subseteq Workshops
  BY <1>1, <1>2, MemberCommit DEF MemberOps
<1>4. PICK w \in Workshops, m \in Members : w = j.of /\ m = j.who
  BY <1>3 DEF MemberJobs
<1>5. ASSUME w \in Undisturbed' PROVE MayBeGiven(w, m, "CONFIRMED")
  <2>1. ~PassesOver(w, m)
    BY <1>2, <1>4, <1>5 DEF Undisturbed
  <2> QED
    BY <2>1 DEF PassesOver, MayBeGiven
<1>6. overridden' \subseteq Workshops /\ overridden \subseteq overridden'
  BY <1>2, <1>4 DEF WorkshopInv, WorkshopTypeOK
<1>7. Write(c, With(w, m, "CONFIRMED"), {w}) /\ "CONFIRMED" \in RegStatuses
  BY <1>3, <1>4 DEF RegStatuses
<1> QED
  BY <1>3, <1>5, <1>6, <1>7, CommitOne

LEMMA AmendKeeps ==
    ASSUME WorkshopInv, NEW c \in Clerks, NEW w \in Workshops, NEW m \in Members,
           NEW s \in RegStatuses, Amend(c, w, m, s)
    PROVE  WorkshopInv'
<1>1. /\ Write(c, With(w, m, s), {w}) /\ services < MaxServices /\ services' = services + 1
      /\ overridden' = overridden \cup {w}
      /\ programme' = programme /\ open' = open /\ finalised' = finalised /\ raced' = raced
  BY DEF Amend, Serve
<1>2. /\ services \in 0 .. MaxServices /\ overridden \subseteq Workshops /\ raced \subseteq Workshops
  BY DEF WorkshopInv, WorkshopTypeOK
<1>3. services' \in 0 .. MaxServices
  BY <1>1, <1>2, MaxServicesAssumption
<1>4. w \notin Undisturbed' /\ overridden' \subseteq Workshops /\ overridden \subseteq overridden'
  BY <1>1, <1>2 DEF Undisturbed
<1> QED
  BY <1>1, <1>2, <1>3, <1>4, CommitOne

-----------------------------------------------------------------------------
(* Workshops: a cancellation is committed.                                  *)

\* Who is registered after a write that registers and removes nobody was
\* registered before, at the same place in the line.
LEMMA SamePlaces ==
    ASSUME NEW l \in Seq(Members), NEW k \in Seq(Members),
           NEW r \in [Members -> RegStatuses], NEW q \in [Members -> RegStatuses],
           Extends(l, r, q, k), \A m \in Members : r[m] = "none" <=> q[m] = "none",
           NEW i \in 1 .. Len(k), q[k[i]] # "none"
    PROVE  i \in 1 .. Len(l) /\ k[i] = l[i]
<1>1. Len(l) \in Nat /\ Len(k) \in Nat
  BY LenProperties
<1>2. /\ \A n \in 1 .. Len(l) : k[n] = l[n]
      /\ \A n \in Len(l) + 1 .. Len(k) : k[n] \in Members /\ r[k[n]] = "none"
  BY DEF Extends
<1>3. ~(i \in Len(l) + 1 .. Len(k))
  BY <1>2
<1>4. i \in 1 .. Len(l)
  BY <1>1, <1>3
<1> QED
  BY <1>2, <1>4

LEMMA NobodyWaits ==
    ASSUME NEW w \in Workshops, line' \in [Workshops -> Seq(Members)],
           (HasStatus(w, "PENDING_ALLOCATION"))' = {}, (HasStatus(w, "WAITLISTED"))' = {}
    PROVE  (InOrder(w))'
<1>1. PICK k \in Seq(Members) : k = line'[w]
  OBVIOUS
<1>2. \A i \in 1 .. Len(k) : k[i] \in Members
  BY ElementOfSeq
<1>3. \A i \in 1 .. Len(line'[w]) : reg'[w][line'[w][i]] # "WAITLISTED"
  BY <1>1, <1>2 DEF HasStatus
<1> QED
  BY <1>3 DEF InOrder

\* x is cancelled and n, whom promote_from_waitlist chose, gets the place.
LEMMA OneLeaves ==
    ASSUME WorkshopTypeOK, LineInv, NEW w \in Workshops, NEW x \in Members,
           reg[w][x] # "none", NEW n, n = NextWaiting(w, x),
           line' \in [Workshops -> Seq(Members)], reg'[w] \in [Members -> RegStatuses],
           programme' = programme,
           \A m \in Members : reg'[w][m] = IF m = x THEN "CANCELLED"
                                           ELSE IF m = n THEN "CONFIRMED" ELSE reg[w][m],
           Extends(line[w], reg[w], reg'[w], line'[w]),
           InPlace(w)
    PROVE  (InPlace(w))'
<1>1. /\ n \in Members \cup {Nobody}
      /\ n # Nobody =>
            /\ HasPlace(w, x)
            /\ \E k \in 1 .. Len(line[w]) :
                  /\ line[w][k] = n /\ line[w][k] \in Members
                  /\ reg[w][line[w][k]] = "WAITLISTED" /\ line[w][k] # x
                  /\ \A i \in 1 .. k - 1 :
                        reg[w][line[w][i]] = "WAITLISTED" => line[w][i] = x
      /\ HasPlace(w, x) /\ n = Nobody => HasStatus(w, "WAITLISTED") \subseteq {x}
  BY NextWaitingFacts
<1>2. Nobody \notin Members
  BY NamesAssumption
<1>3. PICK S \in SUBSET Members, T \in SUBSET Members :
          S = HasStatus(w, "CONFIRMED") /\ T = (HasStatus(w, "CONFIRMED"))'
  BY DEF HasStatus
<1>4. PICK R \in SUBSET Members : R = S \ {x}
  OBVIOUS
<1>5. /\ Confirmed(w) = Cardinality(S) /\ (Confirmed(w))' = Cardinality(T)
      /\ Cardinality(S) \in Nat /\ Cardinality(T) \in Nat /\ Cardinality(R) \in Nat
      /\ Capacity[w] \in Nat
      /\ HasPlace(w, x) <=> Cardinality(R) < Capacity[w]
  BY <1>3, <1>4, MembersFinite, CapacityAssumption DEF Confirmed, HasPlace
<1>6. /\ Cardinality(S) <= Capacity[w]
      /\ Cardinality(R) <= Cardinality(S) /\ Cardinality(S) <= Cardinality(R) + 1
  <2>1. Cardinality(R) <= Cardinality(S)
    BY <1>4, MembersFinite, FS_Subset
  <2>2. S \subseteq R \cup {x}
    BY <1>4
  <2>3. Cardinality(S) <= Cardinality(R) + 1
    BY <2>2, OneMore
  <2> QED
    BY <1>5, <2>1, <2>3 DEF InPlace
<1>7. n # Nobody => n \in Members /\ n # x /\ reg[w][n] = "WAITLISTED" /\ n \notin R
  BY <1>1, <1>3, <1>4 DEF HasStatus
<1>8. T = IF n = Nobody THEN R ELSE R \cup {n}
  BY <1>2, <1>3, <1>4, <1>7 DEF HasStatus
<1>9. Cardinality(T) = IF n = Nobody THEN Cardinality(R) ELSE Cardinality(R) + 1
  <2>1. IsFiniteSet(R)
    BY MembersFinite
  <2>2. n # Nobody => Cardinality(R \cup {n}) = Cardinality(R) + 1
    BY <1>7, <2>1, FS_AddElement
  <2> QED
    BY <1>8, <2>2
<1>10. (Confirmed(w))' <= Capacity[w]
  <2>1. CASE n = Nobody
    BY <1>5, <1>6, <1>9, <2>1
  <2>2. CASE n # Nobody
    <3>1. Cardinality(R) < Capacity[w]
      BY <1>1, <1>5, <2>2
    <3> QED
      BY <1>5, <1>9, <2>2, <3>1
  <2> QED
    BY <2>1, <2>2
<1>11. ASSUME programme.mode[w] = "FCFS" PROVE (InOrder(w))'
  <2>1. /\ HasStatus(w, "PENDING_ALLOCATION") = {}
        /\ HasStatus(w, "WAITLISTED") # {} => NoPlaceLeft(w)
        /\ \A i, k \in 1 .. Len(line[w]) :
              i < k /\ reg[w][line[w][i]] = "WAITLISTED" => reg[w][line[w][k]] # "CONFIRMED"
    BY <1>11 DEF InPlace, InOrder
  <2>2. (HasStatus(w, "PENDING_ALLOCATION"))' = {}
    BY <2>1 DEF HasStatus
  <2>3. ASSUME NEW m \in (HasStatus(w, "WAITLISTED"))' PROVE (NoPlaceLeft(w))'
    <3>1. m \in Members /\ reg'[w][m] = "WAITLISTED"
      BY <2>3 DEF HasStatus
    <3>2. m # x /\ m # n /\ reg[w][m] = "WAITLISTED"
      BY <3>1
    <3>3. m \in HasStatus(w, "WAITLISTED")
      BY <3>1, <3>2 DEF HasStatus
    <3>4. CASE n = Nobody
      <4>1. ~HasPlace(w, x)
        BY <1>1, <3>2, <3>3, <3>4
      <4>2. Cardinality(R) >= Capacity[w]
        BY <1>5, <4>1
      <4> QED
        BY <1>5, <1>9, <3>4, <4>2 DEF NoPlaceLeft
    <3>5. CASE n # Nobody
      <4>1. Cardinality(S) >= Capacity[w]
        BY <1>5, <2>1, <3>3 DEF NoPlaceLeft
      <4> QED
        BY <1>5, <1>6, <1>9, <3>5, <4>1 DEF NoPlaceLeft
    <3> QED
      BY <3>4, <3>5
  <2>4. PICK l \in Seq(Members), k \in Seq(Members) : l = line[w] /\ k = line'[w]
    BY DEF WorkshopTypeOK
  <2>5. Len(l) \in Nat /\ \A i \in 1 .. Len(k) : k[i] \in Members
    BY LenProperties, ElementOfSeq
  <2>6. ASSUME NEW i \in 1 .. Len(k), reg'[w][k[i]] # "none"
        PROVE  i \in 1 .. Len(l) /\ k[i] = l[i]
    <3>1. \A m \in Members : reg[w][m] = "none" <=> reg'[w][m] = "none"
      BY <1>2, <1>7
    <3>2. reg[w] \in [Members -> RegStatuses] /\ Extends(l, reg[w], reg'[w], k)
      BY <2>4 DEF WorkshopTypeOK
    <3> QED
      BY <2>6, <3>1, <3>2, SamePlaces
  <2>7. ASSUME NEW i \in 1 .. Len(k), NEW h \in 1 .. Len(k), i < h,
               reg'[w][k[i]] = "WAITLISTED", reg'[w][k[h]] = "CONFIRMED"
        PROVE  FALSE
    <3>1. i \in 1 .. Len(l) /\ k[i] = l[i] /\ h \in 1 .. Len(l) /\ k[h] = l[h]
      BY <2>6, <2>7
    <3>2. l[i] \in Members /\ l[h] \in Members
      BY <2>5, <3>1
    <3>3. l[i] # x /\ l[i] # n /\ reg[w][l[i]] = "WAITLISTED"
      BY <2>7, <3>1, <3>2
    <3>4. l[h] = n
      <4>1. reg[w][l[h]] # "CONFIRMED"
        BY <2>1, <2>4, <2>7, <3>1, <3>3
      <4> QED
        BY <2>7, <3>1, <3>2, <4>1
    <3>5. PICK p \in 1 .. Len(l) :
              l[p] = n /\ \A e \in 1 .. p - 1 : reg[w][l[e]] = "WAITLISTED" => l[e] = x
      <4>1. n # Nobody
        BY <1>2, <3>2, <3>4
      <4> QED
        BY <1>1, <2>4, <4>1
    <3>6. p = h
      <4>1. IsInjective(l) /\ DOMAIN l = 1 .. Len(l)
        BY <2>4, LenProperties DEF LineInv, Lists
      <4> QED
        BY <3>1, <3>4, <3>5, <4>1 DEF IsInjective
    <3>7. i \in 1 .. p - 1
      BY <2>5, <2>7, <3>1, <3>6
    <3> QED
      BY <3>3, <3>5, <3>7
  <2>8. \A i, h \in 1 .. Len(line'[w]) :
            i < h /\ reg'[w][line'[w][i]] = "WAITLISTED" => reg'[w][line'[w][h]] # "CONFIRMED"
    BY <2>4, <2>7
  <2> QED
    BY <2>2, <2>3, <2>8 DEF InOrder
<1> QED
  BY <1>10, <1>11 DEF InPlace

LEMMA CancelledKeeps ==
    ASSUME WorkshopInv, NEW c \in Clerks, Cancelled(c)
    PROVE  WorkshopInv'
<1>1. PICK j : j = clerk[c]
  OBVIOUS
<1>2. PICK new : new = [reg EXCEPT ![j.of] = [m \in Members |->
                     CASE m = j.who  -> "CANCELLED"
                       [] m # j.who /\ m = j.next /\ @[m] # "none" -> "CONFIRMED"
                       [] OTHER -> @[m]]]
  OBVIOUS
<1>3. j.op = "cancelling" /\ Commit(c, new, {j.of}) /\ overridden' = overridden
  BY <1>1, <1>2 DEF Cancelled
<1>4. /\ j # AtDesk /\ j \in MemberJobs
      /\ Write(c, new, {j.of})
      /\ programme' = programme /\ open' = open /\ finalised' = finalised
      /\ services' \in 0 .. MaxServices
      /\ raced' = raced \cup (j.outdated \cap {j.of})
      /\ raced \subseteq raced' /\ raced' \subseteq Workshops
  BY <1>1, <1>3, MemberCommit DEF MemberOps
<1>5. PICK w \in Workshops, x \in Members, n \in Members \cup {Nobody} :
          w = j.of /\ x = j.who /\ n = j.next
  BY <1>4 DEF MemberJobs
<1>6. /\ WorkshopTypeOK /\ LineInv /\ ClerkInv /\ \A v \in Undisturbed : InPlace(v)
  BY DEF WorkshopInv
<1>7. \A m \in Members : new[w][m] =
          IF m = x THEN "CANCELLED"
          ELSE IF m = n /\ reg[w][m] # "none" THEN "CONFIRMED" ELSE reg[w][m]
  BY <1>2, <1>5, <1>6 DEF WorkshopTypeOK
<1>8. /\ new \in [Workshops -> [Members -> RegStatuses]]
      /\ \A v \in Workshops \ {w} : new[v] = reg[v]
  <2>1. PICK q : q = [m \in Members |->
                        CASE m = x  -> "CANCELLED"
                          [] m # x /\ m = n /\ reg[w][m] # "none" -> "CONFIRMED"
                          [] OTHER -> reg[w][m]]
    OBVIOUS
  <2>2. new = [reg EXCEPT ![w] = q]
    BY <1>2, <1>5, <1>6, <2>1 DEF WorkshopTypeOK
  <2>3. PICK r \in [Members -> RegStatuses] : r = reg[w]
    BY <1>6 DEF WorkshopTypeOK
  <2>4. q \in [Members -> RegStatuses]
    BY <2>1, <2>3 DEF RegStatuses
  <2> QED
    BY <1>6, <2>2, <2>4 DEF WorkshopTypeOK
<1>9. Write(c, new, {w})
  BY <1>4, <1>5
<1>10. /\ reg' = new
       /\ line' \in [Workshops -> Seq(Members)]
       /\ \A v \in Workshops : Extends(line[v], reg[v], new[v], line'[v])
  BY <1>4, <1>6, <1>8, <1>9, WriteFacts
<1>11. Undisturbed' \subseteq Undisturbed /\ overridden' \subseteq Workshops
  BY <1>3, <1>4, <1>6 DEF Undisturbed, WorkshopTypeOK
<1>12. ASSUME w \in Undisturbed' PROVE (InPlace(w))'
  <2>1. InPlace(w)
    BY <1>6, <1>11, <1>12
  <2>2. UpToDate(j, w)
    BY <1>1, <1>4, <1>5, <1>12, InTime
  <2>3. reg[w][x] # "none" /\ n = NextWaiting(w, x)
    BY <1>3, <1>5, <2>2 DEF UpToDate
  <2>4. n # Nobody => reg[w][n] = "WAITLISTED"
    BY <1>6, <2>3, NextWaitingFacts
  <2>5. n = Nobody => \A m \in Members : m # n
    BY NamesAssumption
  <2>6. \A m \in Members : reg'[w][m] =
            IF m = x THEN "CANCELLED" ELSE IF m = n THEN "CONFIRMED" ELSE reg[w][m]
    BY <1>7, <1>10, <2>4, <2>5
  <2>7. /\ Extends(line[w], reg[w], reg'[w], line'[w])
        /\ reg'[w] \in [Members -> RegStatuses]
    BY <1>8, <1>10
  <2> HIDE <1>2
  <2> QED
    BY <1>4, <1>6, <1>10, <2>1, <2>3, <2>6, <2>7, OneLeaves
<1>13. \A v \in {w} \cap Undisturbed' : (InPlace(v))'
  <2> SUFFICES ASSUME NEW v \in {w} \cap Undisturbed' PROVE (InPlace(v))'
    OBVIOUS
  <2>1. v = w /\ w \in Undisturbed'
    OBVIOUS
  <2> QED
    BY <1>12, <2>1
<1>14. {w} \in SUBSET Workshops
  OBVIOUS
<1> QED
  BY <1>4, <1>8, <1>9, <1>11, <1>13, <1>14, CommitKeeps

-----------------------------------------------------------------------------
(* Workshops: an allocation is committed.                                   *)

LEMMA BothSets ==
    ASSUME NEW S \in SUBSET Members, NEW T \in SUBSET Members
    PROVE  Cardinality(S \cup T) <= Cardinality(S) + Cardinality(T)
<1>1. IsFiniteSet(S) /\ IsFiniteSet(T)
  BY MembersFinite
<1>2. Cardinality(S \cup T) = Cardinality(S) + Cardinality(T) - Cardinality(S \cap T)
  BY <1>1, FS_Union
<1>3. S \cap T \in SUBSET Members /\ S \cup T \in SUBSET Members
  OBVIOUS
<1> QED
  BY <1>2, <1>3, MembersFinite

\* Members `placed` get a place, of those that are free; if places go to whoever
\* comes first, nobody else is newly waiting.
LEMMA SomePlaced ==
    ASSUME WorkshopTypeOK, NEW w \in Workshops, NEW placed \in SUBSET Members,
           reg' \in [Workshops -> [Members -> RegStatuses]],
           line' \in [Workshops -> Seq(Members)], programme' = programme,
           reg'[w] = reg[w] => line'[w] = line[w],
           \A m \in placed : reg'[w][m] = "CONFIRMED",
           \A m \in Members \ placed :
               \/ reg'[w][m] = reg[w][m]
               \/ reg[w][m] = "PENDING_ALLOCATION" /\ reg'[w][m] = "WAITLISTED",
           placed # {} => Confirmed(w) + Cardinality(placed) <= Capacity[w],
           InPlace(w)
    PROVE  (InPlace(w))'
<1>1. CASE reg'[w] = reg[w]
  BY <1>1, SameWorkshop
<1>2. CASE reg'[w] # reg[w]
  <2>1. PICK S \in SUBSET Members, T \in SUBSET Members :
            S = HasStatus(w, "CONFIRMED") /\ T = (HasStatus(w, "CONFIRMED"))'
    BY DEF HasStatus
  <2>2. /\ Confirmed(w) = Cardinality(S) /\ (Confirmed(w))' = Cardinality(T)
        /\ Cardinality(S) \in Nat /\ Cardinality(T) \in Nat /\ Cardinality(placed) \in Nat
        /\ Capacity[w] \in Nat
    BY <2>1, MembersFinite, CapacityAssumption DEF Confirmed
  <2>3. Cardinality(S) <= Capacity[w]
    BY <2>2 DEF InPlace
  <2>4. T \subseteq S \cup placed
    BY <2>1 DEF HasStatus
  <2>5. (Confirmed(w))' <= Capacity[w]
    <3>1. CASE placed = {}
      <4>1. Cardinality(T) <= Cardinality(S)
        BY <2>4, <3>1, MembersFinite, FS_Subset
      <4> QED
        BY <2>2, <2>3, <4>1
    <3>2. CASE placed # {}
      <4>1. S \cup placed \in SUBSET Members
        OBVIOUS
      <4>2. Cardinality(T) <= Cardinality(S \cup placed)
        BY <2>4, <4>1, MembersFinite, FS_Subset
      <4>3. Cardinality(S \cup placed) <= Cardinality(S) + Cardinality(placed)
        BY BothSets
      <4> QED
        BY <2>2, <3>2, <4>1, <4>2, <4>3, MembersFinite
    <3> QED
      BY <3>1, <3>2
  <2>6. ASSUME programme.mode[w] = "FCFS" PROVE (InOrder(w))'
    <3>1. /\ HasStatus(w, "PENDING_ALLOCATION") = {}
          /\ HasStatus(w, "WAITLISTED") # {} => NoPlaceLeft(w)
      BY <2>6 DEF InPlace, InOrder
    <3>2. \A m \in Members \ placed : reg'[w][m] = reg[w][m]
      BY <3>1 DEF HasStatus
    <3>3. placed # {}
      <4> SUFFICES ASSUME placed = {} PROVE FALSE
        OBVIOUS
      <4>1. \A m \in Members : reg'[w][m] = reg[w][m]
        BY <3>2
      <4>2. reg'[w] \in [Members -> RegStatuses] /\ reg[w] \in [Members -> RegStatuses]
        BY DEF WorkshopTypeOK
      <4>3. reg'[w] = reg[w]
        BY <4>1, <4>2
      <4> QED
        BY <1>2, <4>3
    <3>4. Cardinality(placed) # 0
      BY <3>3, MembersFinite, FS_EmptySet
    <3>5. ~NoPlaceLeft(w)
      BY <2>2, <3>3, <3>4 DEF NoPlaceLeft
    <3>6. HasStatus(w, "WAITLISTED") = {}
      BY <3>1, <3>5
    <3>7. (HasStatus(w, "PENDING_ALLOCATION"))' = {} /\ (HasStatus(w, "WAITLISTED"))' = {}
      BY <3>1, <3>2, <3>6 DEF HasStatus
    <3> QED
      BY <3>7, NobodyWaits
  <2> QED
    BY <2>5, <2>6 DEF InPlace
<1> QED
  BY <1>1, <1>2

LEMMA DrawnKeeps ==
    ASSUME WorkshopInv, NEW c \in Clerks, Drawn(c)
    PROVE  WorkshopInv'
<1>1. PICK j : j = clerk[c]
  OBVIOUS
<1>2. j.op = "draw" /\ overridden' = overridden
  BY <1>1 DEF Drawn
<1>3. PICK lucky \in SUBSET j.pending :
          /\ \/ Cardinality(lucky) = j.places
             \/ lucky = j.pending /\ Cardinality(lucky) <= j.places
          /\ Commit(c, [reg EXCEPT ![j.of] = [m \in Members |->
                 CASE m \in lucky -> "CONFIRMED"
                   [] m \in j.pending \ lucky -> "WAITLISTED"
                   [] OTHER -> @[m]]], {j.of})
  BY <1>1 DEF Drawn
<1>4. PICK new : new = [reg EXCEPT ![j.of] = [m \in Members |->
                 CASE m \in lucky -> "CONFIRMED"
                   [] m \in j.pending \ lucky -> "WAITLISTED"
                   [] OTHER -> @[m]]]
  OBVIOUS
<1>5. /\ WorkshopTypeOK /\ LineInv /\ ClerkInv /\ \A v \in Undisturbed : InPlace(v)
  BY DEF WorkshopInv
<1>6. j \in DrawJobs /\ j # AtDesk
  BY <1>1, <1>2, <1>5, ClerkKinds DEF WorkshopTypeOK
<1>7. PICK w \in Workshops, P \in SUBSET Members, n \in Nat :
          w = j.of /\ P = j.pending /\ n = j.places
  BY <1>6 DEF DrawJobs
<1>8. /\ lucky \in SUBSET P /\ lucky \in SUBSET Members
      /\ Cardinality(lucky) \in Nat /\ Cardinality(lucky) <= n
  <2>1. lucky \in SUBSET P /\ lucky \in SUBSET Members
    BY <1>7
  <2> QED
    BY <1>3, <1>7, <2>1, MembersFinite
<1>9. \A m \in Members : new[w][m] =
          IF m \in lucky THEN "CONFIRMED"
          ELSE IF m \in P THEN "WAITLISTED" ELSE reg[w][m]
  BY <1>4, <1>5, <1>7 DEF WorkshopTypeOK
<1>10. /\ new \in [Workshops -> [Members -> RegStatuses]]
       /\ \A v \in Workshops \ {w} : new[v] = reg[v]
  <2>1. PICK q : q = [m \in Members |->
                        CASE m \in lucky -> "CONFIRMED"
                          [] m \in P \ lucky -> "WAITLISTED"
                          [] OTHER -> reg[w][m]]
    OBVIOUS
  <2>2. new = [reg EXCEPT ![w] = q]
    BY <1>4, <1>5, <1>7, <2>1 DEF WorkshopTypeOK
  <2>3. PICK r \in [Members -> RegStatuses] : r = reg[w]
    BY <1>5 DEF WorkshopTypeOK
  <2>4. q \in [Members -> RegStatuses]
    BY <2>1, <2>3 DEF RegStatuses
  <2> QED
    BY <1>5, <2>2, <2>4 DEF WorkshopTypeOK
<1>11. Commit(c, new, {w})
  BY <1>3, <1>4, <1>7
<1>12. /\ Write(c, new, {w})
       /\ programme' = programme /\ open' = open /\ finalised' = finalised
       /\ services' \in 0 .. MaxServices
       /\ raced' = raced \cup (j.outdated \cap {w})
       /\ raced \subseteq raced' /\ raced' \subseteq Workshops /\ overridden' \subseteq Workshops
  BY <1>1, <1>2, <1>5, <1>11 DEF Commit, WorkshopTypeOK
<1>13. /\ reg' = new
       /\ line' \in [Workshops -> Seq(Members)]
       /\ \A v \in Workshops : reg'[v] = reg[v] => line'[v] = line[v]
  BY <1>5, <1>10, <1>12, WriteFacts
<1>14. Undisturbed' \subseteq Undisturbed
  BY <1>2, <1>12 DEF Undisturbed
<1>15. ASSUME w \in Undisturbed' PROVE (InPlace(w))'
  <2>1. InPlace(w)
    BY <1>5, <1>14, <1>15
  <2>2. UpToDate(j, w)
    BY <1>1, <1>6, <1>12, <1>15, InTime
  <2>3. P = HasStatus(w, "PENDING_ALLOCATION") /\ n = PlacesLeft(w)
    BY <1>2, <1>7, <2>2 DEF UpToDate
  <2>4. Confirmed(w) + Cardinality(lucky) <= Capacity[w]
    <3>1. Confirmed(w) \in Nat /\ Capacity[w] \in Nat /\ Confirmed(w) <= Capacity[w]
      BY <2>1, MembersFinite, CapacityAssumption DEF Confirmed, HasStatus, InPlace
    <3>2. n + Confirmed(w) <= Capacity[w]
      BY <2>3, <3>1 DEF PlacesLeft, NoPlaceLeft
    <3> QED
      BY <1>8, <3>1, <3>2
  <2>5. \A m \in lucky : reg'[w][m] = "CONFIRMED"
    BY <1>8, <1>9, <1>13
  <2>6. \A m \in Members \ lucky :
            \/ reg'[w][m] = reg[w][m]
            \/ reg[w][m] = "PENDING_ALLOCATION" /\ reg'[w][m] = "WAITLISTED"
    BY <1>9, <1>13, <2>3 DEF HasStatus
  <2>7. reg' \in [Workshops -> [Members -> RegStatuses]]
    BY <1>10, <1>13
  <2> HIDE <1>4
  <2> QED
    BY <1>5, <1>8, <1>12, <1>13, <2>1, <2>4, <2>5, <2>6, <2>7, SomePlaced
<1>16. \A v \in {w} \cap Undisturbed' : (InPlace(v))'
  <2> SUFFICES ASSUME NEW v \in {w} \cap Undisturbed' PROVE (InPlace(v))'
    OBVIOUS
  <2>1. v = w /\ w \in Undisturbed'
    OBVIOUS
  <2> QED
    BY <1>15, <2>1
<1>17. {w} \in SUBSET Workshops
  OBVIOUS
<1> QED
  BY <1>10, <1>12, <1>14, <1>16, <1>17, CommitKeeps

LEMMA RankedKeeps ==
    ASSUME WorkshopInv, NEW c \in Clerks, Ranked(c)
    PROVE  WorkshopInv'
<1>1. PICK j : j = clerk[c]
  OBVIOUS
<1>2. PICK new : new = [w \in Workshops |-> [m \in Members |->
                     CASE j.plan[m] = w -> "CONFIRMED"
                       [] j.plan[m] # w /\ reg[w][m] = "PENDING_ALLOCATION" -> "WAITLISTED"
                       [] OTHER -> reg[w][m]]]
  OBVIOUS
<1>3. j.op = "rank" /\ Commit(c, new, Workshops) /\ overridden' = overridden
  BY <1>1, <1>2 DEF Ranked
<1>4. /\ WorkshopTypeOK /\ LineInv /\ ClerkInv /\ \A v \in Undisturbed : InPlace(v)
  BY DEF WorkshopInv
<1>5. j \in RankJobs /\ j # AtDesk
  BY <1>1, <1>3, <1>4, ClerkKinds DEF WorkshopTypeOK
<1>6. PICK p \in Plans : p = j.plan
  BY <1>5 DEF RankJobs, Plans
<1>7. ASSUME NEW w \in Workshops
      PROVE  /\ new[w] \in [Members -> RegStatuses]
             /\ \A m \in Members : new[w][m] =
                    IF p[m] = w THEN "CONFIRMED"
                    ELSE IF reg[w][m] = "PENDING_ALLOCATION" THEN "WAITLISTED" ELSE reg[w][m]
  <2>1. PICK r \in [Members -> RegStatuses] : r = reg[w]
    BY <1>4 DEF WorkshopTypeOK
  <2>2. new[w] = [m \in Members |->
                     CASE p[m] = w -> "CONFIRMED"
                       [] p[m] # w /\ r[m] = "PENDING_ALLOCATION" -> "WAITLISTED"
                       [] OTHER -> r[m]]
    BY <1>2, <1>6, <2>1
  <2> QED
    BY <2>1, <2>2 DEF RegStatuses
<1>8. new \in [Workshops -> [Members -> RegStatuses]]
  <2>1. new = [w \in Workshops |-> new[w]]
    BY <1>2
  <2> QED
    BY <1>7, <2>1
<1>9. /\ Write(c, new, Workshops)
      /\ programme' = programme /\ open' = open /\ finalised' = finalised
      /\ services' \in 0 .. MaxServices
      /\ raced' = raced \cup (j.outdated \cap Workshops)
      /\ raced \subseteq raced' /\ raced' \subseteq Workshops /\ overridden' \subseteq Workshops
  BY <1>1, <1>3, <1>4 DEF Commit, WorkshopTypeOK
<1>10. /\ \A v \in Workshops \ Workshops : new[v] = reg[v]
       /\ Workshops \in SUBSET Workshops
  OBVIOUS
<1>11. /\ reg' = new
       /\ line' \in [Workshops -> Seq(Members)]
       /\ \A v \in Workshops : reg'[v] = reg[v] => line'[v] = line[v]
  BY <1>4, <1>8, <1>9, <1>10, WriteFacts
<1>12. Undisturbed' \subseteq Undisturbed /\ Undisturbed \subseteq Workshops
  BY <1>3, <1>9 DEF Undisturbed
<1>13. ASSUME NEW w \in Undisturbed' PROVE (InPlace(w))'
  <2>1. w \in Workshops /\ InPlace(w)
    BY <1>4, <1>12
  <2>2. UpToDate(j, w)
    BY <1>1, <1>5, <1>9, <1>10, <2>1, InTime
  <2>3. PICK placed \in SUBSET Members : placed = Placed(p, w)
    BY DEF Placed
  <2>4. placed # {} => Confirmed(w) + Cardinality(placed) <= Capacity[w]
    BY <1>3, <1>6, <2>2, <2>3 DEF UpToDate, PlanFits
  <2>5. \A m \in placed : reg'[w][m] = "CONFIRMED"
    BY <1>7, <1>11, <2>1, <2>3 DEF Placed
  <2>6. \A m \in Members \ placed :
            \/ reg'[w][m] = reg[w][m]
            \/ reg[w][m] = "PENDING_ALLOCATION" /\ reg'[w][m] = "WAITLISTED"
    BY <1>7, <1>11, <2>1, <2>3 DEF Placed
  <2>7. reg' \in [Workshops -> [Members -> RegStatuses]]
    BY <1>8, <1>11
  <2> HIDE <1>2
  <2> QED
    BY <1>4, <1>9, <1>11, <2>1, <2>4, <2>5, <2>6, <2>7, SomePlaced
<1> QED
  BY <1>8, <1>9, <1>10, <1>12, <1>13, CommitKeeps

-----------------------------------------------------------------------------
(* Workshops: every step.                                                   *)

LEMMA WorkshopStep ==
    ASSUME WorkshopInv, [WorkshopNext]_workshopVars
    PROVE  WorkshopInv'
<1>1. ASSUME NEW c \in Clerks, Reading(c) PROVE WorkshopInv'
  BY <1>1, RegisterKeeps, CancelKeeps, AmendKeeps, PromoteKeeps, DrawKeeps, RankKeeps DEF Reading
<1>2. ASSUME NEW c \in Clerks, Committing(c) PROVE WorkshopInv'
  BY <1>2, RegisteredKeeps, PromotedKeeps, CancellingKeeps, CancelledKeeps, ConfirmedByStaffKeeps,
     DrawnKeeps, RankedKeeps, RollBackKeeps DEF Committing
<1>3. CASE UNCHANGED workshopVars
  <2>1. /\ UNCHANGED <<programme, open, finalised, reg, line, clerk, services, raced, overridden>>
    BY <1>3 DEF workshopVars
  <2>2. open \subseteq Workshops /\ finalised \subseteq Members /\ services \in 0 .. MaxServices
    BY DEF WorkshopInv, WorkshopTypeOK
  <2>3. open' \subseteq Workshops /\ finalised' \subseteq Members /\ services' \in 0 .. MaxServices
    BY <2>1, <2>2
  <2> QED
    BY <2>1, <2>3, ReadingKeeps
<1>4. CASE \/ \E w \in Workshops : SetOpen(open \cup {w}) \/ SetOpen(open \ {w})
           \/ \E m \in Members : SetFinalised(m)
  BY <1>4, SettingKeeps
<1> QED
  BY <1>1, <1>2, <1>3, <1>4 DEF WorkshopNext

-----------------------------------------------------------------------------
(* Workshops: the start.                                                    *)

\* What the members in the line l of a workshop have been left with.
LEMMA AtFirst ==
    ASSUME WorkshopInit, NEW w \in Workshops
    PROVE  /\ line[w] \in Seq(Members) /\ IsInjective(line[w])
           /\ \A i \in 1 .. Len(line[w]) : reg[w][line[w][i]] = FirstStatus(w, i)
           /\ \A m \in Members :
                 \/ reg[w][m] = "none" /\ \A i \in 1 .. Len(line[w]) : line[w][i] # m
                 \/ \E i \in 1 .. Len(line[w]) : line[w][i] = m /\ reg[w][m] = FirstStatus(w, i)
<1>1. programme \in Programmes /\ line = programme.line
  BY DEF WorkshopInit
<1>2. PICK l \in Seq(Members) : l = line[w] /\ IsInjective(l)
  BY <1>1, ProgrammesAssumption, UniqueAssumption
<1>3. DOMAIN l = 1 .. Len(l) /\ \A i \in 1 .. Len(l) : l[i] \in Members
  BY LenProperties, ElementOfSeq
<1>4. \A m \in Members : reg[w][m] = IF \E i \in 1 .. Len(l) : l[i] = m
                                     THEN FirstStatus(w, CHOOSE i \in 1 .. Len(l) : l[i] = m)
                                     ELSE "none"
  BY <1>2, <1>3 DEF WorkshopInit
<1>5. ASSUME NEW i \in 1 .. Len(l) PROVE reg[w][l[i]] = FirstStatus(w, i)
  <2>1. PICK k : k = CHOOSE h \in 1 .. Len(l) : l[h] = l[i]
    OBVIOUS
  <2>2. k \in 1 .. Len(l) /\ l[k] = l[i]
    BY <2>1
  <2>3. k = i
    BY <1>2, <1>3, <2>2 DEF IsInjective
  <2> QED
    BY <1>3, <1>4, <2>1, <2>3
<1>6. ASSUME NEW m \in Members
      PROVE  \/ reg[w][m] = "none" /\ \A i \in 1 .. Len(l) : l[i] # m
             \/ \E i \in 1 .. Len(l) : l[i] = m /\ reg[w][m] = FirstStatus(w, i)
  <2>1. CASE \E i \in 1 .. Len(l) : l[i] = m
    BY <1>5, <2>1
  <2>2. CASE ~\E i \in 1 .. Len(l) : l[i] = m
    BY <1>4, <2>2
  <2> QED
    BY <2>1, <2>2
<1> QED
  BY <1>2, <1>5, <1>6

LEMMA FirstStatuses ==
    ASSUME NEW w, NEW i
    PROVE  /\ FirstStatus(w, i) \in RegStatuses /\ FirstStatus(w, i) # "none"
           /\ FirstStatus(w, i) = "CONFIRMED" <=> programme.mode[w] = "FCFS" /\ i <= Capacity[w]
           /\ programme.mode[w] = "FCFS" =>
                 FirstStatus(w, i) = IF i <= Capacity[w] THEN "CONFIRMED" ELSE "WAITLISTED"
<1>1. CASE programme.mode[w] # "FCFS"
  BY <1>1 DEF FirstStatus, RegStatuses
<1>2. CASE programme.mode[w] = "FCFS" /\ i <= Capacity[w]
  BY <1>2 DEF FirstStatus, RegStatuses
<1>3. CASE programme.mode[w] = "FCFS" /\ ~(i <= Capacity[w])
  BY <1>3 DEF FirstStatus, RegStatuses
<1> QED
  BY <1>1, <1>2, <1>3

LEMMA InPlaceAtFirst ==
    ASSUME WorkshopInit, NEW w \in Workshops
    PROVE  InPlace(w)
<1>1. PICK l \in Seq(Members) : l = line[w] /\ IsInjective(l)
  BY AtFirst
<1>2. \A i \in 1 .. Len(l) : reg[w][l[i]] = FirstStatus(w, i)
  BY <1>1, AtFirst
<1>3. \A m \in Members :
          \/ reg[w][m] = "none" /\ \A i \in 1 .. Len(l) : l[i] # m
          \/ \E i \in 1 .. Len(l) : l[i] = m /\ reg[w][m] = FirstStatus(w, i)
  BY <1>1, AtFirst
<1>4. /\ DOMAIN l = 1 .. Len(l) /\ Len(l) \in Nat /\ \A i \in 1 .. Len(l) : l[i] \in Members
      /\ Capacity[w] \in Nat
  BY LenProperties, ElementOfSeq, CapacityAssumption
<1>5. CASE programme.mode[w] # "FCFS"
  <2>1. HasStatus(w, "CONFIRMED") = {}
    BY <1>3, <1>5, FirstStatuses DEF HasStatus
  <2>2. Confirmed(w) = 0
    BY <2>1, FS_EmptySet DEF Confirmed
  <2> QED
    BY <1>4, <1>5, <2>2 DEF InPlace
<1>6. CASE programme.mode[w] = "FCFS"
  <2>1. \A i \in 1 .. Len(l) :
            reg[w][l[i]] = IF i <= Capacity[w] THEN "CONFIRMED" ELSE "WAITLISTED"
    BY <1>2, <1>6, FirstStatuses
  <2>2. PICK x \in Nat, y \in Nat : x = Len(l) /\ y = Capacity[w]
    BY <1>4
  <2>3. PICK n \in Nat : \/ n = Len(l) /\ Len(l) <= Capacity[w]
                         \/ n = Capacity[w] /\ Capacity[w] <= Len(l)
    <3>1. (x <= y) \/ (y <= x)
      OBVIOUS
    <3> QED
      BY <2>2, <3>1
  <2>4. \A i \in 1 .. Len(l) : i <= Capacity[w] <=> i \in 1 .. n
    BY <2>2, <2>3
  <2>5. n <= Len(l) /\ n <= Capacity[w] /\ \A i \in 1 .. n : i \in 1 .. Len(l)
    BY <2>2, <2>3
  <2>6. PICK S \in SUBSET Members : S = HasStatus(w, "CONFIRMED")
    BY DEF HasStatus
  <2>7. \A m \in S : \E i \in 1 .. n : l[i] = m
    <3> SUFFICES ASSUME NEW m \in S PROVE \E i \in 1 .. n : l[i] = m
      OBVIOUS
    <3>1. m \in Members /\ reg[w][m] = "CONFIRMED"
      BY <2>6 DEF HasStatus
    <3>2. PICK i \in 1 .. Len(l) : l[i] = m /\ reg[w][m] = FirstStatus(w, i)
      BY <1>3, <3>1
    <3>3. i <= Capacity[w]
      BY <2>1, <3>1, <3>2
    <3> QED
      BY <2>4, <3>2, <3>3
  <2>8. \A i \in 1 .. n : l[i] \in S
    BY <1>4, <2>1, <2>4, <2>5, <2>6 DEF HasStatus
  <2>9. Cardinality(S) = n
    <3> DEFINE f == [i \in 1 .. n |-> l[i]]
    <3>1. f \in [1 .. n -> S]
      BY <2>8
    <3>2. \A i, k \in 1 .. n : f[i] = f[k] => i = k
      BY <1>1, <1>4, <2>5 DEF IsInjective
    <3>3. f \in Injection(1 .. n, S)
      BY <3>1, <3>2 DEF Injection, IsInjective
    <3>4. f \in Surjection(1 .. n, S)
      BY <2>7, <3>1 DEF Surjection
    <3>5. ExistsBijection(1 .. n, S)
      BY <3>3, <3>4 DEF ExistsBijection, Bijection
    <3> QED
      BY <3>5, FS_CountingElements
  <2>10. Confirmed(w) = n
    BY <2>6, <2>9 DEF Confirmed
  <2>11. HasStatus(w, "PENDING_ALLOCATION") = {}
    BY <1>3, <1>6, FirstStatuses DEF HasStatus
  <2>12. HasStatus(w, "WAITLISTED") # {} => NoPlaceLeft(w)
    <3> SUFFICES ASSUME NEW m \in HasStatus(w, "WAITLISTED") PROVE NoPlaceLeft(w)
      OBVIOUS
    <3>1. m \in Members /\ reg[w][m] = "WAITLISTED"
      BY DEF HasStatus
    <3>2. PICK i \in 1 .. Len(l) : l[i] = m /\ reg[w][m] = FirstStatus(w, i)
      BY <1>3, <3>1
    <3>3. ~(i <= Capacity[w])
      BY <2>1, <3>1, <3>2
    <3>4. n = Capacity[w]
      BY <2>3, <2>2, <3>2, <3>3
    <3> QED
      BY <1>4, <2>10, <3>4 DEF NoPlaceLeft
  <2>13. \A i, k \in 1 .. Len(l) : i < k /\ reg[w][l[i]] = "WAITLISTED" => reg[w][l[k]] # "CONFIRMED"
    BY <1>4, <2>1
  <2> QED
    BY <1>1, <2>5, <2>10, <2>11, <2>12, <2>13 DEF InPlace, InOrder
<1> QED
  BY <1>5, <1>6

LEMMA WorkshopStart ==
    ASSUME WorkshopInit
    PROVE  WorkshopInv
<1>1. ASSUME NEW w \in Workshops
      PROVE  Lists(line[w], reg[w]) /\ \A m \in Members : reg[w][m] \in RegStatuses
  <2>1. PICK l \in Seq(Members) : l = line[w] /\ IsInjective(l)
    BY AtFirst
  <2>2. \A m \in Members :
            \/ reg[w][m] = "none" /\ \A i \in 1 .. Len(l) : l[i] # m
            \/ \E i \in 1 .. Len(l) : l[i] = m /\ reg[w][m] = FirstStatus(w, i)
    BY <2>1, AtFirst
  <2>3. \A m \in Members : reg[w][m] # "none" <=> \E i \in 1 .. Len(l) : l[i] = m
    BY <2>2, FirstStatuses
  <2>4. \A m \in Members : reg[w][m] \in RegStatuses
    BY <2>2, FirstStatuses DEF RegStatuses
  <2> QED
    BY <2>1, <2>3, <2>4 DEF Lists
<1>2. /\ programme \in Programmes /\ open = Workshops /\ finalised \subseteq Members
      /\ line = programme.line /\ services = 0 /\ raced = {} /\ overridden = {}
      /\ clerk = [c \in Clerks |-> AtDesk]
  BY DEF WorkshopInit
<1>3. reg \in [Workshops -> [Members -> RegStatuses]]
  <2>1. PICK q : q = [w \in Workshops |-> [m \in Members |-> reg[w][m]]]
    OBVIOUS
  <2>2. reg = q
    BY <2>1 DEF WorkshopInit
  <2>3. q \in [Workshops -> [Members -> RegStatuses]]
    BY <1>1, <2>1
  <2> QED
    BY <2>2, <2>3
<1>4. line \in [Workshops -> Seq(Members)] /\ clerk \in [Clerks -> ClerkJobs]
  BY <1>2, ProgrammesAssumption, ClerkKinds
<1>5. WorkshopTypeOK
  BY <1>2, <1>3, <1>4, MaxServicesAssumption DEF WorkshopTypeOK
<1>6. LineInv
  BY <1>1 DEF LineInv
<1>7. ClerkInv
  BY <1>2 DEF ClerkInv
<1>8. \A w \in Undisturbed : InPlace(w)
  BY InPlaceAtFirst DEF Undisturbed
<1> QED
  BY <1>5, <1>6, <1>7, <1>8 DEF WorkshopInv

-----------------------------------------------------------------------------
(* Workshops: the theorems.                                                 *)

\* Every registered member is in the line of the workshop once; whatever a
\* request read of a workshop is still so unless somebody wrote in between; and
\* a workshop nobody disturbed has no more than its places given out, and if
\* they go to whoever comes first, nobody waits out of turn.
THEOREM WorkshopInvariance == WorkshopSpec => []WorkshopInv
<1>1. WorkshopInit => WorkshopInv
  BY WorkshopStart
<1>2. WorkshopInv /\ [WorkshopNext]_workshopVars => WorkshopInv'
  BY WorkshopStep
<1> QED
  BY <1>1, <1>2, PTL DEF WorkshopSpec

\* Every variable of Workshops keeps its shape.
THEOREM WorkshopTypesHold == WorkshopSpec => []WorkshopTypeOK
<1>1. WorkshopInv => WorkshopTypeOK
  BY DEF WorkshopInv
<1> QED
  BY <1>1, WorkshopInvariance, PTL

\* No way of allocating, alone or after others, gives out more places than there
\* are, unless requests overlapped or staff went past the capacity.
THEOREM NeverOverfullHolds == WorkshopSpec => []NeverOverfull
<1>1. WorkshopInv => NeverOverfull
  BY DEF WorkshopInv, InPlace, NeverOverfull
<1> QED
  BY <1>1, WorkshopInvariance, PTL

\* Nobody waits for a free place where places go to whoever comes first.
THEOREM NoIdlePlaceHolds == WorkshopSpec => []NoIdlePlace
<1>1. WorkshopInv => NoIdlePlace
  BY DEF WorkshopInv, InPlace, InOrder, NoIdlePlace
<1> QED
  BY <1>1, WorkshopInvariance, PTL

\* Nobody has a place who registered after somebody who still waits.
THEOREM FirstComeFirstServedHolds == WorkshopSpec => []FirstComeFirstServed
<1>1. ASSUME WorkshopInv PROVE FirstComeFirstServed
  <2> SUFFICES ASSUME NEW w \in Undisturbed, programme.mode[w] = "FCFS"
               PROVE  \A i, k \in DOMAIN line[w] : i < k /\ reg[w][line[w][i]] = "WAITLISTED"
                                                       => reg[w][line[w][k]] # "CONFIRMED"
    BY DEF FirstComeFirstServed
  <2>1. InOrder(w)
    BY <1>1 DEF WorkshopInv, InPlace
  <2>2. line[w] \in Seq(Members)
    BY <1>1 DEF WorkshopInv, WorkshopTypeOK, Undisturbed
  <2>3. DOMAIN line[w] = 1 .. Len(line[w])
    BY <2>2, LenProperties
  <2> QED
    BY <2>1, <2>3 DEF InOrder
<1> QED
  BY <1>1, WorkshopInvariance, PTL

-----------------------------------------------------------------------------
(* Workshops: who has a place keeps it.                                     *)

\* In this step nobody loses a place in the workshop but by cancelling.
Keeps(w) ==
    \A m \in HasStatus(w, "CONFIRMED") :
        \/ reg'[w][m] = "CONFIRMED"
        \/ \E c \in Clerks : /\ clerk[c].op = "cancelling" /\ clerk'[c] = AtDesk
                             /\ clerk[c].of = w /\ clerk[c].who = m

\* A request about one member, that gives a place or finds the member without.
LEMMA OneKeeps ==
    ASSUME WorkshopInv, NEW c \in Clerks, NEW to \in RegStatuses, clerk[c].op \in MemberOps,
           Commit(c, With(clerk[c].of, clerk[c].who, to), {clerk[c].of}),
           NEW w \in Undisturbed',
           clerk[c].of = w => to = "CONFIRMED" \/ reg[w][clerk[c].who] # "CONFIRMED"
    PROVE  Keeps(w)
<1>1. WorkshopTypeOK /\ clerk[c] \in MemberJobs
  BY MemberCommit DEF WorkshopInv
<1>2. PICK v \in Workshops, x \in Members : v = clerk[c].of /\ x = clerk[c].who
  BY <1>1 DEF MemberJobs
<1>3. reg' = [reg EXCEPT ![v][x] = to]
  BY <1>2 DEF Commit, Write, With
<1>4. w \in Workshops /\ reg \in [Workshops -> [Members -> RegStatuses]]
  BY <1>1 DEF Undisturbed, WorkshopTypeOK
<1>5. \A m \in Members : reg'[w][m] = IF w = v /\ m = x THEN to ELSE reg[w][m]
  BY <1>2, <1>3, <1>4
<1> QED
  BY <1>2, <1>5 DEF Keeps, HasStatus

LEMMA RegisteredKeepsPlaces ==
    ASSUME WorkshopInv, NEW c \in Clerks, Registered(c), NEW w \in Undisturbed'
    PROVE  Keeps(w)
<1>1. PICK j : j = clerk[c]
  OBVIOUS
<1>2. j.op = "register" /\ Commit(c, With(j.of, j.who, j.to), {j.of})
  BY <1>1 DEF Registered
<1>3. /\ j # AtDesk /\ j \in MemberJobs
      /\ raced' = raced \cup (j.outdated \cap {j.of})
  BY <1>1, <1>2, MemberCommit DEF MemberOps
<1>4. j.of \in Workshops /\ j.to \in RegStatuses
  BY <1>3 DEF MemberJobs
<1>5. j.of = w => reg[w][j.who] = "none"
  <2> SUFFICES ASSUME j.of = w PROVE reg[w][j.who] = "none"
    OBVIOUS
  <2>1. UpToDate(j, w)
    BY <1>1, <1>3, <1>4, InTime
  <2> QED
    BY <1>2, <2>1 DEF UpToDate
<1> QED
  BY <1>1, <1>2, <1>4, <1>5, OneKeeps DEF MemberOps

LEMMA ConfirmingKeepsPlaces ==
    ASSUME WorkshopInv, NEW c \in Clerks, Promoted(c) \/ ConfirmedByStaff(c),
           NEW w \in Undisturbed'
    PROVE  Keeps(w)
<1>1. /\ clerk[c].op \in MemberOps
      /\ Commit(c, With(clerk[c].of, clerk[c].who, "CONFIRMED"), {clerk[c].of})
  BY DEF Promoted, ConfirmedByStaff, MemberOps
<1>2. "CONFIRMED" \in RegStatuses
  BY DEF RegStatuses
<1> QED
  BY <1>1, <1>2, OneKeeps

\* The place of the one who cancels may go to the next; nobody else is affected.
LEMMA CancelledKeepsPlaces ==
    ASSUME WorkshopInv, NEW c \in Clerks, Cancelled(c), NEW w \in Undisturbed'
    PROVE  Keeps(w)
<1>1. PICK j : j = clerk[c]
  OBVIOUS
<1>2. PICK new : new = [reg EXCEPT ![j.of] = [m \in Members |->
                     CASE m = j.who  -> "CANCELLED"
                       [] m # j.who /\ m = j.next /\ @[m] # "none" -> "CONFIRMED"
                       [] OTHER -> @[m]]]
  OBVIOUS
<1>3. j.op = "cancelling" /\ Commit(c, new, {j.of})
  BY <1>1, <1>2 DEF Cancelled
<1>4. WorkshopTypeOK /\ j \in MemberJobs
  BY <1>1, <1>3, MemberCommit DEF MemberOps, WorkshopInv
<1>5. PICK v \in Workshops : v = j.of
  BY <1>4 DEF MemberJobs
<1>6. reg' = new /\ clerk'[c] = AtDesk
  BY <1>3 DEF Commit, Write
<1>7. w \in Workshops /\ reg \in [Workshops -> [Members -> RegStatuses]]
  BY <1>4 DEF Undisturbed, WorkshopTypeOK
<1>8. ASSUME NEW m \in HasStatus(w, "CONFIRMED"), ~(v = w /\ m = j.who)
      PROVE  reg'[w][m] = "CONFIRMED"
  <2>1. m \in Members /\ reg[w][m] = "CONFIRMED"
    BY DEF HasStatus
  <2>2. CASE v # w
    BY <1>2, <1>5, <1>6, <1>7, <2>1, <2>2
  <2>3. CASE v = w /\ m # j.who
    <3>1. new[w] = [k \in Members |->
                        CASE k = j.who  -> "CANCELLED"
                          [] k # j.who /\ k = j.next /\ reg[w][k] # "none" -> "CONFIRMED"
                          [] OTHER -> reg[w][k]]
      BY <1>2, <1>5, <1>7, <2>3
    <3> QED
      BY <1>6, <2>1, <2>3, <3>1
  <2> QED
    BY <1>8, <2>2, <2>3
<1> QED
  BY <1>1, <1>3, <1>5, <1>6, <1>8 DEF Keeps

\* Only who is still pending can be unlucky.
LEMMA DrawnKeepsPlaces ==
    ASSUME WorkshopInv, NEW c \in Clerks, Drawn(c), NEW w \in Undisturbed'
    PROVE  Keeps(w)
<1>1. PICK j : j = clerk[c]
  OBVIOUS
<1>2. PICK lucky \in SUBSET j.pending :
          Commit(c, [reg EXCEPT ![j.of] = [m \in Members |->
                 CASE m \in lucky -> "CONFIRMED"
                   [] m \in j.pending \ lucky -> "WAITLISTED"
                   [] OTHER -> @[m]]], {j.of})
  BY <1>1 DEF Drawn
<1>3. WorkshopTypeOK /\ j.op = "draw" /\ clerk[c] \in ClerkJobs
  BY <1>1 DEF WorkshopInv, WorkshopTypeOK, Drawn
<1>4. j \in DrawJobs /\ j # AtDesk
  BY <1>1, <1>3, ClerkKinds
<1>5. PICK v \in Workshops, P \in SUBSET Members : v = j.of /\ P = j.pending
  BY <1>4 DEF DrawJobs
<1>6. PICK new : new = [reg EXCEPT ![v] = [m \in Members |->
                 CASE m \in lucky -> "CONFIRMED"
                   [] m \in P \ lucky -> "WAITLISTED"
                   [] OTHER -> @[m]]]
  OBVIOUS
<1>7. reg' = new /\ raced' = raced \cup (j.outdated \cap {v})
  BY <1>1, <1>2, <1>5, <1>6 DEF Commit, Write
<1>8. w \in Workshops /\ reg \in [Workshops -> [Members -> RegStatuses]]
  BY <1>3 DEF Undisturbed, WorkshopTypeOK
<1>9. ASSUME NEW m \in HasStatus(w, "CONFIRMED")
      PROVE  reg'[w][m] = "CONFIRMED"
  <2>1. m \in Members /\ reg[w][m] = "CONFIRMED"
    BY DEF HasStatus
  <2>2. CASE v # w
    BY <1>6, <1>7, <1>8, <2>1, <2>2
  <2>3. CASE v = w
    <3>1. UpToDate(j, w)
      BY <1>1, <1>4, <1>7, <2>3, InTime
    <3>2. m \notin P /\ m \notin lucky
      BY <1>3, <1>5, <2>1, <2>3, <3>1 DEF UpToDate, HasStatus
    <3>3. new[w] = [k \in Members |->
                        CASE k \in lucky -> "CONFIRMED"
                          [] k \in P \ lucky -> "WAITLISTED"
                          [] OTHER -> reg[w][k]]
      BY <1>6, <1>8, <2>3
    <3> QED
      BY <1>7, <2>1, <3>2, <3>3
  <2> QED
    BY <2>2, <2>3
<1> QED
  BY <1>9 DEF Keeps

\* Whatever the plan was made on, only who is pending now has to wait.
LEMMA RankedKeepsPlaces ==
    ASSUME NEW c \in Clerks, Ranked(c), NEW w \in Workshops
    PROVE  Keeps(w)
<1>1. PICK plan : plan = clerk[c].plan
  OBVIOUS
<1>2. reg' = [v \in Workshops |-> [m \in Members |->
                     CASE plan[m] = v -> "CONFIRMED"
                       [] plan[m] # v /\ reg[v][m] = "PENDING_ALLOCATION" -> "WAITLISTED"
                       [] OTHER -> reg[v][m]]]
  BY <1>1 DEF Ranked, Commit, Write
<1>3. \A m \in Members : reg'[w][m] =
          CASE plan[m] = w -> "CONFIRMED"
            [] plan[m] # w /\ reg[w][m] = "PENDING_ALLOCATION" -> "WAITLISTED"
            [] OTHER -> reg[w][m]
  BY <1>2
<1> QED
  BY <1>3 DEF Keeps, HasStatus

LEMMA AmendKeepsPlaces ==
    ASSUME WorkshopInv, NEW c \in Clerks, NEW v \in Workshops, NEW m \in Members,
           NEW s \in RegStatuses, Amend(c, v, m, s), NEW w \in Undisturbed'
    PROVE  Keeps(w)
<1>1. reg' = [reg EXCEPT ![v][m] = s] /\ v \in overridden'
  BY DEF Amend, Write, With
<1>2. w # v /\ w \in Workshops
  BY <1>1 DEF Undisturbed
<1>3. reg'[w] = reg[w]
  BY <1>1, <1>2 DEF WorkshopInv, WorkshopTypeOK
<1> QED
  BY <1>3 DEF Keeps, HasStatus

\* Who has a place in a workshop keeps it until he or she cancels, whatever is
\* drawn, ranked, promoted or confirmed, unless staff amend the registrations or
\* write on an outdated reading.
THEOREM PlacesAreKeptHolds == WorkshopSpec => PlacesAreKept
<1>1. ASSUME WorkshopInv, [WorkshopNext]_workshopVars, NEW w \in Undisturbed'
      PROVE  Keeps(w)
  <2>1. CASE UNCHANGED reg
    BY <2>1 DEF Keeps, HasStatus
  <2>2. ASSUME NEW c \in Clerks, Committing(c) PROVE Keeps(w)
    <3>1. CASE Cancelling(c) \/ RollBack(c)
      <4>1. UNCHANGED reg
        BY <3>1 DEF Cancelling, RollBack
      <4> QED
        BY <2>1, <4>1
    <3>2. CASE Ranked(c)
      BY <3>2, RankedKeepsPlaces DEF Undisturbed
    <3> QED
      BY <1>1, <2>2, <3>1, <3>2, RegisteredKeepsPlaces, ConfirmingKeepsPlaces,
         CancelledKeepsPlaces, DrawnKeepsPlaces DEF Committing
  <2>3. ASSUME NEW c \in Clerks, Reading(c) PROVE Keeps(w)
    <3>1. CASE \E v \in Workshops, m \in Members, s \in RegStatuses : Amend(c, v, m, s)
      BY <1>1, <3>1, AmendKeepsPlaces
    <3>2. CASE ~\E v \in Workshops, m \in Members, s \in RegStatuses : Amend(c, v, m, s)
      <4>1. UNCHANGED reg
        BY <2>3, <3>2 DEF Reading, Register, Cancel, Confirm, Promote, Draw, Rank, Begin
      <4> QED
        BY <2>1, <4>1
    <3> QED
      BY <3>1, <3>2
  <2>4. CASE \/ \E v \in Workshops : SetOpen(open \cup {v}) \/ SetOpen(open \ {v})
             \/ \E m \in Members : SetFinalised(m)
    <3>1. UNCHANGED reg
      BY <2>4 DEF SetOpen, SetFinalised
    <3> QED
      BY <2>1, <3>1
  <2>5. CASE UNCHANGED workshopVars
    BY <2>1, <2>5 DEF workshopVars
  <2> QED
    BY <1>1, <2>2, <2>3, <2>4, <2>5 DEF WorkshopNext
<1>2. ASSUME WorkshopInv, [WorkshopNext]_workshopVars
      PROVE  [\A w \in Workshops \ (raced' \cup overridden') : \A m \in HasStatus(w, "CONFIRMED") :
          \/ reg'[w][m] = "CONFIRMED"
          \/ \E c \in Clerks : /\ clerk[c].op = "cancelling" /\ clerk'[c] = AtDesk
                               /\ clerk[c].of = w /\ clerk[c].who = m]_workshopVars
  BY <1>1, <1>2 DEF Keeps, Undisturbed
<1> QED
  BY <1>2, WorkshopInvariance, PTL DEF WorkshopSpec, PlacesAreKept

-----------------------------------------------------------------------------
(* Workshops: an allocation by interest is fair.                            *)

\* g is what the plan was after each of the submissions in the order.
Run(order, g) ==
    /\ order \in Seq(Members) /\ IsInjective(order)
    /\ g \in [0 .. Len(order) -> Plans] /\ Planning(order, Len(order), g)

LEMMA RunStep ==
    ASSUME WorkshopTypeOK, NEW order, NEW g, Run(order, g), NEW k \in 0 .. Len(order) - 1
    PROVE  /\ Len(order) \in Nat /\ k + 1 \in 1 .. Len(order) /\ k + 1 \in 0 .. Len(order)
           /\ order[k + 1] \in Members
           /\ g[k] \in Plans /\ g[k + 1] \in Plans
           /\ g[k + 1] = PlaceOne(g[k], order[k + 1])
           /\ \A n \in Members : n # order[k + 1] => g[k + 1][n] = g[k][n]
<1>1. /\ order \in Seq(Members)
      /\ g \in [0 .. Len(order) -> Plans] /\ Planning(order, Len(order), g)
  BY DEF Run
<1>2. Len(order) \in Nat
  BY <1>1, LenProperties
<1>3. k \in 0 .. Len(order) /\ k + 1 \in 0 .. Len(order)
  BY <1>2
<1>4. PICK i \in 1 .. Len(order) : i = k + 1 /\ i - 1 = k
  BY <1>2
<1>5. PICK m \in Members : m = order[i]
  BY <1>1, ElementOfSeq
<1>6. PICK p \in Plans : p = g[k]
  BY <1>1, <1>3
<1>7. g[i] = PlaceOne(p, m)
  BY <1>1, <1>4, <1>5, <1>6 DEF Planning
<1>8. \A n \in Members : n # m => PlaceOne(p, m)[n] = p[n]
  <2>1. CASE PlaceOne(p, m) = p
    BY <2>1
  <2>2. ASSUME NEW v \in open, PlaceOne(p, m) = [p EXCEPT ![m] = v]
        PROVE  \A n \in Members : n # m => PlaceOne(p, m)[n] = p[n]
    BY <2>2 DEF Plans
  <2> QED
    BY <2>1, <2>2, PlaceOneFacts
<1> QED
  BY <1>1, <1>2, <1>3, <1>4, <1>5, <1>6, <1>7, <1>8

\* Nobody has a place before his or her turn.
LEMMA BeforeTurn ==
    ASSUME WorkshopTypeOK, NEW order, NEW g, Run(order, g),
           NEW k \in 0 .. Len(order), NEW i \in 1 .. Len(order), k < i
    PROVE  g[k][order[i]] = Nowhere
<1> DEFINE P == {n \in 0 .. Len(order) :
                    \A h \in 1 .. Len(order) : n < h => g[n][order[h]] = Nowhere}
<1>1. /\ order \in Seq(Members) /\ Len(order) \in Nat
      /\ IsInjective(order) /\ DOMAIN order = 1 .. Len(order)
      /\ g[0] = [m \in Members |-> Nowhere]
      /\ \A h \in 1 .. Len(order) : order[h] \in Members
  BY LenProperties, ElementOfSeq DEF Run, Planning
<1>2. 0 \in P
  BY <1>1
<1>3. ASSUME NEW n \in 0 .. Len(order) - 1, n \in P PROVE n + 1 \in P
  <2>1. /\ n + 1 \in 1 .. Len(order) /\ n + 1 \in 0 .. Len(order)
        /\ \A m \in Members : m # order[n + 1] => g[n + 1][m] = g[n][m]
    BY RunStep
  <2>2. ASSUME NEW h \in 1 .. Len(order), n + 1 < h PROVE g[n + 1][order[h]] = Nowhere
    <3>1. order[h] # order[n + 1]
      BY <1>1, <2>1, <2>2 DEF IsInjective
    <3>2. g[n][order[h]] = Nowhere
      BY <1>1, <1>3, <2>2
    <3> QED
      BY <1>1, <2>1, <3>1, <3>2
  <2> QED
    BY <2>1, <2>2
<1>4. \A n \in 0 .. Len(order) : n \in P
  <2> HIDE DEF P
  <2> QED
    BY <1>1, <1>2, <1>3, UpTo
<1> QED
  BY <1>4

\* What somebody has after his or her turn is kept.
LEMMA AfterTurn ==
    ASSUME WorkshopTypeOK, NEW order, NEW g, Run(order, g)
    PROVE  \A k \in 0 .. Len(order), i \in 1 .. Len(order) :
               i <= k => g[k][order[i]] = g[i][order[i]]
<1> DEFINE P == {n \in 0 .. Len(order) :
                    \A h \in 1 .. Len(order) : h <= n => g[n][order[h]] = g[h][order[h]]}
<1>1. /\ order \in Seq(Members) /\ Len(order) \in Nat
      /\ IsInjective(order) /\ DOMAIN order = 1 .. Len(order)
      /\ \A h \in 1 .. Len(order) : order[h] \in Members
  BY LenProperties, ElementOfSeq DEF Run
<1>2. 0 \in P
  BY <1>1
<1>3. ASSUME NEW n \in 0 .. Len(order) - 1, n \in P PROVE n + 1 \in P
  <2>1. /\ n + 1 \in 1 .. Len(order) /\ n + 1 \in 0 .. Len(order)
        /\ \A m \in Members : m # order[n + 1] => g[n + 1][m] = g[n][m]
    BY RunStep
  <2>2. ASSUME NEW h \in 1 .. Len(order), h <= n + 1
        PROVE  g[n + 1][order[h]] = g[h][order[h]]
    <3>1. CASE h = n + 1
      BY <3>1
    <3>2. CASE h # n + 1
      <4>1. h <= n
        BY <1>1, <2>2, <3>2
      <4>2. order[h] # order[n + 1]
        BY <1>1, <2>1, <3>2 DEF IsInjective
      <4>3. g[n][order[h]] = g[h][order[h]]
        BY <1>3, <4>1
      <4> QED
        BY <1>1, <2>1, <4>2, <4>3
    <3> QED
      BY <3>1, <3>2
  <2> QED
    BY <2>1, <2>2
<1>4. \A n \in 0 .. Len(order) : n \in P
  <2> HIDE DEF P
  <2> QED
    BY <1>1, <1>2, <1>3, UpTo
<1> QED
  BY <1>4

\* Places once planned are not taken back.
LEMMA PlanGrows ==
    ASSUME WorkshopTypeOK, NEW order, NEW g, Run(order, g),
           NEW i \in 0 .. Len(order), NEW k \in i .. Len(order), NEW w \in Workshops
    PROVE  Placed(g[i], w) \subseteq Placed(g[k], w)
<1> DEFINE P == {n \in 0 .. Len(order) :
                    \A h \in 0 .. Len(order) : h <= n => Placed(g[h], w) \subseteq Placed(g[n], w)}
<1>1. order \in Seq(Members) /\ Len(order) \in Nat
  BY LenProperties DEF Run
<1>2. 0 \in P
  <2> SUFFICES ASSUME NEW h \in 0 .. Len(order), h <= 0
               PROVE  Placed(g[h], w) \subseteq Placed(g[0], w)
    BY <1>1
  <2>1. h = 0
    BY <1>1
  <2> QED
    BY <2>1
<1>3. ASSUME NEW n \in 0 .. Len(order) - 1, n \in P PROVE n + 1 \in P
  <2>1. /\ n + 1 \in 1 .. Len(order) /\ n + 1 \in 0 .. Len(order)
        /\ \A m \in Members : m # order[n + 1] => g[n + 1][m] = g[n][m]
    BY RunStep
  <2>2. g[n][order[n + 1]] = Nowhere
    BY <1>1, <2>1, BeforeTurn
  <2>3. Placed(g[n], w) \subseteq Placed(g[n + 1], w)
    BY <2>1, <2>2, NamesAssumption DEF Placed
  <2>4. ASSUME NEW h \in 0 .. Len(order), h <= n + 1
        PROVE  Placed(g[h], w) \subseteq Placed(g[n + 1], w)
    <3>1. CASE h = n + 1
      BY <3>1
    <3>2. CASE h # n + 1
      <4>1. h <= n
        BY <1>1, <2>4, <3>2
      <4>2. Placed(g[h], w) \subseteq Placed(g[n], w)
        BY <1>3, <4>1
      <4> QED
        BY <2>3, <4>2
    <3> QED
      BY <3>1, <3>2
  <2> QED
    BY <2>1, <2>4
<1>4. \A n \in 0 .. Len(order) : n \in P
  <2> HIDE DEF P
  <2> QED
    BY <1>1, <1>2, <1>3, UpTo
<1>5. k \in 0 .. Len(order) /\ i <= k
  BY <1>1
<1> QED
  BY <1>4, <1>5

HasRoom(plan, w) == Confirmed(w) + Cardinality(Placed(plan, w)) < Capacity[w]

\* Room that is left later was there before.
LEMMA RoomShrinks ==
    ASSUME WorkshopTypeOK, NEW order, NEW g, Run(order, g),
           NEW i \in 0 .. Len(order), NEW k \in i .. Len(order), NEW w \in Workshops,
           HasRoom(g[k], w)
    PROVE  HasRoom(g[i], w)
<1>1. PICK S \in SUBSET Members, T \in SUBSET Members : S = Placed(g[i], w) /\ T = Placed(g[k], w)
  BY DEF Placed
<1>2. S \subseteq T
  BY <1>1, PlanGrows
<1>3. Cardinality(S) <= Cardinality(T)
  BY <1>2, MembersFinite, FS_Subset
<1>4. /\ Cardinality(S) \in Nat /\ Cardinality(T) \in Nat
      /\ Confirmed(w) \in Nat /\ Capacity[w] \in Nat
  BY MembersFinite, CapacityAssumption DEF Confirmed, HasStatus
<1> QED
  BY <1>1, <1>3, <1>4 DEF HasRoom

\* Whoever wants a workshop that has room in his or her turn is placed in one
\* ranked at least as high, or registered in one.
LEMMA OwnTurn ==
    ASSUME WorkshopTypeOK, NEW plan \in Plans, NEW m \in Members, NEW w \in open,
           Contains(programme.ranks[m], w), HasRoom(plan, w)
    PROVE  \E v \in open : Prefers(m, v, w) /\ (PlaceOne(plan, m)[m] = v \/ reg[v][m] # "none")
<1>1. PICK r \in Seq(Workshops) : r = programme.ranks[m]
  BY ProgrammesAssumption DEF WorkshopTypeOK
<1>2. PICK S \in SUBSET open : \A v \in open : v \in S <=> HasRoom(plan, v)
  <2> DEFINE S == {v \in open : HasRoom(plan, v)}
  <2>1. S \in SUBSET open /\ \A v \in open : v \in S <=> HasRoom(plan, v)
    OBVIOUS
  <2> QED
    BY <2>1
<1>3. PICK f : f = StillFree(plan, m)
  OBVIOUS
<1>4. f = Those(r, S)
  <2>1. S = {v \in open : Confirmed(v) + Cardinality(Placed(plan, v)) < Capacity[v]}
    BY <1>2 DEF HasRoom
  <2> QED
    BY <1>1, <1>3, <2>1 DEF StillFree
<1>5. PICK k \in 1 .. Len(r) : r[k] = w
  BY <1>1 DEF Contains
<1>6. w \in S
  BY <1>2
<1>7. /\ f = <<>> <=> \A h \in 1 .. Len(r) : r[h] \notin S
      /\ f # <<>> => \E h \in 1 .. Len(r) :
            /\ Head(f) = r[h] /\ r[h] \in S /\ r[h] \in Workshops
            /\ \A n \in 1 .. h - 1 : r[n] \notin S
  BY <1>4, ThoseHead
<1>8. f # <<>>
  BY <1>5, <1>6, <1>7
<1>9. PICK h \in 1 .. Len(r) : Head(f) = r[h] /\ r[h] \in S /\ \A n \in 1 .. h - 1 : r[n] \notin S
  BY <1>7, <1>8
<1>10. Len(r) \in Nat /\ DOMAIN r = 1 .. Len(r)
  BY LenProperties
<1>11. ~(k < h)
  <2>1. k \in 1 .. h - 1 => r[k] \notin S
    BY <1>9
  <2>2. k < h => k \in 1 .. h - 1
    BY <1>10
  <2> QED
    BY <1>5, <1>6, <2>1, <2>2
<1>12. PICK v \in open : v = Head(f) /\ v = r[h]
  BY <1>9
<1>13. h <= k
  BY <1>10, <1>11
<1>14. Prefers(m, v, w)
  BY <1>1, <1>5, <1>10, <1>12, <1>13 DEF Prefers
<1>15. PlaceOne(plan, m)[m] = v \/ reg[v][m] # "none"
  <2>1. CASE reg[Head(StillFree(plan, m))][m] # "none"
    BY <1>3, <1>12, <2>1
  <2>2. ASSUME NEW u \in open, PlaceOne(plan, m) = [plan EXCEPT ![m] = u], u = Head(StillFree(plan, m))
        PROVE  PlaceOne(plan, m)[m] = v
    BY <1>3, <1>12, <2>2 DEF Plans
  <2> QED
    BY <1>3, <1>8, <2>1, <2>2, PlaceOneFacts
<1> QED
  BY <1>14, <1>15

\* Who may be passed over by an allocation by interest: whoever finds a workshop
\* full, or full by the turn of somebody who submitted later, and, which is what
\* allocation.py:275 adds to the docstring, whoever has a registration in an open
\* workshop at least as much wanted, even one that is pending or cancelled.
OnlyRegisteredArePassedOver ==
    LET plan  == Plan
        order == Finalised
    IN  \A i \in DOMAIN order, w \in open :
            /\ Contains(programme.ranks[order[i]], w)
            /\ ~\E v \in open : Prefers(order[i], v, w)
                                /\ (plan[order[i]] = v \/ reg[v][order[i]] # "none")
            => /\ Confirmed(w) + Cardinality({n \in Members : plan[n] = w}) >= Capacity[w]
               /\ \A k \in i + 1 .. Len(order) : plan[order[k]] # w

LEMMA FairPlan ==
    ASSUME WorkshopTypeOK
    PROVE  OnlyRegisteredArePassedOver
<1>1. PICK order \in Seq(Members) : order = Finalised /\ IsInjective(order)
  <2>1. Those(Submitted, finalised) \in Seq(Members)
    BY SubmittedAssumption, ThoseFacts
  <2>2. IsInjective(Submitted) => IsInjective(Those(Submitted, finalised))
    BY SubmittedAssumption, ThoseElements
  <2> QED
    BY <2>1, <2>2, SubmittedAssumption DEF Finalised
<1>2. PICK g \in [0 .. Len(order) -> Plans] : Planning(order, Len(order), g)
  BY PlanningExists
<1>3. Run(order, g)
  BY <1>1, <1>2 DEF Run
<1>4. PICK N \in Nat : N = Len(order)
  BY LenProperties
<1>5. PICK plan \in Plans : plan = Plan /\ plan = g[N]
  <2>1. PlanFor(order) = g[Len(order)]
    BY <1>2, PlanForPlanning
  <2> QED
    BY <1>1, <1>2, <1>4, <2>1 DEF Plan
<1>6. DOMAIN order = 1 .. N /\ \A i \in 1 .. N : order[i] \in Members
  BY <1>4, LenProperties, ElementOfSeq
<1>7. ASSUME NEW i \in 1 .. N, NEW w \in open, Contains(programme.ranks[order[i]], w),
             ~\E v \in open : /\ Prefers(order[i], v, w)
                              /\ plan[order[i]] = v \/ reg[v][order[i]] # "none"
      PROVE  /\ Confirmed(w) + Cardinality(Placed(plan, w)) >= Capacity[w]
             /\ \A k \in i + 1 .. N : plan[order[k]] # w
  <2>1. w \in Workshops
    BY DEF WorkshopTypeOK
  <2>2. i \in 1 .. Len(order)
    BY <1>4
  <2>3. PICK h \in 0 .. Len(order) - 1 : h + 1 = i /\ h = i - 1
    BY <1>4
  <2>4. PICK m \in Members : m = order[i]
    BY <1>6
  <2>5. PICK p \in Plans : p = g[h] /\ g[i] = PlaceOne(p, m)
    BY <1>3, <2>3, <2>4, RunStep
  <2>6. plan[m] = PlaceOne(p, m)[m]
    <3>1. N \in 0 .. Len(order) /\ i <= N
      BY <1>4
    <3>2. g[N][order[i]] = g[i][order[i]]
      BY <1>3, <2>2, <3>1, AfterTurn
    <3> QED
      BY <1>5, <2>4, <2>5, <3>2
  <2>7. ~HasRoom(p, w)
    BY <1>7, <2>4, <2>6, OwnTurn
  <2>8. \A k \in 0 .. Len(order) : h <= k => ~HasRoom(g[k], w)
    <3> SUFFICES ASSUME NEW k \in 0 .. Len(order), h <= k, HasRoom(g[k], w) PROVE FALSE
      OBVIOUS
    <3>1. h \in 0 .. Len(order) /\ k \in h .. Len(order)
      BY <1>4
    <3>2. HasRoom(g[h], w)
      BY <1>3, <2>1, <3>1, RoomShrinks
    <3> QED
      BY <2>5, <2>7, <3>2
  <2>9. Confirmed(w) + Cardinality(Placed(plan, w)) >= Capacity[w]
    <3>1. ~HasRoom(plan, w)
      BY <1>4, <1>5, <2>3, <2>8
    <3>2. PICK T \in SUBSET Members : T = Placed(plan, w)
      BY DEF Placed
    <3>3. Cardinality(T) \in Nat /\ Confirmed(w) \in Nat /\ Capacity[w] \in Nat
      BY <2>1, MembersFinite, CapacityAssumption DEF Confirmed, HasStatus
    <3> QED
      BY <3>1, <3>2, <3>3 DEF HasRoom
  <2>10. ASSUME NEW k \in i + 1 .. N, plan[order[k]] = w PROVE FALSE
    <3>1. k \in 1 .. Len(order) /\ N \in 0 .. Len(order) /\ k <= N
      BY <1>4
    <3>2. PICK e \in 0 .. Len(order) - 1 : e + 1 = k /\ e < k /\ h <= e
      BY <1>4, <2>3
    <3>3. PICK n \in Members : n = order[k]
      BY <1>4, <1>6, <3>1
    <3>4. PICK q \in Plans : q = g[e] /\ g[k] = PlaceOne(q, n)
      BY <1>3, <3>2, <3>3, RunStep
    <3>5. g[N][order[k]] = g[k][order[k]]
      BY <1>3, <3>1, AfterTurn
    <3>6. PlaceOne(q, n)[n] = w
      BY <1>5, <2>10, <3>3, <3>4, <3>5
    <3>7. e \in 0 .. Len(order)
      BY <1>4
    <3>8. q[n] = Nowhere
      <4>1. g[e][order[k]] = Nowhere
        BY <1>3, <3>1, <3>2, <3>7, BeforeTurn
      <4> QED
        BY <3>3, <3>4, <4>1
    <3>9. ~HasRoom(q, w)
      BY <2>8, <3>2, <3>4, <3>7
    <3>10. CASE PlaceOne(q, n) = q
      BY <2>1, <3>6, <3>8, <3>10, NamesAssumption
    <3>11. ASSUME NEW v \in open, PlaceOne(q, n) = [q EXCEPT ![n] = v],
                  Confirmed(v) + Cardinality(Placed(q, v)) < Capacity[v]
           PROVE  FALSE
      <4>1. v = w
        BY <3>6, <3>11 DEF Plans
      <4> QED
        BY <3>9, <3>11, <4>1 DEF HasRoom
    <3> QED
      BY <3>10, <3>11, PlaceOneFacts
  <2> QED
    BY <2>9, <2>10
<1>8. ASSUME NEW i \in DOMAIN order, NEW w \in open,
             Contains(programme.ranks[order[i]], w),
             ~\E v \in open : /\ Prefers(order[i], v, w)
                              /\ plan[order[i]] = v \/ reg[v][order[i]] # "none"
      PROVE  /\ Confirmed(w) + Cardinality({n \in Members : plan[n] = w}) >= Capacity[w]
             /\ \A k \in i + 1 .. Len(order) : plan[order[k]] # w
  <2>1. i \in 1 .. N
    BY <1>6
  <2>2. /\ Confirmed(w) + Cardinality(Placed(plan, w)) >= Capacity[w]
        /\ \A k \in i + 1 .. N : plan[order[k]] # w
    BY <1>7, <1>8, <2>1
  <2> QED
    BY <1>4, <2>2 DEF Placed
<1> QED
  BY <1>1, <1>5, <1>8 DEF OnlyRegisteredArePassedOver

\* Whenever an allocation by interest is computed, it passes nobody over who is
\* not registered yet: neither for somebody who submitted later nor for a place
\* left empty.  The registered may be, which the run ranking_pending shows.
THEOREM OnlyRegisteredArePassedOverHolds == WorkshopSpec => []OnlyRegisteredArePassedOver
<1>1. WorkshopTypeOK => OnlyRegisteredArePassedOver
  BY FairPlan
<1> QED
  BY <1>1, WorkshopTypesHold, PTL
=============================================================================
