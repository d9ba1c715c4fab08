----------------------------- MODULE DataLemmas -----------------------------
(***************************************************************************)
(* Lemmas about the data of the models, independent of any of them:        *)
(* induction up to a number, what a function computes that is defined by   *)
(* recursion over places, and the places of a finite ordered set.          *)
(*                                                                         *)
(* The library states induction for an operator P(_).  Here the predicate  *)
(* is the set of the numbers that satisfy it, and the step of a recursion  *)
(* is a function, so that a lemma is applied by naming a set.              *)
(***************************************************************************)
EXTENDS Places, FiniteSetTheorems, FunctionTheorems, TLAPS

\* Every set of natural numbers that is not empty has a least member.
LEMMA LeastNumber ==
  ASSUME NEW T, T \subseteq Nat, T # {}
  PROVE  \E m \in T : \A k \in T : m <= k
<1>1. \A x, y \in Nat : x < y => <<x, y>> \in OpToRel(<, Nat)
  BY DEF OpToRel
<1>2. \E m \in T : \A y \in T : ~(<<y, m>> \in OpToRel(<, Nat))
  BY NatLessThanWellFounded, WFMin
<1>3. \E m \in T : \A k \in T : ~(k < m)
  BY <1>1, <1>2, Zenon
<1>4. QED
  BY ONLY <1>3, T \subseteq Nat

\* A set of numbers up to n that is not empty has a greatest one.
LEMMA GreatestNumber ==
  ASSUME NEW n \in Nat, NEW T \in SUBSET (1..n), T # {}
  PROVE  \E m \in T : \A k \in T : m >= k
<1> DEFINE down == {n - k : k \in T}
<1>1. down \subseteq Nat /\ down # {}
  <2>1. \A k \in T : n - k \in Nat
    OBVIOUS
  <2>2. QED
    BY <2>1
<1>2. PICK d \in down : \A k \in down : d <= k
  BY <1>1, LeastNumber
<1>3. PICK m \in T : d = n - m
  BY <1>2
<1>4. ASSUME NEW k \in T PROVE m >= k
  <2>1. n - k \in down
    OBVIOUS
  <2>2. n - m <= n - k
    BY <1>2, <1>3, <2>1
  <2>3. QED
    BY <2>2
<1>5. QED
  BY <1>4

\* Induction from 0 to n over the set of the numbers for which it holds.
LEMMA Induction ==
  ASSUME NEW n \in Nat, NEW H, 0 \in H,
         \A k \in 1..n : k - 1 \in H => k \in H
  PROVE  0..n \subseteq H
<1> SUFFICES ASSUME ~(0..n \subseteq H) PROVE FALSE
  OBVIOUS
<1>1. PICK m \in (0..n) \ H : \A k \in (0..n) \ H : m <= k
  <2>1. (0..n) \ H \subseteq Nat /\ (0..n) \ H # {}
    OBVIOUS
  <2>2. QED
    BY <2>1, LeastNumber
<1>2. m \in 1..n /\ m - 1 \in 0..n /\ ~(m <= m - 1)
  BY <1>1
<1>3. m - 1 \in H
  BY <1>1, <1>2
<1>4. QED
  BY <1>1, <1>2, <1>3

\* g runs from first over n steps; step[k] makes its value at k from the one
\* at k - 1.
Runs(g, n, first, step) ==
  g[0] = first /\ \A k \in 1..n : g[k] = step[k][g[k - 1]]

\* A recursion over the places 0..n defines a function.
LEMMA Recursion ==
  ASSUME NEW n \in Nat, NEW V, NEW first \in V,
         NEW step \in [1..n -> [V -> V]]
  PROVE  \E g \in [0..n -> V] : Runs(g, n, first, step)
<1> DEFINE H == {k \in 0..n : \E g \in [0..n -> V] : Runs(g, k, first, step)}
<1>1. 0 \in H
  <2>1. [k \in 0..n |-> first] \in [0..n -> V] /\ 0 \in 0..n
    OBVIOUS
  <2>2. Runs([k \in 0..n |-> first], 0, first, step)
    BY <2>1 DEF Runs
  <2>3. QED
    BY <2>1, <2>2
<1>2. ASSUME NEW k \in 1..n, k - 1 \in H PROVE k \in H
  <2>1. PICK g \in [0..n -> V] : Runs(g, k - 1, first, step)
    BY <1>2
  <2>2. k \in 0..n /\ k - 1 \in 0..n /\ step[k][g[k - 1]] \in V
    OBVIOUS
  <2>3. PICK h \in [0..n -> V] : h = [g EXCEPT ![k] = step[k][g[k - 1]]]
    BY <2>2
  <2>4. h[k] = step[k][g[k - 1]] /\ \A i \in 0..k - 1 : h[i] = g[i]
    BY <2>2, <2>3
  <2>5. Runs(h, k, first, step)
    BY <2>1, <2>2, <2>4 DEF Runs
  <2>6. QED
    BY <2>2, <2>5
<1> HIDE DEF H
<1>3. n \in H
  <2>1. \A k \in 1..n : k - 1 \in H => k \in H
    BY <1>2
  <2>2. 0..n \subseteq H
    BY <1>1, <2>1, Induction
  <2>3. QED
    BY <2>2
<1>4. QED
  BY <1>3 DEF H

\* A set of places that has, with each place, the one before it, is a prefix.
LEMMA Prefix1toN ==
  ASSUME NEW n \in Nat, NEW F \in SUBSET (1..n),
         \A i \in F : i > 1 => i - 1 \in F
  PROVE  Cardinality(F) \in 0..n /\ F = 1..Cardinality(F)
<1>1. PICK m \in (1..n + 1) \ F : \A k \in (1..n + 1) \ F : m <= k
  <2>1. (1..n + 1) \ F \subseteq Nat /\ n + 1 \in (1..n + 1) \ F
    OBVIOUS
  <2>2. QED
    BY <2>1, LeastNumber
<1>2. 1..m - 1 \subseteq F
  BY <1>1
<1>3. F \subseteq 1..m - 1
  <2> DEFINE H == {k \in Nat : m + k \notin F}
  <2>1. 0 \in H
    BY <1>1
  <2>2. \A k \in 1..n : k - 1 \in H => k \in H
    <3>1. ASSUME NEW k \in 1..n, m + (k - 1) \notin F, m + k \in F PROVE FALSE
      <4>1. m + k > 1 /\ (m + k) - 1 = m + (k - 1)
        BY <1>1
      <4>2. QED
        BY <3>1, <4>1
    <3>2. QED
      BY <3>1
  <2> HIDE DEF H
  <2>3. 0..n \subseteq H
    BY <2>1, <2>2, Induction
  <2>4. ASSUME NEW i \in F, ~(i <= m - 1) PROVE FALSE
    <3>1. i \in 1..n /\ i - m \in 0..n /\ m + (i - m) = i
      BY <1>1, <2>4
    <3>2. i - m \in H
      BY <2>3, <3>1
    <3>3. QED
      BY <3>1, <3>2 DEF H
  <2>5. QED
    BY <1>1, <2>4
<1>4. m - 1 \in 0..n /\ F = 1..m - 1
  <2>1. m \in 1..n + 1
    OBVIOUS
  <2>2. F = 1..m - 1
    BY <1>2, <1>3
  <2>3. QED
    BY <2>1, <2>2
<1>5. Cardinality(1..m - 1) = m - 1
  <2>1. 1 \in Int /\ m - 1 \in Int
    BY <1>4
  <2>2. Cardinality(1..m - 1) = IF 1 > m - 1 THEN 0 ELSE (m - 1) - 1 + 1
    BY <2>1, FS_Interval
  <2>3. QED
    BY <1>4, <2>2
<1>6. QED
  BY <1>4, <1>5

\* A finite set with n different members has at least n members.
LEMMA DifferentMembers ==
  ASSUME NEW S, IsFiniteSet(S), NEW n \in Nat, NEW s \in [1..n -> S],
         \A i, j \in 1..n : i < j => s[i] # s[j]
  PROVE  Cardinality(S) \in Nat /\ n <= Cardinality(S)
<1>1. PICK T : T = {s[i] : i \in 1..n}
  OBVIOUS
<1>2. \A i, j \in 1..n : s[i] = s[j] => i = j
  OBVIOUS
<1>3. s \in [1..n -> T] /\ \A t \in T : \E i \in 1..n : s[i] = t
  BY <1>1
<1>4. ExistsBijection(1..n, T)
  <2>1. s \in Bijection(1..n, T)
    BY <1>2, <1>3, Fun_IsBij
  <2>2. QED
    BY <2>1 DEF ExistsBijection
<1>5. Cardinality(T) = n
  BY <1>4, FS_CountingElements
<1>6. T \in SUBSET S
  BY <1>1
<1>7. Cardinality(T) <= Cardinality(S) /\ Cardinality(S) \in Nat
  BY <1>6, FS_Subset, FS_CardinalityType
<1>8. QED
  BY <1>5, <1>7

-----------------------------------------------------------------------------
(* Places by rank                                                          *)

\* A total order on S, given as the set of what stands ahead of each member.
Orders(S, ahead) ==
  /\ ahead \in [S -> SUBSET S]
  /\ \A i \in S : i \notin ahead[i]
  /\ \A i, j \in S : j \in ahead[i] => ahead[j] \subseteq ahead[i]
  /\ \A i, j \in S : i # j => i \in ahead[j] \/ j \in ahead[i]

\* What is ahead has the smaller rank.
LEMMA RankOfAhead ==
  ASSUME NEW S, IsFiniteSet(S), NEW ahead, Orders(S, ahead),
         NEW i \in S, NEW j \in S
  PROVE  /\ Cardinality(ahead[i]) \in 0..Cardinality(S) - 1
         /\ j \in ahead[i] <=> Cardinality(ahead[j]) < Cardinality(ahead[i])
         /\ Cardinality(ahead[i]) = Cardinality(ahead[j]) => i = j
<1>1. ASSUME NEW u \in S
      PROVE  /\ IsFiniteSet(ahead[u]) /\ Cardinality(ahead[u]) \in Nat
             /\ ahead[u] \in SUBSET S
  <2>1. ahead[u] \in SUBSET S
    BY DEF Orders
  <2>2. QED
    BY <2>1, FS_Subset, FS_CardinalityType
<1>2. ASSUME NEW u \in S, NEW v \in S, v \in ahead[u]
      PROVE  Cardinality(ahead[v]) < Cardinality(ahead[u])
  <2>1. ahead[v] \in SUBSET ahead[u] /\ ahead[v] # ahead[u]
    BY <1>2 DEF Orders
  <2>2. /\ Cardinality(ahead[v]) <= Cardinality(ahead[u])
        /\ Cardinality(ahead[v]) # Cardinality(ahead[u])
    BY <1>1, <2>1, FS_Subset
  <2>3. QED
    BY <1>1, <2>2
<1>3. Cardinality(ahead[i]) < Cardinality(S)
  <2>1. ahead[i] # S
    BY DEF Orders
  <2>2. /\ Cardinality(ahead[i]) <= Cardinality(S)
        /\ Cardinality(ahead[i]) # Cardinality(S)
    BY <1>1, <2>1, FS_Subset
  <2>3. QED
    BY <1>1, <2>2, FS_CardinalityType
<1>4. Cardinality(ahead[i]) \in 0..Cardinality(S) - 1
  BY <1>1, <1>3, FS_CardinalityType
<1>5. i = j \/ i \in ahead[j] \/ j \in ahead[i]
  BY DEF Orders
<1>6. Cardinality(ahead[i]) \in Nat /\ Cardinality(ahead[j]) \in Nat
  BY <1>1
<1>7. /\ i \in ahead[j] => Cardinality(ahead[i]) < Cardinality(ahead[j])
      /\ j \in ahead[i] => Cardinality(ahead[j]) < Cardinality(ahead[i])
  BY <1>2
<1>8. QED
  BY <1>4, <1>5, <1>6, <1>7

\* Every place 1..Cardinality(S) is taken by exactly one member.
LEMMA PlacesByRank ==
  ASSUME NEW S, IsFiniteSet(S), NEW ahead, Orders(S, ahead),
         NEW k \in 1..Cardinality(S)
  PROVE  \E i \in S : /\ Cardinality(ahead[i]) = k - 1
                      /\ \A j \in S : Cardinality(ahead[j]) = k - 1 => j = i
<1> DEFINE ranks == 0..Cardinality(S) - 1
           rank == [i \in S |-> Cardinality(ahead[i])]
<1>1. Cardinality(S) \in Nat
  BY FS_CardinalityType
<1>2. rank \in [S -> ranks]
  BY RankOfAhead
<1>3. \A i, j \in S : rank[i] = rank[j] => i = j
  BY RankOfAhead
<1>4. rank \in Injection(S, ranks)
  BY <1>2, <1>3 DEF Injection, IsInjective
<1>5. IsFiniteSet(ranks) /\ Cardinality(ranks) = Cardinality(S)
  <2>1. 0 \in Int /\ Cardinality(S) - 1 \in Int
    BY <1>1
  <2>2. QED
    BY <1>1, <2>1, FS_Interval
<1>6. rank \in Surjection(S, ranks)
  BY <1>4, <1>5, FS_Injection
<1>7. k - 1 \in ranks
  BY <1>1
<1>8. PICK i \in S : rank[i] = k - 1
  BY <1>6, <1>7 DEF Surjection
<1>9. QED
  BY <1>3, <1>8

\* What a sequence of the members in order holds.
LEMMA InOrderIs ==
  ASSUME NEW S, IsFiniteSet(S), NEW ahead, Orders(S, ahead)
  PROVE  /\ Cardinality(S) \in Nat
         /\ InOrder(S, ahead) \in [1..Cardinality(S) -> S]
         /\ \A k \in 1..Cardinality(S) :
              Cardinality(ahead[InOrder(S, ahead)[k]]) = k - 1
         /\ \A i \in S : /\ Cardinality(ahead[i]) + 1 \in 1..Cardinality(S)
                         /\ InOrder(S, ahead)[Cardinality(ahead[i]) + 1] = i
<1>1. Cardinality(S) \in Nat
  BY FS_CardinalityType
<1>2. ASSUME NEW k \in 1..Cardinality(S)
      PROVE  /\ InOrder(S, ahead)[k] \in S
             /\ Cardinality(ahead[InOrder(S, ahead)[k]]) = k - 1
  <2>1. InOrder(S, ahead)[k] = CHOOSE i \in S : Cardinality(ahead[i]) = k - 1
    BY DEF InOrder
  <2>2. \E i \in S : Cardinality(ahead[i]) = k - 1
    BY PlacesByRank
  <2>3. QED
    BY <2>1, <2>2
<1>3. InOrder(S, ahead) \in [1..Cardinality(S) -> S]
  BY <1>2 DEF InOrder
<1>4. ASSUME NEW i \in S
      PROVE  /\ Cardinality(ahead[i]) + 1 \in 1..Cardinality(S)
             /\ InOrder(S, ahead)[Cardinality(ahead[i]) + 1] = i
  <2>1. Cardinality(ahead[i]) \in 0..Cardinality(S) - 1
    BY RankOfAhead
  <2>2. /\ Cardinality(ahead[i]) + 1 \in 1..Cardinality(S)
        /\ (Cardinality(ahead[i]) + 1) - 1 = Cardinality(ahead[i])
    BY <1>1, <2>1
  <2>3. PICK j \in S : /\ j = InOrder(S, ahead)[Cardinality(ahead[i]) + 1]
                       /\ Cardinality(ahead[j]) = Cardinality(ahead[i])
    BY <1>2, <2>2
  <2>4. j = i
    BY <2>3, RankOfAhead
  <2>5. QED
    BY <2>2, <2>3, <2>4
<1>5. QED
  BY <1>1, <1>2, <1>3, <1>4

\* The members with fewer than n others ahead of them.
First(S, ahead, n) == {i \in S : Cardinality(ahead[i]) < n}

\* They are n, or all if there are fewer; what is ahead of one is one of them.
LEMMA FirstByRank ==
  ASSUME NEW S, IsFiniteSet(S), NEW ahead, Orders(S, ahead), NEW n \in Nat
  PROVE  /\ IsFiniteSet(First(S, ahead, n)) /\ First(S, ahead, n) \subseteq S
         /\ Cardinality(First(S, ahead, n))
              = IF n < Cardinality(S) THEN n ELSE Cardinality(S)
         /\ \A i \in First(S, ahead, n) : ahead[i] \subseteq First(S, ahead, n)
<1> DEFINE F == {i \in S : Cardinality(ahead[i]) < n}
           c == IF n < Cardinality(S) THEN n ELSE Cardinality(S)
           place == InOrder(S, ahead)
           count == [k \in 1..c |-> place[k]]
<1>1. Cardinality(S) \in Nat /\ c \in Nat /\ 1..c \subseteq 1..Cardinality(S)
  BY FS_CardinalityType
<1>2. /\ place \in [1..Cardinality(S) -> S]
      /\ \A k \in 1..Cardinality(S) : Cardinality(ahead[place[k]]) = k - 1
      /\ \A i \in S : place[Cardinality(ahead[i]) + 1] = i
  BY InOrderIs
<1>3. \A i \in S : Cardinality(ahead[i]) \in 0..Cardinality(S) - 1
  BY RankOfAhead
<1> HIDE DEF place
<1>4. count \in [1..c -> F]
  <2>1. ASSUME NEW k \in 1..c PROVE place[k] \in F
    <3>1. place[k] \in S /\ Cardinality(ahead[place[k]]) = k - 1
      BY <1>1, <1>2
    <3>2. k - 1 < n
      BY <1>1
    <3>3. QED
      BY <3>1, <3>2
  <2>2. QED
    BY <2>1
<1>5. \A k, l \in 1..c : count[k] = count[l] => k = l
  <2>1. ASSUME NEW k \in 1..c, NEW l \in 1..c, count[k] = count[l]
        PROVE  k = l
    <3>1. k - 1 = l - 1
      BY <1>1, <1>2, <2>1
    <3>2. QED
      BY <1>1, <3>1
  <2>2. QED
    BY <2>1
<1>6. \A i \in F : \E k \in 1..c : count[k] = i
  <2>1. ASSUME NEW i \in F PROVE \E k \in 1..c : count[k] = i
    <3>1. /\ i \in S /\ Cardinality(ahead[i]) \in 0..Cardinality(S) - 1
          /\ Cardinality(ahead[i]) < n
      BY <1>3
    <3>2. Cardinality(ahead[i]) + 1 \in 1..c
      BY <1>1, <3>1
    <3>3. count[Cardinality(ahead[i]) + 1] = i
      BY <1>2, <3>1, <3>2
    <3>4. QED
      BY <3>2, <3>3
  <2>2. QED
    BY <2>1
<1>7. count \in Bijection(1..c, F)
  BY <1>4, <1>5, <1>6 DEF Bijection, Injection, IsInjective, Surjection
<1>8. Cardinality(F) = c
  <2>1. ExistsBijection(1..c, F)
    BY <1>7 DEF ExistsBijection
  <2>2. QED
    BY <1>1, <2>1, FS_CountingElements
<1>9. IsFiniteSet(F) /\ F \subseteq S
  BY FS_Subset
<1>10. ASSUME NEW i \in F PROVE ahead[i] \subseteq F
  <2>1. i \in S /\ ahead[i] \subseteq S
    BY DEF Orders
  <2>2. ASSUME NEW j \in ahead[i] PROVE j \in F
    <3>1. j \in S /\ Cardinality(ahead[j]) < Cardinality(ahead[i])
      BY <2>1, RankOfAhead
    <3>2. /\ Cardinality(ahead[i]) \in Int /\ Cardinality(ahead[j]) \in Int
          /\ Cardinality(ahead[i]) < n
      BY <1>1, <1>3, <2>1, <3>1
    <3>3. QED
      BY <3>1, <3>2
  <2>3. QED
    BY <2>2
<1> HIDE DEF F
<1>11. First(S, ahead, n) = F
  BY DEF First, F
<1>12. QED
  BY <1>8, <1>9, <1>10, <1>11

\* The first members stand in the same order among themselves.
LEMMA FirstInOrder ==
  ASSUME NEW S, IsFiniteSet(S), NEW ahead, Orders(S, ahead), NEW n \in Nat,
         NEW F, F = First(S, ahead, n),
         NEW aheadF \in [F -> SUBSET F], \A i \in F : aheadF[i] = ahead[i]
  PROVE  /\ Cardinality(F) \in Nat
         /\ InOrder(F, aheadF) \in [1..Cardinality(F) -> F]
         /\ 1..Cardinality(F) \subseteq 1..Cardinality(S)
         /\ \A k \in 1..Cardinality(F) :
              InOrder(F, aheadF)[k] = InOrder(S, ahead)[k]
<1>1. /\ IsFiniteSet(F) /\ F \subseteq S
      /\ Cardinality(F) = IF n < Cardinality(S) THEN n ELSE Cardinality(S)
      /\ Cardinality(S) \in Nat
  BY FirstByRank, FS_CardinalityType
<1>2. Orders(F, aheadF)
  <2>1. \A i, j \in F : j \in aheadF[i] => aheadF[j] \subseteq aheadF[i]
    BY <1>1 DEF Orders
  <2>2. \A i, j \in F : i # j => i \in aheadF[j] \/ j \in aheadF[i]
    BY <1>1 DEF Orders
  <2>3. \A i \in F : i \notin aheadF[i]
    BY <1>1 DEF Orders
  <2>4. QED
    BY <2>1, <2>2, <2>3 DEF Orders
<1>3. 1..Cardinality(F) \subseteq 1..Cardinality(S)
  BY <1>1
<1>4. InOrder(F, aheadF) \in [1..Cardinality(F) -> F]
  BY <1>1, <1>2, InOrderIs
<1>5. ASSUME NEW k \in 1..Cardinality(F)
      PROVE  InOrder(F, aheadF)[k] = InOrder(S, ahead)[k]
  <2>1. PICK i \in F : i = InOrder(F, aheadF)[k] /\ Cardinality(aheadF[i]) = k - 1
    <3>1. InOrder(F, aheadF)[k] \in F
      BY <1>4
    <3>2. Cardinality(aheadF[InOrder(F, aheadF)[k]]) = k - 1
      BY <1>1, <1>2, InOrderIs
    <3>3. QED
      BY <3>1, <3>2
  <2>2. i \in S /\ Cardinality(ahead[i]) = k - 1
    BY <1>1, <2>1
  <2>3. InOrder(S, ahead)[Cardinality(ahead[i]) + 1] = i
    BY <2>2, InOrderIs
  <2>4. Cardinality(ahead[i]) + 1 = k
    BY <1>1, <2>2
  <2>5. QED
    BY <2>1, <2>3, <2>4
<1>6. QED
  BY <1>1, <1>3, <1>4, <1>5

\* A member stands at an earlier place exactly when it is ahead.
LEMMA EarlierIsAhead ==
  ASSUME NEW S, IsFiniteSet(S), NEW ahead, Orders(S, ahead),
         NEW k \in 1..Cardinality(S), NEW l \in 1..Cardinality(S), k < l
  PROVE  /\ InOrder(S, ahead)[k] \in S /\ InOrder(S, ahead)[l] \in S
         /\ InOrder(S, ahead)[k] \in ahead[InOrder(S, ahead)[l]]
<1>1. PICK i \in S, j \in S :
        /\ i = InOrder(S, ahead)[k] /\ Cardinality(ahead[i]) = k - 1
        /\ j = InOrder(S, ahead)[l] /\ Cardinality(ahead[j]) = l - 1
  <2>1. InOrder(S, ahead)[k] \in S /\ InOrder(S, ahead)[l] \in S
    <3>1. InOrder(S, ahead) \in [1..Cardinality(S) -> S]
      BY InOrderIs
    <3>2. QED
      BY <3>1
  <2>2. /\ Cardinality(ahead[InOrder(S, ahead)[k]]) = k - 1
        /\ Cardinality(ahead[InOrder(S, ahead)[l]]) = l - 1
    BY InOrderIs
  <2>3. QED
    BY <2>1, <2>2
<1>2. Cardinality(ahead[i]) < Cardinality(ahead[j])
  BY <1>1
<1>3. i \in ahead[j]
  BY <1>2, RankOfAhead
<1>4. QED
  BY <1>1, <1>3

\* Numbers in increasing order.
LEMMA NumbersAreOrdered ==
  ASSUME NEW S \in SUBSET Int, NEW ahead,
         ahead = [i \in S |-> {j \in S : j < i}]
  PROVE  Orders(S, ahead)
<1>1. \A i, j \in S : j \in ahead[i] <=> j < i
  OBVIOUS
<1>2. ahead \in [S -> SUBSET S]
  OBVIOUS
<1>3. ASSUME NEW i \in S, NEW j \in S, j < i
      PROVE  ahead[j] \subseteq ahead[i]
  <2>1. \A k \in S : k < j => k < i
    BY <1>3
  <2>2. ahead[j] = {k \in S : k < j} /\ ahead[i] = {k \in S : k < i}
    OBVIOUS
  <2>3. QED
    BY <2>1, <2>2
<1>4. \A i, j \in S : i \in Int /\ j \in Int
  OBVIOUS
<1>5. \A i, j \in S : ~(i < i) /\ (i # j => i < j \/ j < i)
  BY <1>4
<1>6. QED
  BY ONLY <1>1, <1>2, <1>3, <1>5 DEF Orders

\* Numbers in decreasing order.
LEMMA NumbersAreOrderedDown ==
  ASSUME NEW S \in SUBSET Int, NEW ahead,
         ahead = [i \in S |-> {j \in S : j > i}]
  PROVE  Orders(S, ahead)
<1>1. \A i, j \in S : i \in Int /\ j \in Int
  OBVIOUS
<1>2. \A i, j \in S : ~(i > i) /\ (i # j => i > j \/ j > i)
  BY <1>1
<1>3. ASSUME NEW i \in S, NEW j \in S, j > i
      PROVE  ahead[j] \subseteq ahead[i]
  <2>1. \A k \in S : k > j => k > i
    BY <1>3
  <2>2. QED
    BY <2>1
<1>4. \A i, j \in S : j \in ahead[i] <=> j > i
  OBVIOUS
<1>5. ahead \in [S -> SUBSET S]
  OBVIOUS
<1>6. QED
  BY ONLY <1>2, <1>3, <1>4, <1>5 DEF Orders

LEMMA AscendingIs ==
  ASSUME NEW S \in SUBSET Int, IsFiniteSet(S)
  PROVE  /\ Cardinality(S) \in Nat
         /\ Ascending(S) \in [1..Cardinality(S) -> S]
         /\ \A i \in S : \E k \in 1..Cardinality(S) : Ascending(S)[k] = i
         /\ \A k, l \in 1..Cardinality(S) :
              k < l => Ascending(S)[k] < Ascending(S)[l]
<1> DEFINE ahead == [i \in S |-> {j \in S : j < i}]
           place == Ascending(S)
<1>1. Orders(S, ahead)
  BY NumbersAreOrdered
<1>2. place = InOrder(S, ahead)
  BY DEF Ascending
<1> HIDE DEF ahead, place
<1>3. /\ Cardinality(S) \in Nat
      /\ place \in [1..Cardinality(S) -> S]
      /\ \A k \in 1..Cardinality(S) : Cardinality(ahead[place[k]]) = k - 1
      /\ \A i \in S : \E k \in 1..Cardinality(S) : place[k] = i
  BY <1>1, <1>2, InOrderIs
<1>4. ASSUME NEW k \in 1..Cardinality(S), NEW l \in 1..Cardinality(S), k < l
      PROVE  place[k] < place[l]
  <2>1. /\ place[k] \in S /\ place[l] \in S
        /\ place[k] \in ahead[place[l]]
    BY <1>1, <1>2, <1>4, EarlierIsAhead
  <2>2. QED
    BY <2>1 DEF ahead
<1>5. QED
  BY <1>3, <1>4 DEF place

=============================================================================
