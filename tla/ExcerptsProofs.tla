--------------------------- MODULE ExcerptsProofs ---------------------------
(***************************************************************************)
(* The excerpts that are put before an event, for every session, every     *)
(* relevance of its messages and every setting of the budget.  The loop of *)
(* _select_excerpts over the ranked candidates and the join of the blocks  *)
(* are recursive functions; what they compute is proved by induction over  *)
(* the places.                                                             *)
(***************************************************************************)
EXTENDS Excerpts, DataLemmas, SequenceTheorems

\* The settings reach the bridge inside their range.
LEMMA BudgetInRange ==
  /\ Budget \in MinBudget..MaxBudget
  /\ Budget \in Nat /\ Budget > Reserve /\ Header < Budget - Reserve
<1>1. Budget \in MinBudget..MaxBudget
  <2>1. ASSUME NEW n \in Int, setting = n PROVE Budget \in MinBudget..MaxBudget
    <3>1. CASE n < 512
      BY <2>1, <3>1 DEF Budget, AsInt, DefaultBudget, MinBudget, MaxBudget
    <3>2. CASE n > 16000
      BY <2>1, <3>2 DEF Budget, AsInt, DefaultBudget, MinBudget, MaxBudget
    <3>3. CASE n \in 512..16000
      BY <2>1, <3>3 DEF Budget, AsInt, DefaultBudget, MinBudget, MaxBudget
    <3>4. QED
      BY <3>1, <3>2, <3>3
  <2>2. CASE setting \notin Int
    BY <2>2 DEF Budget, AsInt, DefaultBudget, MinBudget, MaxBudget
  <2>3. QED
    BY <2>1, <2>2
<1> HIDE DEF Budget
<1>2. QED
  BY <1>1, ExcerptsAssumption DEF MinBudget, MaxBudget, Reserve

\* Candidates are places of the log.
LEMMA CandidatesAre ==
  ASSUME log \in Seq(Rows)
  PROVE  /\ Candidates \in SUBSET (1..Len(log))
         /\ \A i \in 1..Len(log) : /\ log[i].role \in {"user", "assistant", "tool"}
                                   /\ log[i].text \in SUBSET (Nat \ {0})
                                   /\ log[i].overlap \in Nat
<1>1. Candidates \in SUBSET (1..Len(log))
  BY DEF Candidates
<1>2. \A i \in 1..Len(log) : log[i] \in Rows
  OBVIOUS
<1>3. \A row \in Rows : /\ row.role \in {"user", "assistant", "tool"}
                       /\ row.text \in SUBSET (Nat \ {0})
                       /\ row.overlap \in Nat
  BY ExcerptsAssumption
<1>4. QED
  BY <1>1, <1>2, <1>3

\* A set of places is finite, and the relevance orders it.
LEMMA OutranksOrders ==
  ASSUME log \in Seq(Rows), NEW C \in SUBSET (1..Len(log)), NEW ahead,
         ahead = [i \in C |-> {j \in C : Outranks(j, i)}]
  PROVE  /\ IsFiniteSet(C) /\ Cardinality(C) \in Nat
         /\ Orders(C, ahead)
<1>1. IsFiniteSet(C)
  <2>1. Len(log) \in Int /\ 1 \in Int
    OBVIOUS
  <2>2. IsFiniteSet(1..Len(log))
    BY <2>1, FS_Interval
  <2>3. QED
    BY <2>2, FS_Subset
<1>2. Cardinality(C) \in Nat
  BY <1>1, FS_CardinalityType
<1>3. \A i \in C : i \in Int /\ log[i].overlap \in Int
  BY CandidatesAre
<1>4. \A i, j \in C : /\ ~Outranks(i, i)
                      /\ i # j => Outranks(i, j) \/ Outranks(j, i)
  BY <1>3 DEF Outranks
<1>5. \A i, j, k \in C : Outranks(k, j) /\ Outranks(j, i) => Outranks(k, i)
  BY <1>3 DEF Outranks
<1>6. \A i, j \in C : j \in ahead[i] <=> Outranks(j, i)
  OBVIOUS
<1>7. ahead \in [C -> SUBSET C]
  OBVIOUS
<1>8. \A i, j \in C : j \in ahead[i] => ahead[j] \subseteq ahead[i]
  BY ONLY <1>5, <1>6, <1>7
<1>9. Orders(C, ahead)
  BY ONLY <1>4, <1>6, <1>7, <1>8 DEF Orders
<1>10. QED
  BY <1>1, <1>2, <1>9

\* The ranking has every candidate, the more relevant one earlier.
LEMMA RankedIs ==
  ASSUME log \in Seq(Rows), NEW C \in SUBSET (1..Len(log))
  PROVE  /\ IsFiniteSet(C) /\ Cardinality(C) \in Nat
         /\ Ranked(C) \in [1..Cardinality(C) -> C]
         /\ Len(Ranked(C)) = Cardinality(C)
         /\ \A i \in C : \E k \in 1..Cardinality(C) : Ranked(C)[k] = i
         /\ \A k, l \in 1..Cardinality(C) :
              k < l => Outranks(Ranked(C)[k], Ranked(C)[l])
<1> DEFINE ahead == [i \in C |-> {j \in C : Outranks(j, i)}]
<1>1. IsFiniteSet(C) /\ Cardinality(C) \in Nat /\ Orders(C, ahead)
  BY OutranksOrders
<1>2. \A i \in C : \A j \in ahead[i] : Outranks(j, i)
  OBVIOUS
<1>3. Ranked(C) = InOrder(C, ahead)
  BY DEF Ranked
<1> HIDE DEF ahead
<1>4. /\ Ranked(C) \in [1..Cardinality(C) -> C]
      /\ \A i \in C : \E k \in 1..Cardinality(C) : Ranked(C)[k] = i
  <2>1. InOrder(C, ahead) \in [1..Cardinality(C) -> C]
    BY <1>1, InOrderIs
  <2>2. \A i \in C : /\ Cardinality(ahead[i]) + 1 \in 1..Cardinality(C)
                     /\ InOrder(C, ahead)[Cardinality(ahead[i]) + 1] = i
    BY <1>1, InOrderIs
  <2>3. QED
    BY <1>3, <2>1, <2>2
<1>5. Len(Ranked(C)) = Cardinality(C)
  BY <1>1, <1>4
<1>6. ASSUME NEW k \in 1..Cardinality(C), NEW l \in 1..Cardinality(C), k < l
      PROVE  Outranks(Ranked(C)[k], Ranked(C)[l])
  <2>1. Ranked(C)[l] \in C /\ Ranked(C)[k] \in ahead[Ranked(C)[l]]
    BY <1>1, <1>3, <1>6, EarlierIsAhead
  <2>2. QED
    BY <1>2, <2>1
<1>7. QED
  BY <1>1, <1>4, <1>5, <1>6

\* The two newest candidates.
LEMMA NewestTwoIs ==
  ASSUME NEW C \in SUBSET Int, IsFiniteSet(C)
  PROVE  /\ NewestTwo(C) \in SUBSET C /\ IsFiniteSet(NewestTwo(C))
         /\ Cardinality(NewestTwo(C)) \in 0..2
<1> DEFINE ahead == [i \in C |-> {j \in C : j > i}]
<1>1. Orders(C, ahead)
  BY NumbersAreOrderedDown
<1>2. NewestTwo(C) = First(C, ahead, 2)
  <2>1. \A i, j \in C : i < j <=> j > i
    OBVIOUS
  <2>2. \A i \in C : {j \in C : i < j} = ahead[i]
    BY <2>1
  <2>3. QED
    BY <2>2 DEF NewestTwo, First
<1> HIDE DEF ahead
<1>3. Cardinality(C) \in Nat
  BY FS_CardinalityType
<1>4. /\ IsFiniteSet(NewestTwo(C)) /\ NewestTwo(C) \subseteq C
      /\ Cardinality(NewestTwo(C)) = IF 2 < Cardinality(C) THEN 2
                                     ELSE Cardinality(C)
  BY <1>1, <1>2, FirstByRank
<1>5. QED
  BY <1>3, <1>4

-----------------------------------------------------------------------------
(* The loop over the ranked candidates                                     *)

\* f[k] is what has been chosen after the first k of the ranked candidates.
Chooses(f, C) ==
  /\ f[0] = NewestTwo(C)
  /\ \A k \in 1..Cardinality(C) :
       f[k] = IF MayTake(f[k - 1], Ranked(C)[k])
              THEN f[k - 1] \cup {Ranked(C)[k]} ELSE f[k - 1]

\* The recursion of Chosen defines such a function.
LEMMA ChosenIs ==
  ASSUME log \in Seq(Rows), NEW C \in SUBSET (1..Len(log))
  PROVE  \E f \in [0..Cardinality(C) -> SUBSET C] :
           Chooses(f, C) /\ Chosen(C) = f[Cardinality(C)]
<1> DEFINE n == Cardinality(C)
           After(s, k) == IF MayTake(s, Ranked(C)[k]) THEN s \cup {Ranked(C)[k]}
                          ELSE s
           step == [k \in 1..n |-> [s \in SUBSET C |-> After(s, k)]]
<1>1. /\ n \in Nat /\ Len(Ranked(C)) = n
      /\ \A k \in 1..n : Ranked(C)[k] \in C
  BY RankedIs
<1>2. NewestTwo(C) \in SUBSET C
  <2>1. C \in SUBSET Int /\ IsFiniteSet(C)
    BY RankedIs
  <2>2. QED
    BY <2>1, NewestTwoIs
<1>3. \A k \in 1..n, s \in SUBSET C : After(s, k) \in SUBSET C
  BY <1>1
<1> HIDE DEF n, After
<1>4. step \in [1..n -> [SUBSET C -> SUBSET C]]
  BY <1>3
<1>5. \A k \in 1..n, s \in SUBSET C : step[k][s] = After(s, k)
  OBVIOUS
<1> HIDE DEF step
<1>6. PICK g \in [0..n -> SUBSET C] : Runs(g, n, NewestTwo(C), step)
  BY <1>1, <1>2, <1>4, Recursion
<1>7. ASSUME NEW k \in 0..n
      PROVE  g[k] = IF k = 0 THEN NewestTwo(C) ELSE After(g[k - 1], k)
  <2>1. CASE k = 0
    BY <1>6, <2>1 DEF Runs
  <2>2. CASE k # 0
    <3>1. k \in 1..n /\ k - 1 \in 0..n /\ g[k - 1] \in SUBSET C
      BY <1>1, <2>2
    <3>2. QED
      BY <1>5, <1>6, <2>2, <3>1 DEF Runs
  <2>3. QED
    BY <2>1, <2>2
<1>8. g = [k \in 0..n |-> IF k = 0 THEN NewestTwo(C) ELSE After(g[k - 1], k)]
  BY <1>7
<1>9. Chosen(C)
        = (CHOOSE f : f = [k \in 0..n |-> IF k = 0 THEN NewestTwo(C)
                                          ELSE After(f[k - 1], k)])[n]
  BY <1>1 DEF Chosen, After
<1>10. PICK f : /\ Chosen(C) = f[n]
                /\ f = [k \in 0..n |-> IF k = 0 THEN NewestTwo(C)
                                       ELSE After(f[k - 1], k)]
  BY <1>8, <1>9
<1>11. f[0] = NewestTwo(C) /\ \A k \in 1..n : f[k] = After(f[k - 1], k)
  <2>1. 0 \in 0..n /\ \A k \in 1..n : k \in 0..n /\ k # 0
    BY <1>1
  <2>2. QED
    BY <1>10, <2>1
<1>12. \A k \in 0..n : f[k] \in SUBSET C
  <2> DEFINE H == {k \in 0..n : f[k] \in SUBSET C}
  <2>1. 0 \in H
    BY <1>1, <1>2, <1>11
  <2>2. ASSUME NEW k \in 1..n, k - 1 \in H PROVE k \in H
    BY <1>1, <1>3, <1>11, <2>2
  <2> HIDE DEF H
  <2>3. 0..n \subseteq H
    BY <1>1, <2>1, <2>2, Induction
  <2>4. QED
    BY <2>3 DEF H
<1>13. f \in [0..n -> SUBSET C]
  BY <1>10, <1>12
<1>14. Chooses(f, C)
  BY <1>11 DEF Chooses, After, n
<1>15. QED
  BY <1>10, <1>13, <1>14 DEF n

\* What holds of the chosen ones after k of the ranked candidates.
ChosenSoFar(C, s, k) ==
  LET newest == NewestTwo(C)
      older == s \ newest
  IN
  /\ s \in SUBSET C /\ newest \subseteq s
  /\ Cardinality(s) <= MaxExcerpts
  /\ \A i \in older : /\ log[i].overlap > 0
                      /\ \E m \in 1..k : i = Ranked(C)[m]
  /\ \A l \in 1..k :
       \/ Ranked(C)[l] \in s
       \/ log[Ranked(C)[l]].overlap = 0
       \/ /\ Cardinality(s) = MaxExcerpts
          /\ \A j \in older : Outranks(j, Ranked(C)[l])

\* The loop keeps the most relevant of the candidates it has seen.
LEMMA LoopKeeps ==
  ASSUME log \in Seq(Rows), NEW C \in SUBSET (1..Len(log)),
         NEW k \in 1..Cardinality(C), NEW s, ChosenSoFar(C, s, k - 1),
         NEW t, t = IF MayTake(s, Ranked(C)[k]) THEN s \cup {Ranked(C)[k]} ELSE s
  PROVE  ChosenSoFar(C, t, k)
<1> DEFINE newest == NewestTwo(C)
<1>1. /\ Cardinality(C) \in Nat /\ IsFiniteSet(C)
      /\ \A l \in 1..Cardinality(C) : Ranked(C)[l] \in C
      /\ \A l, m \in 1..Cardinality(C) :
           l < m => Outranks(Ranked(C)[l], Ranked(C)[m])
  BY RankedIs
<1>2. PICK r : r = Ranked(C)[k] /\ r \in C
  BY <1>1
<1>3. IsFiniteSet(s) /\ Cardinality(s) \in Nat
  <2>1. s \in SUBSET C
    BY DEF ChosenSoFar
  <2>2. QED
    BY <1>1, <2>1, FS_Subset, FS_CardinalityType
<1>4. log[r].overlap \in Nat /\ MaxExcerpts \in Nat
  BY <1>2, CandidatesAre, ExcerptsAssumption
<1>5. 1..k - 1 \subseteq 1..k /\ k \in 1..k
      /\ \A l \in 1..k : l = k \/ l \in 1..k - 1
  BY <1>1
<1>6. CASE MayTake(s, r)
  <2>1. t = s \cup {r} /\ Cardinality(s) < MaxExcerpts /\ log[r].overlap > 0
    BY <1>2, <1>6 DEF MayTake
  <2>2. Cardinality(t) = IF r \in s THEN Cardinality(s) ELSE Cardinality(s) + 1
    BY <1>3, <2>1, FS_AddElement
  <2>3. Cardinality(t) <= MaxExcerpts
    BY <1>3, <1>4, <2>1, <2>2
  <2>4. t \in SUBSET C /\ newest \subseteq t
    BY <1>2, <2>1 DEF ChosenSoFar
  <2>5. \A i \in t \ newest : /\ log[i].overlap > 0
                              /\ \E m \in 1..k : i = Ranked(C)[m]
    <3>1. ASSUME NEW i \in t \ newest
          PROVE  /\ log[i].overlap > 0
                 /\ \E m \in 1..k : i = Ranked(C)[m]
      <4>1. CASE i = r
        BY <1>2, <1>5, <2>1, <4>1
      <4>2. CASE i \in s \ newest
        BY <1>5, <4>2 DEF ChosenSoFar
      <4>3. QED
        BY <2>1, <4>1, <4>2
    <3>2. QED
      BY <3>1
  <2>6. \A l \in 1..k : Ranked(C)[l] \in t \/ log[Ranked(C)[l]].overlap = 0
    <3>1. ASSUME NEW l \in 1..k - 1
          PROVE  Ranked(C)[l] \in s \/ log[Ranked(C)[l]].overlap = 0
      BY <1>3, <1>4, <2>1 DEF ChosenSoFar
    <3>2. QED
      BY <1>2, <1>5, <2>1, <3>1
  <2>7. QED
    BY <2>3, <2>4, <2>5, <2>6 DEF ChosenSoFar
<1>7. CASE ~MayTake(s, r)
  <2>1. t = s
    BY <1>2, <1>7
  <2>2. \A i \in s \ newest : /\ log[i].overlap > 0
                              /\ \E m \in 1..k : i = Ranked(C)[m]
    BY <1>5 DEF ChosenSoFar
  <2>3. \/ log[r].overlap = 0
        \/ /\ Cardinality(s) = MaxExcerpts
           /\ \A j \in s \ newest : Outranks(j, r)
    <3>1. CASE log[r].overlap # 0
      <4>1. Cardinality(s) = MaxExcerpts
        <5>1. Cardinality(s) <= MaxExcerpts
          BY DEF ChosenSoFar
        <5>2. log[r].overlap > 0
          BY <1>4, <3>1
        <5>3. ~(Cardinality(s) < MaxExcerpts)
          BY <1>7, <5>2 DEF MayTake
        <5>4. QED
          BY <1>3, <1>4, <5>1, <5>3
      <4>2. ASSUME NEW j \in s \ newest PROVE Outranks(j, r)
        <5>1. PICK m \in 1..k - 1 : j = Ranked(C)[m]
          BY DEF ChosenSoFar
        <5>2. m < k /\ m \in 1..Cardinality(C)
          BY <1>1
        <5>3. QED
          BY <1>1, <1>2, <5>1, <5>2
      <4>3. QED
        BY <4>1, <4>2
    <3>2. QED
      BY <3>1
  <2>4. \A l \in 1..k :
          \/ Ranked(C)[l] \in s
          \/ log[Ranked(C)[l]].overlap = 0
          \/ /\ Cardinality(s) = MaxExcerpts
             /\ \A j \in s \ newest : Outranks(j, Ranked(C)[l])
    <3>1. ASSUME NEW l \in 1..k - 1
          PROVE  \/ Ranked(C)[l] \in s
                 \/ log[Ranked(C)[l]].overlap = 0
                 \/ /\ Cardinality(s) = MaxExcerpts
                    /\ \A j \in s \ newest : Outranks(j, Ranked(C)[l])
      BY DEF ChosenSoFar
    <3>2. QED
      BY <1>2, <1>5, <2>3, <3>1
  <2>5. /\ s \in SUBSET C /\ newest \subseteq s
        /\ Cardinality(s) <= MaxExcerpts
    BY DEF ChosenSoFar
  <2>6. QED
    BY <2>1, <2>2, <2>4, <2>5 DEF ChosenSoFar
<1>8. QED
  BY <1>6, <1>7

\* So do the chosen ones in the end.
LEMMA ChosenKeeps ==
  ASSUME log \in Seq(Rows), NEW C \in SUBSET (1..Len(log))
  PROVE  /\ ChosenSoFar(C, Chosen(C), Cardinality(C))
         /\ IsFiniteSet(Chosen(C))
<1>1. PICK f \in [0..Cardinality(C) -> SUBSET C] :
        Chooses(f, C) /\ Chosen(C) = f[Cardinality(C)]
  BY ChosenIs
<1>2. IsFiniteSet(C) /\ Cardinality(C) \in Nat /\ C \in SUBSET Int
  BY RankedIs
<1> DEFINE H == {k \in 0..Cardinality(C) : ChosenSoFar(C, f[k], k)}
<1>3. 0 \in H
  <2>1. /\ NewestTwo(C) \in SUBSET C /\ Cardinality(NewestTwo(C)) \in 0..2
    BY <1>2, NewestTwoIs
  <2>2. Cardinality(NewestTwo(C)) <= MaxExcerpts
    BY <2>1, ExcerptsAssumption
  <2>3. f[0] = NewestTwo(C)
    BY <1>1 DEF Chooses
  <2>4. ChosenSoFar(C, f[0], 0)
    BY <2>1, <2>2, <2>3 DEF ChosenSoFar
  <2>5. QED
    BY <1>2, <2>4
<1>4. ASSUME NEW k \in 1..Cardinality(C), k - 1 \in H PROVE k \in H
  <2>1. ChosenSoFar(C, f[k - 1], k - 1)
    BY <1>4
  <2>2. f[k] = IF MayTake(f[k - 1], Ranked(C)[k])
               THEN f[k - 1] \cup {Ranked(C)[k]} ELSE f[k - 1]
    BY <1>1 DEF Chooses
  <2>3. ChosenSoFar(C, f[k], k)
    BY <2>1, <2>2, LoopKeeps
  <2>4. QED
    BY <1>2, <2>3
<1> HIDE DEF H
<1>5. 0..Cardinality(C) \subseteq H
  BY <1>2, <1>3, <1>4, Induction
<1>6. ChosenSoFar(C, Chosen(C), Cardinality(C))
  BY <1>1, <1>2, <1>5 DEF H
<1>7. Chosen(C) \in SUBSET C
  BY <1>6 DEF ChosenSoFar
<1>8. QED
  BY <1>2, <1>6, <1>7, FS_Subset

-----------------------------------------------------------------------------
(* The join                                                                *)

\* The greatest member of a bounded set of places.
LEMMA MaxIs ==
  ASSUME NEW n \in Nat, NEW T \in SUBSET (1..n), T # {}
  PROVE  Max(T) \in T /\ Max(T) \in 1..n
<1>1. \E m \in T : \A k \in T : m >= k
  BY GreatestNumber
<1>2. Max(T) \in T
  BY <1>1 DEF Max
<1>3. QED
  BY <1>2

\* A block with its label is no longer than the longest one.
LEMMA BlockIs ==
  ASSUME log \in Seq(Rows), NEW i \in Candidates
  PROVE  /\ BlockSize(log[i]) \in Nat
         /\ BlockSize(log[i]) <= 11 + MaxExcerptChars
<1> DEFINE kept == {j \in log[i].text : j <= MaxExcerptChars}
<1>1. /\ i \in 1..Len(log) /\ log[i] \in Rows /\ log[i].text # {}
      /\ log[i].text \in SUBSET (Nat \ {0})
  <2>1. i \in 1..Len(log) /\ log[i].text # {}
    BY DEF Candidates
  <2>2. QED
    BY <2>1, CandidatesAre
<1>2. MaxExcerptChars \in Nat /\ MaxExcerptChars >= 1
  BY ExcerptsAssumption
<1>3. 1 \in kept
  BY <1>1, <1>2, ExcerptsAssumption
<1>4. kept \in SUBSET (1..MaxExcerptChars) /\ kept # {}
  <2>1. ASSUME NEW j \in kept PROVE j \in 1..MaxExcerptChars
    <3>1. j \in Nat \ {0} /\ j <= MaxExcerptChars
      BY <1>1
    <3>2. QED
      BY <1>2, <3>1
  <2>2. QED
    BY <1>3, <2>1
<1>5. BlockSize(log[i]) = RoleLabel(log[i]) + Max(kept)
  BY DEF BlockSize
<1> HIDE DEF kept
<1>6. Max(kept) \in 1..MaxExcerptChars
  BY <1>2, <1>4, MaxIs
<1>7. QED
  BY <1>2, <1>5, <1>6 DEF RoleLabel

\* The sums by the recursion that defines them.
LEMMA JoinedSizesIs ==
  ASSUME log \in Seq(Rows), NEW n \in Nat, NEW places \in [1..n -> Candidates]
  PROVE  /\ JoinedSizes(places) \in [0..n -> Nat]
         /\ JoinedSizes(places)[0] = Header
         /\ \A k \in 1..n : JoinedSizes(places)[k]
              = JoinedSizes(places)[k - 1] + Separator
                + BlockSize(log[places[k]])
<1> DEFINE More(s, k) == s + Separator + BlockSize(log[places[k]])
           step == [k \in 1..n |-> [s \in Nat |-> More(s, k)]]
<1>1. Len(places) = n /\ Header \in Nat
  BY ExcerptsAssumption
<1>2. \A k \in 1..n, s \in Nat : More(s, k) \in Nat
  <2>1. ASSUME NEW k \in 1..n, NEW s \in Nat PROVE More(s, k) \in Nat
    <3>1. places[k] \in Candidates
      OBVIOUS
    <3>2. BlockSize(log[places[k]]) \in Nat
      BY <3>1, BlockIs
    <3>3. QED
      BY <3>2 DEF Separator
  <2>2. QED
    BY <2>1
<1> HIDE DEF More
<1>3. step \in [1..n -> [Nat -> Nat]]
  BY <1>2
<1>4. \A k \in 1..n, s \in Nat : step[k][s] = More(s, k)
  OBVIOUS
<1> HIDE DEF step
<1>5. PICK g \in [0..n -> Nat] : Runs(g, n, Header, step)
  BY <1>1, <1>3, Recursion
<1>6. ASSUME NEW k \in 0..n
      PROVE  g[k] = IF k = 0 THEN Header ELSE More(g[k - 1], k)
  <2>1. CASE k = 0
    BY <1>5, <2>1 DEF Runs
  <2>2. CASE k # 0
    <3>1. k \in 1..n /\ k - 1 \in 0..n
      BY <2>2
    <3>2. QED
      BY <1>4, <1>5, <2>2, <3>1 DEF Runs
  <2>3. QED
    BY <2>1, <2>2
<1>7. g = [k \in 0..n |-> IF k = 0 THEN Header ELSE More(g[k - 1], k)]
  BY <1>6
<1>8. JoinedSizes(places)
        = CHOOSE f : f = [k \in 0..n |-> IF k = 0 THEN Header
                                         ELSE More(f[k - 1], k)]
  BY <1>1 DEF JoinedSizes, More
<1>9. PICK f : /\ f = JoinedSizes(places)
               /\ f = [k \in 0..n |-> IF k = 0 THEN Header
                                      ELSE More(f[k - 1], k)]
  BY <1>7, <1>8
<1>10. f[0] = Header /\ \A k \in 1..n : f[k] = More(f[k - 1], k)
  <2>1. 0 \in 0..n /\ \A k \in 1..n : k \in 0..n /\ k # 0
    OBVIOUS
  <2>2. QED
    BY <1>9, <2>1
<1>11. \A k \in 0..n : f[k] \in Nat
  <2> DEFINE H == {k \in 0..n : f[k] \in Nat}
  <2>1. 0 \in H
    BY <1>1, <1>10
  <2>2. ASSUME NEW k \in 1..n, k - 1 \in H PROVE k \in H
    <3>1. f[k - 1] \in Nat /\ k \in 0..n
      BY <2>2
    <3>2. More(f[k - 1], k) \in Nat
      BY <1>2, <3>1
    <3>3. QED
      BY <1>10, <3>1, <3>2
  <2> HIDE DEF H
  <2>3. 0..n \subseteq H
    BY <2>1, <2>2, Induction
  <2>4. QED
    BY <2>3 DEF H
<1>12. f \in [0..n -> Nat]
  BY <1>9, <1>11
<1>13. QED
  BY <1>9, <1>10, <1>12 DEF More

\* They grow, by one longest block a place at most.
LEMMA JoinedSizesGrow ==
  ASSUME log \in Seq(Rows), NEW n \in Nat, NEW places \in [1..n -> Candidates],
         NEW k \in 0..n
  PROVE  /\ JoinedSizes(places)[k] \in Nat
         /\ \A j \in 0..k : JoinedSizes(places)[j] <= JoinedSizes(places)[k]
         /\ JoinedSizes(places)[k]
              <= Header + k * (Separator + 11 + MaxExcerptChars)
<1>1. PICK sum \in [0..n -> Nat] :
        /\ sum = JoinedSizes(places) /\ sum[0] = Header
        /\ \A l \in 1..n :
             sum[l] = sum[l - 1] + Separator + BlockSize(log[places[l]])
  BY JoinedSizesIs
<1>2. PICK longest \in Nat : longest = Separator + 11 + MaxExcerptChars
  BY ExcerptsAssumption DEF Separator
<1>3. Header \in Nat
  BY ExcerptsAssumption
<1> DEFINE H == {l \in 0..n : /\ \A j \in 0..l : sum[j] <= sum[l]
                              /\ sum[l] <= Header + l * longest}
<1>4. 0 \in H
  BY <1>1, <1>3
<1>5. ASSUME NEW l \in 1..n, l - 1 \in H PROVE l \in H
  <2>1. PICK block \in Nat : /\ block = BlockSize(log[places[l]])
                             /\ block <= 11 + MaxExcerptChars
    <3>1. places[l] \in Candidates
      OBVIOUS
    <3>2. QED
      BY <3>1, BlockIs
  <2>2. Separator + block <= longest
    <3>1. MaxExcerptChars \in Nat
      BY ExcerptsAssumption
    <3>2. QED
      BY <1>2, <2>1, <3>1 DEF Separator
  <2>3. /\ sum[l] = sum[l - 1] + Separator + block
        /\ sum[l] \in Nat /\ sum[l - 1] \in Nat
    BY <1>1, <2>1
  <2>4. \A j \in 0..l : sum[j] <= sum[l]
    <3>1. ASSUME NEW j \in 0..l PROVE sum[j] <= sum[l]
      <4>1. CASE j = l
        BY <2>3, <4>1
      <4>2. CASE j # l
        <5>1. j \in 0..l - 1 /\ sum[j] \in Nat
          BY <4>2
        <5>2. sum[j] <= sum[l - 1]
          BY <1>5, <5>1
        <5>3. QED
          BY <2>3, <5>1, <5>2 DEF Separator
      <4>3. QED
        BY <4>1, <4>2
    <3>2. QED
      BY <3>1
  <2>5. sum[l] <= Header + l * longest
    <3>1. l * longest = (l - 1) * longest + longest
      BY <1>2
    <3>2. sum[l - 1] <= Header + (l - 1) * longest
      BY <1>5
    <3>3. PICK before \in Int : before = (l - 1) * longest
      BY <1>2
    <3>4. sum[l - 1] <= Header + before
      BY <3>2, <3>3
    <3>5. sum[l] <= Header + (before + longest)
      BY ONLY longest \in Nat, block \in Nat, <1>3, <2>2, <2>3, <3>3, <3>4
      DEF Separator
    <3>6. QED
      BY <3>1, <3>3, <3>5
  <2>6. QED
    BY <2>4, <2>5
<1> HIDE DEF H
<1>6. 0..n \subseteq H
  BY <1>4, <1>5, Induction
<1>7. k \in H /\ sum[k] \in Nat
  BY <1>6
<1>8. QED
  BY <1>1, <1>2, <1>7 DEF H

\* The cut leaves the header at least, and room for the marker.
LEMMA CutIs ==
  ASSUME log \in Seq(Rows), NEW n \in Nat, NEW places \in [1..n -> Candidates]
  PROVE  Cut(places) \in 1..Budget - Reserve
<1> DEFINE left == {i \in Visible(places) : i <= Budget - Reserve}
<1>1. PICK room \in Nat : room = Budget - Reserve /\ Header < room
  BY BudgetInRange DEF Reserve
<1>2. Header \in Nat /\ Header \in Visible(places)
  BY ExcerptsAssumption DEF Visible
<1>3. Visible(places) \in SUBSET (Nat \ {0})
  <2>1. ASSUME NEW v \in Visible(places) PROVE v \in Nat \ {0}
    <3>1. CASE v = Header
      BY <3>1, ExcerptsAssumption
    <3>2. ASSUME NEW k \in 1..n, NEW i \in 1..RoleLabel(log[places[k]]) - 1,
                 v = JoinedSizes(places)[k - 1] + Separator + i
          PROVE  v \in Nat \ {0}
      <4>1. k - 1 \in 0..n
        OBVIOUS
      <4>2. JoinedSizes(places)[k - 1] \in Nat
        BY <4>1, JoinedSizesIs
      <4>3. QED
        BY <3>2, <4>2 DEF Separator
    <3>3. ASSUME NEW k \in 1..n, NEW i \in log[places[k]].text,
                 v = JoinedSizes(places)[k - 1] + Separator
                     + RoleLabel(log[places[k]]) + i
          PROVE  v \in Nat \ {0}
      <4>1. PICK s \in Nat, l \in Nat, j \in Nat \ {0} :
              /\ s = JoinedSizes(places)[k - 1]
              /\ l = RoleLabel(log[places[k]]) /\ j = i
        <5>1. k - 1 \in 0..n
          OBVIOUS
        <5>2. JoinedSizes(places)[k - 1] \in Nat
          BY <5>1, JoinedSizesIs
        <5>3. i \in Nat \ {0}
          BY CandidatesAre
        <5>4. QED
          BY <5>2, <5>3 DEF RoleLabel
      <4>2. QED
        BY <3>3, <4>1 DEF Separator
    <3>4. Len(places) = n
      OBVIOUS
    <3>5. QED
      BY <3>1, <3>2, <3>3, <3>4 DEF Visible
  <2>2. QED
    BY <2>1
<1>4. left \in SUBSET (1..room) /\ Header \in left
  <2>1. ASSUME NEW i \in left PROVE i \in 1..room
    <3>1. i \in Nat \ {0} /\ i <= room
      BY <1>1, <1>3
    <3>2. QED
      BY <3>1
  <2>2. Header \in left
    BY <1>1, <1>2
  <2>3. QED
    BY <2>1, <2>2
<1>5. Cut(places) = Max(left)
  BY DEF Cut
<1> HIDE DEF left
<1>6. QED
  BY <1>1, <1>4, <1>5, MaxIs

\* What the join comes to, with and without a cut.
LEMMA JoinIs ==
  ASSUME NEW places, NEW sum, sum = JoinedSizes(places)[Len(places)]
  PROVE  /\ BoundedJoin(places).size
              = IF sum <= Budget THEN sum ELSE Cut(places) + Marker
         /\ sum <= Budget =>
              BoundedJoin(places).whole
                = Cardinality({k \in 1..Len(places) :
                                JoinedSizes(places)[k] <= sum})
BY DEF BoundedJoin

-----------------------------------------------------------------------------
(* The specification                                                       *)

\* The inductive invariant: the log holds messages, and what the event got is
\* the join of the excerpts of the log as it still is.
Inv ==
  /\ log \in Seq(Rows)
  /\ context # None => context = BoundedJoin(SelectExcerpts)

LEMMA InitInv == Init => Inv
BY DEF Init, Inv

LEMMA NextInv == Inv /\ [Next]_vars => Inv'
<1> SUFFICES ASSUME Inv, [Next]_vars PROVE Inv'
  OBVIOUS
<1>1. CASE Say
  BY <1>1 DEF Inv, Say
<1>2. ASSUME UNCHANGED <<log, setting>>
      PROVE  BoundedJoin(SelectExcerpts)' = BoundedJoin(SelectExcerpts)
  BY <1>2 DEF BoundedJoin, SelectExcerpts, Chosen, MayTake, NewestTwo, Ranked,
     Outranks, Candidates, JoinedSizes, Budget, Cut, Visible
<1>3. CASE InboundContext
  <2>1. BoundedJoin(SelectExcerpts)' = BoundedJoin(SelectExcerpts)
    BY <1>2, <1>3 DEF InboundContext
  <2> HIDE DEF BoundedJoin, SelectExcerpts
  <2>2. QED
    BY <1>3, <2>1 DEF Inv, InboundContext
<1>4. CASE UNCHANGED vars
  <2>1. BoundedJoin(SelectExcerpts)' = BoundedJoin(SelectExcerpts)
    BY <1>2, <1>4 DEF vars
  <2>2. QED
    BY <1>4, <2>1 DEF Inv, vars
<1>5. QED
  BY <1>1, <1>3, <1>4 DEF Next

LEMMA SpecInv == Spec => []Inv
BY InitInv, NextInv, PTL DEF Spec

\* The excerpts of an event that got some.
LEMMA ContextIs ==
  ASSUME Inv, context # None
  PROVE  /\ Candidates \in SUBSET (1..Len(log))
         /\ Chosen(Candidates) \in SUBSET (1..Len(log))
         /\ IsFiniteSet(Chosen(Candidates))
         /\ context.places = Ascending(Chosen(Candidates))
         /\ Len(context.places) = Cardinality(Chosen(Candidates))
         /\ Cardinality(Chosen(Candidates)) \in Nat
         /\ context.places \in [1..Len(context.places) -> Chosen(Candidates)]
         /\ Shown = Chosen(Candidates)
         /\ Chosen(Candidates) \in SUBSET Candidates
         /\ context = BoundedJoin(context.places)
<1>1. log \in Seq(Rows) /\ context = BoundedJoin(SelectExcerpts)
  BY DEF Inv
<1>2. Candidates \in SUBSET (1..Len(log))
  BY <1>1, CandidatesAre
<1>3. PICK chosen : /\ chosen = Chosen(Candidates) /\ IsFiniteSet(chosen)
                    /\ chosen \in SUBSET Candidates
  BY <1>1, <1>2, ChosenKeeps DEF ChosenSoFar
<1>4. chosen \in SUBSET Int
  <2>1. Len(log) \in Nat
    BY <1>1
  <2>2. 1..Len(log) \subseteq Int
    BY <2>1
  <2>3. QED
    BY ONLY <1>2, <1>3, <2>2
<1>5. context.places = Ascending(chosen)
  BY <1>1, <1>3 DEF BoundedJoin, SelectExcerpts
<1>6. /\ Cardinality(chosen) \in Nat
      /\ Ascending(chosen) \in [1..Cardinality(chosen) -> chosen]
      /\ \A i \in chosen : \E k \in 1..Cardinality(chosen) :
           Ascending(chosen)[k] = i
  BY <1>3, <1>4, AscendingIs
<1>7. Len(context.places) = Cardinality(chosen)
  BY <1>5, <1>6
<1>8. Shown = chosen
  BY <1>5, <1>6, <1>7 DEF Shown
<1>9. context = BoundedJoin(context.places)
  <2>1. context.places = SelectExcerpts
    BY <1>3, <1>5 DEF SelectExcerpts
  <2>2. QED
    BY <1>1, <2>1
<1>10. QED
  <2>1. chosen \in SUBSET (1..Len(log))
    BY <1>2, <1>3
  <2>2. QED
    BY <1>2, <1>3, <1>5, <1>6, <1>7, <1>8, <1>9, <2>1

\* The excerpts are the two newest messages and the most relevant others, six
\* at most, for every session (bridge.py _select_excerpts).
THEOREM ExcerptsAreRelevant == Spec => []MostRelevantKept
<1>1. Inv => MostRelevantKept
  <2> SUFFICES ASSUME Inv, context # None PROVE MostRelevantKept
    BY DEF MostRelevantKept
  <2> DEFINE C == Candidates
             newest == NewestTwo(C)
             older == Shown \ newest
  <2>1. log \in Seq(Rows) /\ C \in SUBSET (1..Len(log))
    BY ContextIs DEF Inv
  <2>2. ChosenSoFar(C, Shown, Cardinality(C))
    BY <2>1, ContextIs, ChosenKeeps
  <2>3. /\ Cardinality(Shown) <= MaxExcerpts
        /\ newest \subseteq Shown /\ Shown \subseteq C
        /\ \A i \in older : log[i].overlap > 0
    BY <2>2 DEF ChosenSoFar
  <2>4. ASSUME NEW i \in C \ Shown
        PROVE  log[i].overlap = 0
                 \/ /\ Cardinality(Shown) = MaxExcerpts
                    /\ \A j \in older :
                         \/ log[j].overlap > log[i].overlap
                         \/ log[j].overlap = log[i].overlap /\ j > i
    <3>1. PICK k \in 1..Cardinality(C) : Ranked(C)[k] = i
      BY <2>1, RankedIs
    <3>2. \/ log[i].overlap = 0
          \/ /\ Cardinality(Shown) = MaxExcerpts
             /\ \A j \in older : Outranks(j, i)
      BY <2>2, <2>4, <3>1 DEF ChosenSoFar
    <3>3. QED
      BY <3>2 DEF Outranks
  <2>5. QED
    BY <2>3, <2>4 DEF MostRelevantKept
<1>2. QED
  BY <1>1, SpecInv, PTL

\* Whatever the setting was, even no number, the text with its marker stays
\* within the clamped budget (bridge.py _bounded_join).
THEOREM TextStaysWithinBudget == Spec => []WithinBudget
<1>1. Inv => WithinBudget
  <2> SUFFICES ASSUME Inv, context # None PROVE WithinBudget
    BY DEF WithinBudget
  <2>1. PICK places : /\ context = BoundedJoin(places) /\ places = context.places
                      /\ places \in [1..Len(places) -> Candidates]
                      /\ Len(places) \in Nat
    <3>1. PICK n \in Nat : /\ n = Len(context.places)
                           /\ context.places \in [1..n -> Candidates]
      BY ContextIs
    <3>2. context = BoundedJoin(context.places)
      BY ContextIs
    <3>3. QED
      BY <3>1, <3>2
  <2>2. Budget \in Nat /\ Budget > Reserve /\ Budget \in MinBudget..MaxBudget
    BY BudgetInRange
  <2>3. context.size = IF JoinedSizes(places)[Len(places)] <= Budget
                       THEN JoinedSizes(places)[Len(places)]
                       ELSE Cut(places) + Marker
    BY <2>1, JoinIs
  <2>4. Cut(places) \in 1..Budget - Reserve
    BY <2>1, CutIs DEF Inv
  <2>5. context.size <= Budget
    <3>1. CASE JoinedSizes(places)[Len(places)] <= Budget
      BY <2>3, <3>1
    <3>2. CASE ~(JoinedSizes(places)[Len(places)] <= Budget)
      <4>1. PICK cut \in Nat : cut = Cut(places) /\ cut <= Budget - Reserve
        BY <2>2, <2>4
      <4>2. context.size = cut + Marker
        BY <2>3, <3>2, <4>1
      <4>3. QED
        BY <2>2, <4>1, <4>2 DEF Reserve, Marker
    <3>3. QED
      BY <3>1, <3>2
  <2>6. QED
    BY <2>2, <2>5 DEF WithinBudget
<1>2. QED
  BY <1>1, SpecInv, PTL

\* The default budget has room for the most that can be chosen, so the newest
\* messages, which stand last, are never cut (bridge.py _bounded_join).
THEOREM DefaultNeverCuts == Spec => []DefaultCutsNothing
<1>1. Inv => DefaultCutsNothing
  <2> SUFFICES ASSUME Inv, context # None, Budget >= DefaultBudget
               PROVE  context.whole = Len(context.places)
    BY DEF DefaultCutsNothing
  <2>1. log \in Seq(Rows)
    BY DEF Inv
  <2>2. PICK n \in Nat : n = Len(context.places) /\ n = Cardinality(Shown)
    BY ContextIs
  <2>3. PICK places : /\ places = context.places /\ n = Len(places)
                      /\ places \in [1..n -> Candidates]
                      /\ context = BoundedJoin(places)
    <3>1. context.places \in [1..Len(context.places) -> Candidates]
      BY ContextIs
    <3>2. context = BoundedJoin(context.places)
      BY ContextIs
    <3>3. QED
      BY <2>2, <3>1, <3>2
  <2>4. n <= MaxExcerpts
    <3>1. Candidates \in SUBSET (1..Len(log)) /\ Shown = Chosen(Candidates)
      BY ContextIs
    <3>2. ChosenSoFar(Candidates, Shown, Cardinality(Candidates))
      BY <2>1, <3>1, ChosenKeeps
    <3>3. QED
      BY <2>2, <3>2 DEF ChosenSoFar
  <2>5. PICK sums : sums = JoinedSizes(places)
    OBVIOUS
  <2>6. sums[n] \in Nat /\ \A k \in 1..n : sums[k] <= sums[n]
    <3>1. n \in 0..n /\ \A k \in 1..n : k \in 0..n
      OBVIOUS
    <3>2. QED
      BY <2>1, <2>3, <2>5, <3>1, JoinedSizesGrow
  <2>7. sums[n] <= Budget
    <3>1. PICK longest \in Nat : longest = Separator + 11 + MaxExcerptChars
      BY ExcerptsAssumption DEF Separator
    <3>2. n \in 0..n /\ MaxExcerpts \in Nat /\ Header \in Nat
      BY ExcerptsAssumption
    <3>3. sums[n] <= Header + n * longest
      BY <2>1, <2>3, <2>5, <3>1, <3>2, JoinedSizesGrow
    <3>4. n * longest <= MaxExcerpts * longest
      BY <2>4, <3>1, <3>2
    <3>5. Header + MaxExcerpts * longest <= DefaultBudget
      BY <3>1, DefaultHasRoom
    <3>6. PICK few \in Int, many \in Int :
            few = n * longest /\ many = MaxExcerpts * longest
      BY <3>1, <3>2
    <3>7. /\ sums[n] <= Header + few /\ few <= many
          /\ Header + many <= DefaultBudget
      BY <3>3, <3>4, <3>5, <3>6
    <3>8. sums[n] <= DefaultBudget
      BY ONLY <2>6, <3>2, <3>6, <3>7 DEF DefaultBudget
    <3>9. QED
      BY <2>6, <3>8, BudgetInRange DEF DefaultBudget
  <2>8. context.whole = Cardinality({k \in 1..n : sums[k] <= sums[n]})
    <3>1. JoinedSizes(places)[Len(places)] <= Budget
      BY <2>3, <2>5, <2>7
    <3>2. BoundedJoin(places).whole
            = Cardinality({k \in 1..Len(places) :
                JoinedSizes(places)[k] <= JoinedSizes(places)[Len(places)]})
      BY <3>1, JoinIs
    <3>3. QED
      BY <2>3, <2>5, <3>2
  <2>9. {k \in 1..n : sums[k] <= sums[n]} = 1..n
    BY <2>6
  <2>10. Cardinality(1..n) = n
    <3>1. 1 \in Int /\ n \in Int
      OBVIOUS
    <3>2. Cardinality(1..n) = IF 1 > n THEN 0 ELSE n - 1 + 1
      BY <3>1, FS_Interval
    <3>3. QED
      BY <3>2
  <2>11. QED
    BY <2>3, <2>8, <2>9, <2>10
<1>2. QED
  BY <1>1, SpecInv, PTL

=============================================================================
