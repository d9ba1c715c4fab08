--------------------------- MODULE HandoffsProofs ---------------------------
(***************************************************************************)
(* What the budget of one injection computes, for every budget and every   *)
(* sequence of handoffs: the recursive functions of Handoffs, by induction *)
(* over the handoffs.                                                      *)
(***************************************************************************)
EXTENDS Handoffs, DataLemmas, SequenceTheorems

\* A cut keeps the visible characters up to the room there is, and at least the
\* first one.
LEMMA KeptIs ==
  ASSUME NEW u \in Nat, NEW text \in Texts, Fits(u)
  PROVE  /\ Kept(u, text) \in text /\ Kept(u, text) \in Nat
         /\ Kept(u, text) <= MaxContextChars - u - Separator - Prefix
         /\ \A i \in text : i > Kept(u, text) =>
              i > MaxContextChars - u - Separator - Prefix
<1> DEFINE room == MaxContextChars - u - Separator - Prefix
           visible == {i \in text : i <= room}
<1>1. /\ MaxContextChars \in Nat /\ room \in Int /\ room >= 1
      /\ text \in SUBSET (1..MaxContextChars) /\ 1 \in text
  BY BudgetAssumption DEF Fits, Texts
<1>2. visible \in SUBSET (1..MaxContextChars) /\ 1 \in visible
  BY <1>1
<1>3. \E m \in visible : \A k \in visible : m >= k
  BY <1>1, <1>2, GreatestNumber
<1>4. PICK m \in visible : m = Kept(u, text) /\ \A k \in visible : m >= k
  <2>1. Kept(u, text) = Max(visible)
    BY DEF Kept
  <2> HIDE DEF visible
  <2>2. QED
    BY <1>3, <2>1 DEF Max
<1>5. m \in text /\ m \in Nat /\ m <= room
  BY <1>1, <1>4
<1>6. ASSUME NEW i \in text, i > m PROVE i > room
  <2>1. i \in Int /\ ~(m >= i)
    BY <1>1, <1>5, <1>6
  <2>2. i \notin visible
    BY <1>4, <2>1
  <2>3. QED
    BY <1>1, <2>1, <2>2
<1>7. QED
  BY <1>4, <1>5, <1>6

\* Whether the part of a text that is kept ends it, or a cut fell into a run of
\* blanks longer than what another block takes beside its content.
EndsOrBlank(kept, text) ==
  \A i \in text : i > kept => i > kept + Separator + Prefix

\* One more handoff adds characters and stays within the budget; where it leaves
\* room for another one, it is whole or was cut in a long run of blanks.
LEMMA OneMore ==
  ASSUME NEW u \in Nat, NEW text \in Texts, Fits(u)
  PROVE  /\ Kept(u, text) \in Nat
         /\ u + Separator + Prefix + Kept(u, text) \in Nat
         /\ u + Separator + Prefix + Kept(u, text) <= MaxContextChars
         /\ Fits(u + Separator + Prefix + Kept(u, text))
              => EndsOrBlank(Kept(u, text), text)
<1>1. PICK kept \in Nat :
        /\ kept = Kept(u, text)
        /\ kept <= MaxContextChars - u - Separator - Prefix
        /\ \A i \in text : i > kept =>
             i > MaxContextChars - u - Separator - Prefix
  BY KeptIs
<1>2. /\ MaxContextChars \in Nat /\ Separator \in Nat /\ Prefix \in Nat
      /\ \A i \in text : i \in Nat
  BY BudgetAssumption DEF Texts
<1>3. /\ u + Separator + Prefix + kept \in Nat
      /\ u + Separator + Prefix + kept <= MaxContextChars
  BY <1>1, <1>2
<1>4. Fits(u + Separator + Prefix + kept) => EndsOrBlank(kept, text)
  BY <1>1, <1>2 DEF Fits, EndsOrBlank
<1>5. QED
  BY <1>1, <1>3, <1>4

\* The characters used, by the recursion that defines them.
LEMMA UsedIs ==
  ASSUME NEW texts \in Seq(Texts)
  PROVE  /\ Used(texts) \in [0..Len(texts) -> Nat]
         /\ Used(texts)[0] = Header
         /\ \A i \in 1..Len(texts) :
              Used(texts)[i] =
                IF Fits(Used(texts)[i - 1])
                THEN Used(texts)[i - 1] + Separator + Prefix
                     + Kept(Used(texts)[i - 1], texts[i])
                ELSE Used(texts)[i - 1]
<1> DEFINE n == Len(texts)
           Longer(u, i) == IF Fits(u)
                           THEN u + Separator + Prefix + Kept(u, texts[i])
                           ELSE u
           step == [i \in 1..n |-> [u \in Nat |-> Longer(u, i)]]
<1>1. n \in Nat /\ Header \in Nat /\ \A i \in 1..n : texts[i] \in Texts
  BY BudgetAssumption
<1>2. step \in [1..n -> [Nat -> Nat]]
  <2>1. \A i \in 1..n, u \in Nat : Longer(u, i) \in Nat
    BY <1>1, OneMore
  <2> HIDE DEF Longer
  <2>2. QED
    BY <2>1
<1>3. \A k \in 1..n, u \in Nat : step[k][u] = Longer(u, k)
  OBVIOUS
<1> HIDE DEF step, Longer, n
<1>4. PICK g \in [0..n -> Nat] : Runs(g, n, Header, step)
  BY <1>1, <1>2, Recursion
<1>5. ASSUME NEW k \in 0..n
      PROVE  g[k] = IF k = 0 THEN Header ELSE Longer(g[k - 1], k)
  <2>1. CASE k = 0
    BY <1>4, <2>1 DEF Runs
  <2>2. CASE k # 0
    <3>1. k \in 1..n /\ k - 1 \in 0..n
      BY <1>1, <2>2
    <3>2. QED
      BY <1>3, <1>4, <2>2, <3>1 DEF Runs
  <2>3. QED
    BY <2>1, <2>2
<1>6. g = [k \in 0..n |-> IF k = 0 THEN Header ELSE Longer(g[k - 1], k)]
  BY <1>5
<1>7. Used(texts) = CHOOSE f : f = [k \in 0..n |-> IF k = 0 THEN Header
                                                   ELSE Longer(f[k - 1], k)]
  BY DEF Used, Longer, n
<1>8. PICK f : /\ f = Used(texts)
               /\ f = [k \in 0..n |-> IF k = 0 THEN Header
                                      ELSE Longer(f[k - 1], k)]
  BY <1>6, <1>7
<1>9. f[0] = Header /\ \A k \in 1..n : f[k] = Longer(f[k - 1], k)
  <2>1. 0 \in 0..n /\ \A k \in 1..n : k \in 0..n /\ k # 0
    BY <1>1
  <2>2. QED
    BY <1>8, <2>1
<1>10. \A k \in 0..n : f[k] \in Nat
  <2> DEFINE H == {k \in 0..n : f[k] \in Nat}
  <2>1. 0 \in H
    BY <1>1, <1>9
  <2>2. ASSUME NEW k \in 1..n, k - 1 \in H PROVE k \in H
    <3>1. Longer(f[k - 1], k) \in Nat
      BY <1>1, <2>2, OneMore DEF Longer
    <3>2. QED
      BY <1>1, <1>9, <3>1
  <2> HIDE DEF H
  <2>3. 0..n \subseteq H
    BY <1>1, <2>1, <2>2, Induction
  <2>4. QED
    BY <2>3 DEF H
<1>11. f \in [0..n -> Nat]
  BY <1>8, <1>10
<1>12. QED
  BY <1>8, <1>9, <1>11 DEF Longer, n

\* The header and the blocks never take more than the budget.
LEMMA UsedWithinBudget ==
  ASSUME NEW texts \in Seq(Texts), NEW i \in 0..Len(texts)
  PROVE  Used(texts)[i] <= MaxContextChars
<1> DEFINE n == Len(texts)
           H == {k \in 0..n : Used(texts)[k] <= MaxContextChars}
<1>1. n \in Nat /\ \A k \in 1..n : texts[k] \in Texts
  OBVIOUS
<1>2. 0 \in H
  BY <1>1, UsedIs, BudgetAssumption
<1>3. ASSUME NEW k \in 1..n, k - 1 \in H PROVE k \in H
  <2>1. PICK u \in Nat : u = Used(texts)[k - 1] /\ u <= MaxContextChars
    BY <1>3, UsedIs
  <2>2. Used(texts)[k] = IF Fits(u) THEN u + Separator + Prefix + Kept(u, texts[k])
                         ELSE u
    BY <2>1, UsedIs
  <2>3. Used(texts)[k] <= MaxContextChars
    BY <1>1, <2>1, <2>2, OneMore
  <2>4. QED
    BY <1>1, <2>3
<1> HIDE DEF H
<1>4. 0..n \subseteq H
  BY <1>1, <1>2, <1>3, Induction
<1>5. QED
  BY <1>4 DEF H

\* The places whose handoff fits are a prefix, as long as FitHandoffs is.
LEMMA FittingPlaces ==
  ASSUME NEW texts \in Seq(Texts), NEW F,
         F = {i \in 1..Len(texts) : Fits(Used(texts)[i - 1])}
  PROVE  /\ Cardinality(F) \in 0..Len(texts) /\ F = 1..Cardinality(F)
         /\ FitHandoffs(texts)
              = [i \in 1..Cardinality(F) |-> Kept(Used(texts)[i - 1], texts[i])]
<1>1. Len(texts) \in Nat
  OBVIOUS
<1>2. ASSUME NEW i \in F, i > 1 PROVE i - 1 \in F
  <2>1. i - 1 \in 1..Len(texts) /\ Fits(Used(texts)[i - 1])
    BY <1>2
  <2>2. CASE Fits(Used(texts)[(i - 1) - 1])
    BY <2>1, <2>2
  <2>3. CASE ~Fits(Used(texts)[(i - 1) - 1])
    BY <2>1, <2>3, UsedIs
  <2>4. QED
    BY <2>2, <2>3
<1>3. Cardinality(F) \in 0..Len(texts) /\ F = 1..Cardinality(F)
  BY <1>1, <1>2, Prefix1toN
<1>4. FitHandoffs(texts)
        = [i \in 1..Cardinality(F) |-> Kept(Used(texts)[i - 1], texts[i])]
  BY DEF FitHandoffs
<1>5. QED
  BY <1>3, <1>4

\* FitHandoffs: at least one handoff if there is one, a prefix of them, each but
\* the last whole or cut in a long run of blanks.
LEMMA FitHandoffsIs ==
  ASSUME NEW texts \in Seq(Texts)
  PROVE  /\ FitHandoffs(texts) \in Seq(Nat)
         /\ Len(FitHandoffs(texts)) <= Len(texts)
         /\ texts # <<>> => Len(FitHandoffs(texts)) > 0
         /\ \A k \in 1..Len(FitHandoffs(texts)) :
              /\ Used(texts)[k] = Used(texts)[k - 1] + Separator + Prefix
                                  + FitHandoffs(texts)[k]
              /\ k < Len(FitHandoffs(texts))
                   => EndsOrBlank(FitHandoffs(texts)[k], texts[k])
<1> DEFINE F == {i \in 1..Len(texts) : Fits(Used(texts)[i - 1])}
           kept == FitHandoffs(texts)
<1>1. PICK c \in 0..Len(texts) :
        /\ F = 1..c
        /\ kept = [i \in 1..c |-> Kept(Used(texts)[i - 1], texts[i])]
  <2>1. /\ Cardinality(F) \in 0..Len(texts) /\ F = 1..Cardinality(F)
        /\ kept = [i \in 1..Cardinality(F) |->
                     Kept(Used(texts)[i - 1], texts[i])]
    BY FittingPlaces
  <2>2. QED
    BY <2>1
<1>2. ASSUME NEW i \in 1..c
      PROVE  /\ i \in 1..Len(texts) /\ texts[i] \in Texts
             /\ Used(texts)[i - 1] \in Nat /\ Fits(Used(texts)[i - 1])
             /\ kept[i] = Kept(Used(texts)[i - 1], texts[i])
  <2>1. i \in F
    BY <1>1
  <2>2. i \in 1..Len(texts) /\ Fits(Used(texts)[i - 1])
    BY <2>1
  <2>3. Used(texts)[i - 1] \in Nat
    BY <2>2, UsedIs
  <2>4. QED
    BY <1>1, <2>2, <2>3
<1> HIDE DEF kept, F
<1>3. kept \in Seq(Nat) /\ Len(kept) = c
  <2>1. \A i \in 1..c : Kept(Used(texts)[i - 1], texts[i]) \in Nat
    BY <1>2, OneMore
  <2>2. kept \in [1..c -> Nat] /\ c \in Nat
    BY <1>1, <2>1
  <2>3. QED
    BY <2>2
<1>4. ASSUME NEW k \in 1..c
      PROVE  Used(texts)[k] = Used(texts)[k - 1] + Separator + Prefix + kept[k]
  BY <1>2, UsedIs
<1>5. ASSUME NEW k \in 1..c, k < c PROVE EndsOrBlank(kept[k], texts[k])
  <2>1. k + 1 \in 1..c /\ (k + 1) - 1 = k
    BY <1>1, <1>5
  <2>2. Fits(Used(texts)[k])
    BY <1>2, <2>1
  <2>3. QED
    BY <1>2, <1>4, <2>2, OneMore
<1>6. ASSUME texts # <<>> PROVE c > 0
  <2>1. 1 \in 1..Len(texts) /\ Used(texts)[1 - 1] = Header
    BY <1>6, UsedIs
  <2>2. 1 \in F
    BY <2>1, BudgetAssumption DEF F, Fits
  <2>3. QED
    BY <1>1, <2>2
<1>7. QED
  BY <1>1, <1>3, <1>4, <1>5, <1>6 DEF kept

\* The length of the join, given what its parts add up to.
LEMMA JoinedIs ==
  ASSUME NEW lengths \in Seq(Nat), NEW used \in [0..Len(lengths) -> Nat],
         used[0] = Header,
         \A i \in 1..Len(lengths) :
           used[i] = used[i - 1] + Separator + Prefix + lengths[i]
  PROVE  Joined(lengths) = used[Len(lengths)]
<1> DEFINE n == Len(lengths)
           Longer(sum, i) == sum[i - 1] + Separator + Prefix + lengths[i]
<1>1. n \in Nat
  OBVIOUS
<1>2. used = [i \in 0..n |-> IF i = 0 THEN Header ELSE Longer(used, i)]
  <2>1. ASSUME NEW i \in 0..n
        PROVE  used[i] = IF i = 0 THEN Header ELSE Longer(used, i)
    <3>1. i = 0 \/ i \in 1..n
      BY <1>1
    <3>2. QED
      BY <3>1
  <2> HIDE DEF Longer, n
  <2>2. used = [i \in 0..n |-> used[i]]
    BY DEF n
  <2>3. QED
    BY <2>1, <2>2
<1>3. PICK sum : /\ sum = [i \in 0..n |-> IF i = 0 THEN Header ELSE Longer(sum, i)]
                 /\ Joined(lengths) = sum[n]
  <2>1. Joined(lengths)
          = (CHOOSE f : f = [i \in 0..n |-> IF i = 0 THEN Header
                                            ELSE Longer(f, i)])[n]
    BY DEF Joined
  <2> HIDE DEF Longer, n
  <2>2. QED
    BY <1>2, <2>1
<1>4. sum[0] = Header /\ \A i \in 1..n : sum[i] = Longer(sum, i)
  <2>1. 0 \in 0..n /\ \A i \in 1..n : i \in 0..n /\ i # 0
    BY <1>1
  <2> HIDE DEF Longer, n
  <2>2. QED
    BY <1>3, <2>1
<1>5. n \in {i \in 0..n : sum[i] = used[i]}
  <2> DEFINE H == {i \in 0..n : sum[i] = used[i]}
  <2>1. 0 \in H
    BY <1>1, <1>4
  <2>2. ASSUME NEW i \in 1..n, i - 1 \in H PROVE i \in H
    <3>1. sum[i] = used[i]
      BY <1>4, <2>2
    <3>2. QED
      BY <1>1, <3>1
  <2> HIDE DEF H
  <2>3. 0..n \subseteq H
    BY <1>1, <2>1, <2>2, Induction
  <2>4. QED
    BY <1>1, <2>3 DEF H
<1>6. QED
  BY <1>3, <1>5

\* What is injected stays within max_context_chars, so that it is not cut again.
LEMMA JoinedFits ==
  ASSUME NEW texts \in Seq(Texts)
  PROVE  Joined(FitHandoffs(texts)) <= MaxContextChars
<1> DEFINE kept == FitHandoffs(texts)
           used == [i \in 0..Len(kept) |-> Used(texts)[i]]
<1>1. /\ kept \in Seq(Nat) /\ Len(kept) <= Len(texts)
      /\ \A k \in 1..Len(kept) :
           Used(texts)[k] = Used(texts)[k - 1] + Separator + Prefix + kept[k]
  BY FitHandoffsIs
<1> HIDE DEF kept
<1>2. /\ Len(kept) \in 0..Len(texts) /\ 0..Len(kept) \subseteq 0..Len(texts)
      /\ \A k \in 1..Len(kept) : k \in 0..Len(kept) /\ k - 1 \in 0..Len(kept)
      /\ 0 \in 0..Len(kept)
  BY <1>1
<1>3. /\ used \in [0..Len(kept) -> Nat] /\ used[0] = Header
      /\ \A k \in 1..Len(kept) :
           used[k] = used[k - 1] + Separator + Prefix + kept[k]
  BY <1>1, <1>2, UsedIs
<1>4. Joined(kept) = used[Len(kept)]
  BY <1>1, <1>3, JoinedIs
<1>5. used[Len(kept)] = Used(texts)[Len(kept)]
  BY <1>2
<1>6. QED
  BY <1>2, <1>4, <1>5, UsedWithinBudget DEF kept

=============================================================================
