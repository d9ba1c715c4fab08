---------------------------- MODULE BridgeProofs ----------------------------
(***************************************************************************)
(* Theorems about Bridge for every value of its constants: what a claim    *)
(* takes, to whom and in which order, and what is marked delivered.  What  *)
(* the budget keeps of a handoff is in HandoffsProofs.                     *)
(***************************************************************************)
EXTENDS Bridge, HandoffsProofs

Committed == {"claimed", "lost", "injected"}

\* The types the argument needs; a turn that has claimed is a record of which
\* only the state and the ids matter here.
TypeInv ==
  /\ bindings \in [Threads -> Sessions \cup {None}]
  /\ rows \in Seq(Row)
  /\ stored \subseteq 1..Len(rows)
  /\ delivered \subseteq 1..Len(rows)
  /\ worker \in [Workers -> WorkerState]
  /\ DOMAIN turn = Turns /\ turn = [t \in Turns |-> turn[t]]
  /\ \A t \in Turns :
       \/ turn[t] \in [at : {"idle", "failed"}]
       \/ /\ turn[t].at \in {"claiming"} \cup Committed
          /\ turn[t].ids \subseteq 1..Len(rows)
          /\ turn[t] = [at |-> turn[t].at, session |-> turn[t].session,
                        ids |-> turn[t].ids, kept |-> turn[t].kept]

\* The write lock protects a claim: while it is open its rows are stored and
\* pending, once it is committed they are delivered, and delivered to no other.
ClaimInv ==
  /\ \A t \in Turns : turn[t].at = "claiming" =>
       writer = t /\ turn[t].ids \subseteq stored \ delivered
  /\ \A t, u \in Turns : t # u => ClaimedBy(t) \cap ClaimedBy(u) = {}
  /\ DeliveredWasClaimed
  /\ \A i, j \in stored : i # j => rows[i] # rows[j]

\* A session is bound, looked up and written into a row only after it acted on
\* the thread.
BindingInv ==
  /\ \A th \in Threads : bindings[th] # None => <<bindings[th], th>> \in acted
  /\ \A w \in Workers : worker[w].at = "queueing" =>
       <<worker[w].row.target, ThreadOf[worker[w].row.object]>> \in acted
  /\ OnlyToForeground

IInv == TypeInv /\ ClaimInv /\ BindingInv

LEMMA InitIInv == Init => IInv
  BY DEF Init, IInv, TypeInv, ClaimInv, BindingInv, OnlyToForeground,
         DeliveredWasClaimed, ClaimedBy, WorkerState, Committed

\* What a turn has claimed is delivered.
LEMMA ClaimsAreDelivered ==
  ASSUME IInv, NEW t \in Turns
  PROVE  ClaimedBy(t) \subseteq delivered
  BY DEF IInv, ClaimInv, DeliveredWasClaimed

\* A step that moves one turn without changing what is committed.
LEMMA TurnStep ==
  ASSUME IInv, NEW t \in Turns, NEW state,
         turn' = [turn EXCEPT ![t] = state],
         \/ state \in [at : {"idle", "failed"}]
         \/ /\ state.at \in {"claiming"} \cup Committed
            /\ state.ids \subseteq 1..Len(rows)
            /\ state = [at |-> state.at, session |-> state.session,
                        ids |-> state.ids, kept |-> state.kept],
         state.at = "claiming" =>
           writer' = t /\ state.ids \subseteq stored \ delivered,
         \A u \in Turns \ {t} : turn[u].at # "claiming" \/ writer' = u,
         IF state.at \in Committed THEN state.ids = ClaimedBy(t)
         ELSE ClaimedBy(t) = {},
         UNCHANGED <<tables, worker, acted>>
  PROVE  IInv'
<1>1. \A u \in Turns : turn'[u] = IF u = t THEN state ELSE turn[u]
  BY DEF IInv, TypeInv
<1>2. TypeInv'
  BY <1>1 DEF IInv, TypeInv, tables
<1>3. \A u \in Turns : ClaimedBy(u)' = ClaimedBy(u)
  <2>1. ClaimedBy(t)' = IF state.at \in Committed THEN state.ids ELSE {}
    <3>1. turn'[t] = state
      BY <1>1
    <3>2. QED
      BY <3>1 DEF ClaimedBy, Committed
  <2>2. ClaimedBy(t)' = ClaimedBy(t)
    BY <2>1
  <2>3. ASSUME NEW u \in Turns, u # t PROVE ClaimedBy(u)' = ClaimedBy(u)
    <3>1. turn'[u] = turn[u]
      BY <1>1, <2>3
    <3>2. QED
      BY <3>1 DEF ClaimedBy
  <2>4. QED
    BY <2>2, <2>3
<1>4. ClaimInv'
  <2>1. \A u \in Turns : turn'[u].at = "claiming" =>
          writer' = u /\ turn'[u].ids \subseteq stored' \ delivered'
    BY <1>1 DEF IInv, ClaimInv, tables
  <2>2. QED
    BY <1>3, <2>1 DEF IInv, ClaimInv, DeliveredWasClaimed, tables
<1>5. BindingInv'
  BY DEF IInv, BindingInv, OnlyToForeground, tables
<1>6. QED
  BY <1>2, <1>4, <1>5 DEF IInv

LEMMA PostToolCallKeepsIInv ==
  ASSUME IInv, NEW s \in Sessions \cup Gateway, NEW th \in Threads,
         PostToolCall(s, th)
  PROVE  IInv'
<1>1. s \in Sessions
  BY DEF PostToolCall
<1>2. TypeInv'
  BY <1>1 DEF IInv, TypeInv, PostToolCall
<1>3. ClaimInv'
  BY DEF IInv, ClaimInv, DeliveredWasClaimed, ClaimedBy, PostToolCall
<1>4. BindingInv'
  BY DEF IInv, TypeInv, BindingInv, OnlyToForeground, PostToolCall
<1>5. QED
  BY <1>2, <1>3, <1>4 DEF IInv

LEMMA LookUpBindingKeepsIInv ==
  ASSUME IInv, NEW w \in Workers, NEW o \in Objects, NEW source,
         LookUpBinding(w, o, source)
  PROVE  IInv'
<1> DEFINE row == [object |-> o, target |-> bindings[ThreadOf[o]]]
<1>1. /\ ThreadOf[o] \in Threads /\ bindings[ThreadOf[o]] \in Sessions
      /\ <<bindings[ThreadOf[o]], ThreadOf[o]>> \in acted
  BY BridgeAssumption DEF IInv, TypeInv, BindingInv, LookUpBinding
<1>2. row \in Row
  BY <1>1 DEF Row
<1>3. /\ worker' = [worker EXCEPT ![w] = [at |-> "queueing", row |-> row]]
      /\ UNCHANGED <<tables, writer, turn, acted>>
  BY DEF LookUpBinding
<1>4. row.target = bindings[ThreadOf[o]] /\ row.object = o
  OBVIOUS
<1> HIDE DEF row
<1>5. TypeInv'
  BY <1>2, <1>3 DEF IInv, TypeInv, WorkerState, tables
<1>6. ClaimInv'
  BY <1>3 DEF IInv, ClaimInv, DeliveredWasClaimed, ClaimedBy, tables
<1>7. BindingInv'
  <2>1. \A v \in Workers : worker'[v].at = "queueing" =>
          <<worker'[v].row.target, ThreadOf[worker'[v].row.object]>> \in acted
    BY <1>1, <1>3, <1>4 DEF IInv, TypeInv, BindingInv
  <2>2. QED
    BY <1>3, <2>1 DEF IInv, BindingInv, OnlyToForeground, tables
<1>8. QED
  BY <1>5, <1>6, <1>7 DEF IInv

\* Queueing waits for the lock, so no claim is open when rows are pruned.
LEMMA QueueHandoffKeepsIInv ==
  ASSUME IInv, NEW w \in Workers, QueueHandoff(w)
  PROVE  IInv'
<1> DEFINE row == worker[w].row
           known == \E i \in stored : rows[i] = row
<1>1. row \in Row /\ <<row.target, ThreadOf[row.object]>> \in acted
  BY DEF IInv, TypeInv, WorkerState, BindingInv, QueueHandoff
<1>2. /\ rows' = IF known THEN rows ELSE Append(rows, row)
      /\ stored' \subseteq IF known THEN stored ELSE stored \cup {Len(rows) + 1}
      /\ UNCHANGED <<bindings, delivered, writer, turn, acted>>
      /\ worker' = [worker EXCEPT ![w] = [at |-> "done"]]
      /\ writer = None
  BY DEF QueueHandoff, Newest
<1>3. /\ rows \in Seq(Row) /\ rows' \in Seq(Row) /\ Len(rows) \in Nat
      /\ 1..Len(rows) \subseteq 1..Len(rows')
      /\ \A i \in 1..Len(rows) : rows'[i] = rows[i]
      /\ ~known => Len(rows') = Len(rows) + 1 /\ rows'[Len(rows) + 1] = row
      /\ known => rows' = rows
  BY <1>1, <1>2 DEF IInv, TypeInv
<1>4. /\ stored \subseteq 1..Len(rows)
      /\ stored' \subseteq 1..Len(rows')
  BY <1>2, <1>3 DEF IInv, TypeInv
<1> HIDE DEF row
<1>5. TypeInv'
  <2>1. worker' \in [Workers -> WorkerState]
    BY <1>2 DEF IInv, TypeInv, WorkerState
  <2>2. delivered' \subseteq 1..Len(rows')
    BY <1>2, <1>3 DEF IInv, TypeInv
  <2>3. \A t \in Turns : turn[t].ids \subseteq 1..Len(rows) =>
                         turn[t].ids \subseteq 1..Len(rows')
    BY <1>3
  <2>4. QED
    BY <1>2, <1>3, <1>4, <2>1, <2>2, <2>3 DEF IInv, TypeInv
<1>6. ClaimInv'
  <2>1. \A t \in Turns : turn[t].at # "claiming"
    BY <1>2, BridgeAssumption DEF IInv, ClaimInv
  <2>2. \A i, j \in stored' : i # j => rows'[i] # rows'[j]
    BY <1>2, <1>3, <1>4 DEF IInv, ClaimInv
  <2>3. QED
    BY <1>2, <2>1, <2>2 DEF IInv, ClaimInv, DeliveredWasClaimed, ClaimedBy
<1>7. BindingInv'
  <2>1. \A i \in 1..Len(rows') :
          <<rows'[i].target, ThreadOf[rows'[i].object]>> \in acted
    BY <1>1, <1>3 DEF IInv, BindingInv, OnlyToForeground
  <2>2. \A v \in Workers : worker'[v].at = "queueing" => worker'[v] = worker[v]
    BY <1>2 DEF IInv, TypeInv
  <2>3. QED
    BY <1>2, <2>1, <2>2 DEF IInv, BindingInv, OnlyToForeground
<1>8. QED
  BY <1>5, <1>6, <1>7 DEF IInv

LEMMA QueueFailsKeepsIInv ==
  ASSUME IInv, NEW w \in Workers, QueueFails(w)
  PROVE  IInv'
<1>1. TypeInv'
  BY DEF IInv, TypeInv, WorkerState, QueueFails, tables
<1>2. ClaimInv'
  BY DEF IInv, ClaimInv, DeliveredWasClaimed, ClaimedBy, QueueFails, tables
<1>3. BindingInv'
  <2>1. \A v \in Workers : worker'[v].at = "queueing" => worker'[v] = worker[v]
    BY DEF IInv, TypeInv, QueueFails
  <2>2. QED
    BY <2>1 DEF IInv, BindingInv, OnlyToForeground, QueueFails, tables
<1>4. QED
  BY <1>1, <1>2, <1>3 DEF IInv

\* BEGIN IMMEDIATE: nobody else has a claim open.
LEMMA BeginTakeKeepsIInv ==
  ASSUME IInv, NEW t \in Turns, NEW s \in Sessions, BeginTake(t, s)
  PROVE  IInv'
<1>1. PICK state : /\ turn' = [turn EXCEPT ![t] = state]
                   /\ state.at = "claiming"
                   /\ state.ids \subseteq Pending(s)
                   /\ state = [at |-> state.at, session |-> state.session,
                               ids |-> state.ids, kept |-> state.kept]
  <2> DEFINE kept == FitHandoffs(TextsOf(Oldest(Pending(s), MaxPerTurn)))
             ids == Oldest(Pending(s), Len(kept))
             new == [at |-> "claiming", session |-> s, ids |-> ids, kept |-> kept]
  <2>1. turn' = [turn EXCEPT ![t] = new]
    BY DEF BeginTake
  <2>2. ids \subseteq Pending(s)
    BY DEF Oldest
  <2> HIDE DEF kept, ids
  <2>3. /\ new.at = "claiming" /\ new.ids \subseteq Pending(s)
        /\ new = [at |-> new.at, session |-> new.session,
                  ids |-> new.ids, kept |-> new.kept]
    BY <2>2
  <2> HIDE DEF new
  <2>4. QED
    BY <2>1, <2>3
<1>2. state.ids \subseteq stored \ delivered /\ state.ids \subseteq 1..Len(rows)
  BY <1>1 DEF Pending, IInv, TypeInv
<1>3. \A u \in Turns : turn[u].at # "claiming"
  BY BridgeAssumption DEF BeginTake, IInv, ClaimInv
<1>4. writer' = t /\ UNCHANGED <<tables, worker, acted>> /\ ClaimedBy(t) = {}
  BY DEF BeginTake, ClaimedBy
<1>5. state.at \notin Committed
  BY <1>1 DEF Committed
<1>6. QED
  BY <1>1, <1>2, <1>3, <1>4, <1>5, TurnStep

\* UPDATE and COMMIT: the rows were pending, so no other turn has them.
LEMMA CommitTakeKeepsIInv ==
  ASSUME IInv, NEW t \in Turns, CommitTake(t)
  PROVE  IInv'
<1>1. /\ turn[t].at = "claiming" /\ turn[t].ids \subseteq stored \ delivered
      /\ turn[t] = [at |-> "claiming", session |-> turn[t].session,
                    ids |-> turn[t].ids, kept |-> turn[t].kept]
      /\ writer = t
  BY DEF CommitTake, IInv, TypeInv, ClaimInv
<1>2. /\ delivered' = delivered \cup turn[t].ids
      /\ UNCHANGED <<bindings, rows, stored, worker, acted>>
  BY DEF CommitTake
<1>3. /\ turn'[t] = [at |-> "claimed", session |-> turn[t].session,
                     ids |-> turn[t].ids, kept |-> turn[t].kept]
      /\ \A u \in Turns : u # t => turn'[u] = turn[u]
      /\ DOMAIN turn' = Turns /\ turn' = [u \in Turns |-> turn'[u]]
  BY <1>1 DEF CommitTake, IInv, TypeInv
<1>4. TypeInv'
  <2>1. turn[t].ids \subseteq 1..Len(rows) /\ delivered' \subseteq 1..Len(rows)
    BY <1>1, <1>2 DEF IInv, TypeInv
  <2>2. QED
    BY <1>2, <1>3, <2>1 DEF IInv, TypeInv, Committed
<1>5. /\ ClaimedBy(t)' = turn[t].ids /\ ClaimedBy(t) = {}
      /\ \A u \in Turns : u # t => ClaimedBy(u)' = ClaimedBy(u)
  BY <1>1, <1>3 DEF ClaimedBy
<1>6. ClaimInv'
  <2>1. \A u \in Turns : turn'[u].at # "claiming"
    BY <1>1, <1>3 DEF IInv, ClaimInv
  <2>2. \A u, v \in Turns : u # v => (ClaimedBy(u) \cap ClaimedBy(v) = {})'
    BY <1>1, <1>5, ClaimsAreDelivered DEF IInv, ClaimInv
  <2>3. DeliveredWasClaimed'
    BY <1>2, <1>5 DEF IInv, ClaimInv, DeliveredWasClaimed
  <2>4. QED
    BY <1>2, <2>1, <2>2, <2>3 DEF IInv, ClaimInv
<1>7. BindingInv'
  BY <1>2 DEF IInv, BindingInv, OnlyToForeground
<1>8. QED
  BY <1>4, <1>6, <1>7 DEF IInv

LEMMA TakeFailsKeepsIInv ==
  ASSUME IInv, NEW t \in Turns, TakeFails(t)
  PROVE  IInv'
<1>1. \A u \in Turns \ {t} : turn[u].at # "claiming"
  BY DEF TakeFails, IInv, ClaimInv
<1>2. PICK state : state = [at |-> "failed"]
  OBVIOUS
<1>3. QED
  BY <1>1, <1>2, TurnStep DEF TakeFails, ClaimedBy, Committed

\* After the commit the turn's own fate changes nothing in the file.
LEMMA EndOfTurnKeepsIInv ==
  ASSUME IInv, NEW t \in Turns, Inject(t) \/ CrashBeforeInjection(t)
  PROVE  IInv'
<1>1. PICK end \in {"injected", "lost"} :
        /\ turn[t].at = "claimed"
        /\ turn' = [turn EXCEPT ![t].at = end]
        /\ UNCHANGED <<tables, writer, worker, acted>>
  BY DEF Inject, CrashBeforeInjection
<1>2. PICK state :
        state = [at |-> end, session |-> turn[t].session,
                 ids |-> turn[t].ids, kept |-> turn[t].kept]
  OBVIOUS
<1>3. /\ turn[t] = [at |-> "claimed", session |-> turn[t].session,
                    ids |-> turn[t].ids, kept |-> turn[t].kept]
      /\ turn[t].ids \subseteq 1..Len(rows)
  BY <1>1 DEF IInv, TypeInv
<1>4. turn' = [turn EXCEPT ![t] = state]
  <2>1. [turn[t] EXCEPT !.at = end] = state
    BY <1>2, <1>3
  <2>2. turn' = [turn EXCEPT ![t] = [turn[t] EXCEPT !.at = end]]
    BY <1>1
  <2>3. QED
    BY <2>1, <2>2
<1>5. \A u \in Turns \ {t} : turn[u].at # "claiming" \/ writer' = u
  BY <1>1 DEF IInv, ClaimInv
<1>6. ClaimedBy(t) = state.ids /\ state.at \in Committed
  BY <1>1, <1>2 DEF ClaimedBy, Committed
<1>7. state.at # "claiming"
  BY <1>2
<1>8. QED
  BY <1>1, <1>2, <1>3, <1>4, <1>5, <1>6, <1>7, TurnStep

LEMMA NextIInv == IInv /\ [Next]_vars => IInv'
<1> SUFFICES ASSUME IInv, [Next]_vars PROVE IInv'
  OBVIOUS
<1>1. CASE UNCHANGED vars
  BY <1>1 DEF vars, tables, IInv, TypeInv, ClaimInv, BindingInv,
              OnlyToForeground, DeliveredWasClaimed, ClaimedBy
<1>2. QED
  BY <1>1, PostToolCallKeepsIInv, LookUpBindingKeepsIInv, QueueHandoffKeepsIInv,
     QueueFailsKeepsIInv, BeginTakeKeepsIInv, CommitTakeKeepsIInv,
     TakeFailsKeepsIInv, EndOfTurnKeepsIInv DEF Next

\* No two turns, of any processes, inject the same result.
THEOREM ResultsAreInjectedOnce == Spec => []InjectedOnce
<1>1. IInv => InjectedOnce
  BY DEF IInv, ClaimInv, InjectedOnce
<1>2. QED
  BY <1>1, InitIInv, NextIInv, PTL DEF Spec

\* A background result reaches only sessions that acted on its thread.
THEOREM ResultsStayInForeground == Spec => []OnlyToForeground
<1>1. IInv => OnlyToForeground
  BY DEF IInv, BindingInv
<1>2. QED
  BY <1>1, InitIInv, NextIInv, PTL DEF Spec

\* A rolled back claim marks nothing as delivered.
THEOREM OnlyClaimsAreDelivered == Spec => []DeliveredWasClaimed
<1>1. IInv => DeliveredWasClaimed
  BY DEF IInv, ClaimInv
<1>2. QED
  BY <1>1, InitIInv, NextIInv, PTL DEF Spec

-----------------------------------------------------------------------------
(* The prune                                                               *)

\* The prune removes an id only if MaxStored greater ones stay behind it.
LEMMA PruneTakesTheOldest ==
  ASSUME NEW n \in Nat, NEW ids \in SUBSET (1..n), NEW i \in ids \ Newest(ids)
  PROVE  n - i >= MaxStored
<1> DEFINE later == {j \in ids : j > i}
<1>1. i \in 1..n /\ i + 1 \in Int /\ n \in Int /\ MaxStored \in Nat
  BY BridgeAssumption
<1>2. IsFiniteSet(i + 1 .. n) /\ Cardinality(i + 1 .. n) = n - i
  BY <1>1, FS_Interval
<1>3. later \subseteq i + 1 .. n
  <2>1. ASSUME NEW j \in later PROVE j \in i + 1 .. n
    <3>1. j \in 1..n /\ j > i
      OBVIOUS
    <3>2. QED
      BY <1>1, <3>1
  <2>2. QED
    BY <2>1
<1>4. ~(Cardinality(later) < MaxStored)
  BY DEF Newest
<1> HIDE DEF later
<1>5. IsFiniteSet(later) /\ Cardinality(later) <= Cardinality(i + 1 .. n)
  BY <1>2, <1>3, FS_Subset
<1>6. Cardinality(later) \in Nat
  BY <1>5, FS_CardinalityType
<1>7. QED
  BY <1>1, <1>2, <1>4, <1>5, <1>6

LEMMA NextKeptUntilFull ==
  IInv /\ KeptUntilFull /\ [Next]_vars => KeptUntilFull'
<1> SUFFICES ASSUME IInv, KeptUntilFull, [Next]_vars PROVE KeptUntilFull'
  OBVIOUS
<1>1. ASSUME NEW w \in Workers, QueueHandoff(w) PROVE KeptUntilFull'
  <2> DEFINE known == \E i \in stored : rows[i] = worker[w].row
             ids == IF known THEN stored ELSE stored \cup {Len(rows) + 1}
  <2>1. /\ rows' = IF known THEN rows ELSE Append(rows, worker[w].row)
        /\ stored' = Newest(ids)
    BY <1>1 DEF QueueHandoff
  <2>2. worker[w].row \in Row
    BY <1>1 DEF QueueHandoff, IInv, TypeInv, WorkerState
  <2>3. /\ Len(rows) \in Nat
        /\ Len(rows') = IF known THEN Len(rows) ELSE Len(rows) + 1
    BY <2>1, <2>2 DEF IInv, TypeInv
  <2>4. ids \in SUBSET (1..Len(rows')) /\ Len(rows') \in Nat
    BY <2>3 DEF IInv, TypeInv
  <2>5. ASSUME NEW i \in 1..Len(rows'), i \notin stored'
        PROVE  Len(rows') - i >= MaxStored
    <3>1. CASE i \in ids
      BY <3>1, <2>1, <2>4, <2>5, PruneTakesTheOldest
    <3>2. CASE i \notin ids
      <4>1. i \in 1..Len(rows) \ stored
        BY <3>2, <2>3
      <4>2. Len(rows) - i >= MaxStored
        BY <4>1 DEF KeptUntilFull
      <4>3. QED
        BY <4>1, <4>2, <2>3, BridgeAssumption
    <3>3. QED
      BY <3>1, <3>2
  <2>6. QED
    BY <2>5 DEF KeptUntilFull
<1>2. CASE UNCHANGED <<rows, stored>>
  BY <1>2 DEF KeptUntilFull
<1>3. QED
  BY <1>1, <1>2 DEF Next, PostToolCall, LookUpBinding, QueueFails, BeginTake,
     CommitTake, TakeFails, Inject, CrashBeforeInjection, tables, vars

\* A result leaves the table only behind MaxStored newer ones.
THEOREM ResultsAreKeptUntilFull == Spec => []KeptUntilFull
<1>1. Init => KeptUntilFull
  BY DEF Init, KeptUntilFull
<1>2. QED
  BY <1>1, InitIInv, NextIInv, NextKeptUntilFull, PTL DEF Spec

-----------------------------------------------------------------------------
(* Choosing rows by their ids                                              *)

\* The n smallest ids: n of them if there are so many, in the same order as
\* among all, and with each of them every smaller one.
LEMMA OldestIs ==
  ASSUME NEW ids \in SUBSET Int, IsFiniteSet(ids), NEW n \in Nat,
         NEW O, O = Oldest(ids, n)
  PROVE  /\ O \subseteq ids /\ IsFiniteSet(O)
         /\ Cardinality(O) = IF n < Cardinality(ids) THEN n
                             ELSE Cardinality(ids)
         /\ \A i \in O, j \in ids : j < i => j \in O
         /\ \A k \in 1..Cardinality(O) :
              Ascending(O)[k] = Ascending(ids)[k]
<1> DEFINE ahead == [i \in ids |-> {j \in ids : j < i}]
           aheadO == [i \in O |-> {j \in O : j < i}]
<1>1. Orders(ids, ahead)
  BY NumbersAreOrdered
<1>2. O = First(ids, ahead, n)
  <2>1. ASSUME NEW i \in ids
        PROVE  Cardinality({j \in ids : j <= i}) <= n
                 <=> Cardinality(ahead[i]) < n
    <3>1. {j \in ids : j <= i} = ahead[i] \cup {i} /\ i \notin ahead[i]
      <4>1. \A j \in ids : j <= i <=> j < i \/ j = i
        OBVIOUS
      <4>2. ~(i < i)
        OBVIOUS
      <4>3. QED
        BY <4>1, <4>2
    <3>2. IsFiniteSet(ahead[i])
      <4>1. ahead[i] \in SUBSET ids
        OBVIOUS
      <4>2. QED
        BY <4>1, FS_Subset
    <3> HIDE DEF ahead
    <3>3. Cardinality({j \in ids : j <= i}) = Cardinality(ahead[i]) + 1
      BY <3>1, <3>2, FS_AddElement
    <3>4. Cardinality(ahead[i]) \in Nat
      BY <3>2, FS_CardinalityType
    <3>5. QED
      BY <3>3, <3>4
  <2> HIDE DEF ahead
  <2>2. QED
    BY <2>1 DEF Oldest, First
<1>3. \A i \in ids : ahead[i] = {j \in ids : j < i}
  OBVIOUS
<1>4. Ascending(ids) = InOrder(ids, ahead) /\ Ascending(O) = InOrder(O, aheadO)
  BY DEF Ascending
<1>5. aheadO \in [O -> SUBSET O] /\ \A i \in O : aheadO[i] = {j \in O : j < i}
  OBVIOUS
<1> HIDE DEF ahead, aheadO
<1>6. /\ O \subseteq ids /\ IsFiniteSet(O)
      /\ Cardinality(O) = IF n < Cardinality(ids) THEN n ELSE Cardinality(ids)
      /\ \A i \in O : ahead[i] \subseteq O
  BY <1>1, <1>2, FirstByRank
<1>7. \A i \in O : aheadO[i] = ahead[i]
  BY <1>3, <1>5, <1>6
<1>8. \A k \in 1..Cardinality(O) :
        InOrder(O, aheadO)[k] = InOrder(ids, ahead)[k]
  BY <1>1, <1>2, <1>5, <1>7, FirstInOrder
<1>9. \A i \in O, j \in ids : j < i => j \in O
  BY <1>3, <1>6
<1>10. QED
  BY <1>4, <1>6, <1>8, <1>9

\* The prune leaves at most MaxStored rows.
LEMMA NewestAreFew ==
  ASSUME NEW ids \in SUBSET Int, IsFiniteSet(ids)
  PROVE  Cardinality(Newest(ids)) <= MaxStored
<1> DEFINE ahead == [i \in ids |-> {j \in ids : j > i}]
<1>1. Orders(ids, ahead)
  BY NumbersAreOrderedDown
<1>2. Newest(ids) = First(ids, ahead, MaxStored)
  BY DEF Newest, First
<1> HIDE DEF ahead
<1>3. MaxStored \in Nat /\ Cardinality(ids) \in Nat
  BY BridgeAssumption, FS_CardinalityType
<1>4. Cardinality(Newest(ids)) = IF MaxStored < Cardinality(ids) THEN MaxStored
                                 ELSE Cardinality(ids)
  BY <1>1, <1>2, <1>3, FirstByRank
<1>5. QED
  BY <1>3, <1>4

\* Ids of rows, and their texts.
LEMMA TextsOfIs ==
  ASSUME rows \in Seq(Row), NEW ids \in SUBSET (1..Len(rows))
  PROVE  /\ ids \in SUBSET Int /\ IsFiniteSet(ids)
         /\ TextsOf(ids) \in Seq(Texts) /\ Len(TextsOf(ids)) = Cardinality(ids)
         /\ \A k \in 1..Cardinality(ids) :
              /\ Ascending(ids)[k] \in ids
              /\ TextsOf(ids)[k] = TextOf[rows[Ascending(ids)[k]].object]
<1>1. Len(rows) \in Nat /\ \A i \in 1..Len(rows) : rows[i] \in Row
  OBVIOUS
<1>2. ids \in SUBSET Int /\ IsFiniteSet(ids)
  <2>1. IsFiniteSet(1..Len(rows))
    BY <1>1, FS_Interval
  <2>2. ids \in SUBSET Int /\ ids \in SUBSET (1..Len(rows))
    BY <1>1
  <2>3. QED
    BY <2>1, <2>2, FS_Subset
<1>3. PICK c \in Nat : c = Cardinality(ids) /\ Ascending(ids) \in [1..c -> ids]
  BY <1>2, AscendingIs
<1>4. TextsOf(ids) = [k \in 1..c |-> TextOf[rows[Ascending(ids)[k]].object]]
  BY <1>3 DEF TextsOf
<1>5. ASSUME NEW k \in 1..c
      PROVE  Ascending(ids)[k] \in ids
             /\ TextOf[rows[Ascending(ids)[k]].object] \in Texts
  <2>1. PICK i \in ids : i = Ascending(ids)[k]
    BY <1>3
  <2>2. rows[i].object \in Objects
    BY <1>1 DEF Row
  <2>3. TextOf[rows[i].object] \in Texts
    BY <2>2, BridgeAssumption
  <2>4. QED
    BY <2>1, <2>3
<1>6. TextsOf(ids) \in [1..c -> Texts]
  BY <1>4, <1>5
<1>7. TextsOf(ids) \in Seq(Texts) /\ Len(TextsOf(ids)) = c
  BY <1>3, <1>6
<1>8. QED
  BY <1>2, <1>3, <1>4, <1>5, <1>7

-----------------------------------------------------------------------------
(* The types, the order and the budget of claims                           *)

\* What a turn took from the table: as long as its rows stay what they are, the
\* texts it injects belong to its ids and fit, each but the last whole or cut in a
\* long run of blanks.
TakenFits(ids, kept) ==
  LET texts == TextsOf(ids) IN
  /\ kept # <<>> /\ Len(kept) = Len(texts)
  /\ Joined(kept) <= MaxContextChars
  /\ \A k \in 1..Len(kept) - 1 : EndsOrBlank(kept[k], texts[k])

\* No older row of the same session is left behind by a claim.
ClaimsInOrder ==
  \A t \in Turns : turn[t].at = "claiming" =>
    \A i \in turn[t].ids, j \in stored :
      j < i /\ rows[j].target = rows[i].target
        => j \in delivered \cup turn[t].ids

\* BEGIN IMMEDIATE and _fit_handoffs: a prefix of the session's pending rows.
LEMMA TakenIs ==
  ASSUME IInv, NEW s \in Sessions, Pending(s) # {}, NEW kept, NEW ids,
         kept = FitHandoffs(TextsOf(Oldest(Pending(s), MaxPerTurn))),
         ids = Oldest(Pending(s), Len(kept))
  PROVE  /\ kept \in Seq(Nat) /\ ids \subseteq Pending(s)
         /\ TakenFits(ids, kept)
         /\ \A i \in ids, j \in Pending(s) : j < i => j \in ids
<1> DEFINE P == Pending(s)
           O == Oldest(P, MaxPerTurn)
           c == Cardinality(P)
<1>1. rows \in Seq(Row) /\ P \in SUBSET (1..Len(rows))
  BY DEF IInv, TypeInv, Pending
<1>2. /\ P \in SUBSET Int /\ IsFiniteSet(P) /\ c \in Nat /\ c # 0
      /\ MaxPerTurn \in Nat \ {0}
  <2>1. P \in SUBSET Int /\ IsFiniteSet(P)
    BY <1>1, TextsOfIs
  <2>2. c \in Nat /\ c # 0
    BY <2>1, FS_CardinalityType, FS_EmptySet
  <2>3. QED
    BY <2>1, <2>2, BridgeAssumption
<1> HIDE DEF P
<1>3. /\ O \subseteq P
      /\ Cardinality(O) = IF MaxPerTurn < c THEN MaxPerTurn ELSE c
      /\ \A k \in 1..Cardinality(O) : Ascending(O)[k] = Ascending(P)[k]
  BY <1>2, OldestIs
<1> HIDE DEF O
<1>4. /\ TextsOf(O) \in Seq(Texts) /\ Len(TextsOf(O)) = Cardinality(O)
      /\ \A k \in 1..Cardinality(O) :
           TextsOf(O)[k] = TextOf[rows[Ascending(O)[k]].object]
  <2>1. O \in SUBSET (1..Len(rows))
    BY <1>1, <1>3
  <2>2. QED
    BY <1>1, <2>1, TextsOfIs
<1>5. kept = FitHandoffs(TextsOf(O)) /\ ids = Oldest(P, Len(kept))
  BY DEF O, P
<1>6. /\ kept \in Seq(Nat) /\ Len(kept) \in 1..Cardinality(O)
      /\ Joined(kept) <= MaxContextChars
      /\ \A k \in 1..Len(kept) :
             k < Len(kept) => EndsOrBlank(kept[k], TextsOf(O)[k])
  <2>1. TextsOf(O) # <<>>
    BY <1>2, <1>3, <1>4
  <2>2. /\ kept \in Seq(Nat) /\ Len(kept) <= Len(TextsOf(O)) /\ Len(kept) > 0
        /\ \A k \in 1..Len(kept) :
             k < Len(kept) => EndsOrBlank(kept[k], TextsOf(O)[k])
    BY <1>4, <1>5, <2>1, FitHandoffsIs
  <2>3. Joined(kept) <= MaxContextChars
    BY <1>4, <1>5, JoinedFits
  <2>4. Len(kept) \in Nat /\ Cardinality(O) \in Nat
    BY <1>2, <1>3, <2>2
  <2>5. QED
    BY <1>4, <2>2, <2>3, <2>4
<1>7. /\ ids \subseteq P /\ Cardinality(ids) = Len(kept)
      /\ \A k \in 1..Len(kept) : Ascending(ids)[k] = Ascending(P)[k]
      /\ \A i \in ids, j \in P : j < i => j \in ids
  <2>1. Len(kept) \in Nat /\ Len(kept) <= c
    BY <1>2, <1>3, <1>6
  <2>2. /\ ids \subseteq P
        /\ Cardinality(ids) = IF Len(kept) < c THEN Len(kept) ELSE c
        /\ \A k \in 1..Cardinality(ids) : Ascending(ids)[k] = Ascending(P)[k]
        /\ \A i \in ids, j \in P : j < i => j \in ids
    BY <1>2, <1>5, <2>1, OldestIs
  <2>3. Cardinality(ids) = Len(kept)
    BY <1>2, <2>1, <2>2
  <2>4. QED
    BY <2>2, <2>3
<1>8. /\ Len(TextsOf(ids)) = Len(kept)
      /\ \A k \in 1..Len(kept) :
           TextsOf(ids)[k] = TextOf[rows[Ascending(ids)[k]].object]
  <2>1. ids \in SUBSET (1..Len(rows))
    BY <1>1, <1>7
  <2>2. QED
    BY <1>1, <1>7, <2>1, TextsOfIs
<1>9. ASSUME NEW k \in 1..Len(kept) - 1
      PROVE  EndsOrBlank(kept[k], TextsOf(ids)[k])
  <2>1. k \in 1..Len(kept) /\ k < Len(kept) /\ k \in 1..Cardinality(O)
    BY <1>2, <1>3, <1>6
  <2>2. TextsOf(ids)[k] = TextsOf(O)[k]
    BY <1>3, <1>4, <1>7, <1>8, <2>1
  <2>3. QED
    BY <1>6, <2>1, <2>2
<1>10. kept # <<>>
  BY <1>6
<1>11. TakenFits(ids, kept)
  BY <1>6, <1>8, <1>9, <1>10 DEF TakenFits
<1>12. QED
  BY <1>6, <1>7, <1>11 DEF P

\* Rows that are added change nothing for a claim.
LEMMA TakenStaysFitting ==
  ASSUME rows \in Seq(Row), rows' \in Seq(Row),
         1..Len(rows) \subseteq 1..Len(rows'),
         \A i \in 1..Len(rows) : rows'[i] = rows[i],
         NEW ids \in SUBSET (1..Len(rows)), NEW kept, TakenFits(ids, kept)
  PROVE  TakenFits(ids, kept)'
<1>1. /\ TextsOf(ids) \in Seq(Texts) /\ Len(TextsOf(ids)) = Cardinality(ids)
      /\ \A k \in 1..Cardinality(ids) :
           /\ Ascending(ids)[k] \in ids
           /\ TextsOf(ids)[k] = TextOf[rows[Ascending(ids)[k]].object]
  BY TextsOfIs
<1>2. TextsOf(ids)' = TextsOf(ids)
  <2>1. PICK c, place : c = Cardinality(ids) /\ place = Ascending(ids)
    OBVIOUS
  <2>2. /\ IsFiniteSet(ids) /\ ids \in SUBSET Int
    BY TextsOfIs
  <2>3. DOMAIN place = 1..c /\ \A k \in 1..c : place[k] \in 1..Len(rows)
    <3>1. place \in [1..c -> ids]
      BY <2>1, <2>2, AscendingIs
    <3>2. QED
      BY <3>1
  <2>4. /\ TextsOf(ids) = [k \in 1..c |-> TextOf[rows[place[k]].object]]
        /\ TextsOf(ids)' = [k \in 1..c |-> TextOf[rows'[place[k]].object]]
    BY <2>1, <2>3 DEF TextsOf
  <2>5. QED
    BY <2>3, <2>4
<1>3. QED
  BY <1>2 DEF TakenFits

\* A turn moves on with what it took.
LEMMA MovedTurnIsTyped ==
  ASSUME turn \in [Turns -> TurnState], NEW t \in Turns,
         turn[t].at \notin {"idle", "failed"},
         NEW next \in {"claimed", "lost", "injected"},
         turn' = [turn EXCEPT ![t].at = next]
  PROVE  turn' \in [Turns -> TurnState]
<1>1. turn[t] \in [at : {"claiming", "claimed", "lost", "injected"},
                   session : Sessions, ids : SUBSET Nat, kept : Seq(Nat)]
  <2>1. turn[t] \in TurnState
    OBVIOUS
  <2>2. QED
    BY <2>1 DEF TurnState
<1>2. PICK state : state = [turn[t] EXCEPT !.at = next]
  OBVIOUS
<1>3. state \in TurnState
  BY <1>1, <1>2 DEF TurnState
<1>4. turn' = [turn EXCEPT ![t] = state]
  BY <1>2
<1>5. QED
  BY <1>3, <1>4

LEMMA NextTypeOK ==
  ASSUME IInv, IInv', TypeOK, [Next]_vars
  PROVE  TypeOK'
<1>1. /\ bindings' \in [Threads -> Sessions \cup {None}]
      /\ rows' \in Seq(Row) /\ delivered' \subseteq 1..Len(rows')
      /\ stored' \subseteq 1..Len(rows') /\ worker' \in [Workers -> WorkerState]
  BY DEF IInv, TypeInv
<1>2. Cardinality(stored') <= MaxStored
  <2>1. ASSUME NEW w \in Workers, QueueHandoff(w)
        PROVE  Cardinality(stored') <= MaxStored
    <3>1. PICK ids : /\ stored' = Newest(ids)
                     /\ ids = stored \/ ids = stored \cup {Len(rows) + 1}
      <4>1. stored' = Newest(IF \E i \in stored : rows[i] = worker[w].row
                             THEN stored ELSE stored \cup {Len(rows) + 1})
        BY <2>1 DEF QueueHandoff
      <4>2. QED
        BY <4>1
    <3>2. Len(rows) \in Nat /\ stored \in SUBSET (1..Len(rows))
      BY DEF IInv, TypeInv
    <3>3. ids \in SUBSET Int /\ ids \in SUBSET (1..Len(rows) + 1)
      <4>1. \A i \in ids : i \in stored \/ i = Len(rows) + 1
        BY <3>1
      <4>2. \A i \in stored : i \in 1..Len(rows)
        BY <3>2
      <4>3. Len(rows) + 1 \in 1..Len(rows) + 1
            /\ \A i \in 1..Len(rows) : i \in 1..Len(rows) + 1
        BY <3>2
      <4>4. \A i \in ids : i \in 1..Len(rows) + 1
        BY <4>1, <4>2, <4>3
      <4>5. QED
        BY <4>4
    <3>4. IsFiniteSet(1..Len(rows) + 1)
      BY <3>2, FS_Interval
    <3>5. IsFiniteSet(ids)
      BY <3>3, <3>4, FS_Subset
    <3>6. QED
      BY <3>1, <3>3, <3>5, NewestAreFew
  <2>2. CASE stored' = stored
    BY <2>2 DEF TypeOK
  <2>3. QED
    BY <2>1, <2>2 DEF Next, PostToolCall, LookUpBinding, QueueFails, BeginTake,
       CommitTake, TakeFails, Inject, CrashBeforeInjection, tables, vars
<1>3. writer' \in Turns \cup {None}
  BY DEF TypeOK, Next, PostToolCall, LookUpBinding, QueueHandoff, QueueFails,
     BeginTake, CommitTake, TakeFails, Inject, CrashBeforeInjection, vars
<1>4. turn' \in [Turns -> TurnState]
  <2>1. ASSUME NEW t \in Turns, NEW s \in Sessions, BeginTake(t, s)
        PROVE  turn' \in [Turns -> TurnState]
    <3>1. PICK kept, ids, state :
            /\ kept = FitHandoffs(TextsOf(Oldest(Pending(s), MaxPerTurn)))
            /\ ids = Oldest(Pending(s), Len(kept))
            /\ state = [at |-> "claiming", session |-> s, ids |-> ids,
                        kept |-> kept]
            /\ turn' = [turn EXCEPT ![t] = state]
      BY <2>1 DEF BeginTake
    <3>2. Pending(s) # {}
      BY <2>1 DEF BeginTake
    <3>3. kept \in Seq(Nat) /\ ids \subseteq Pending(s)
      BY <3>1, <3>2, TakenIs
    <3>4. ids \subseteq Nat
      BY <3>3 DEF Pending, IInv, TypeInv
    <3>5. state \in TurnState
      BY <3>1, <3>3, <3>4 DEF TurnState
    <3>6. QED
      BY <3>1, <3>5 DEF TypeOK
  <2>2. ASSUME NEW t \in Turns, CommitTake(t)
        PROVE  turn' \in [Turns -> TurnState]
    BY <2>2, MovedTurnIsTyped DEF CommitTake, TypeOK
  <2>3. ASSUME NEW t \in Turns, Inject(t) \/ CrashBeforeInjection(t)
        PROVE  turn' \in [Turns -> TurnState]
    BY <2>3, MovedTurnIsTyped DEF Inject, CrashBeforeInjection, TypeOK
  <2>4. ASSUME NEW t \in Turns, TakeFails(t)
        PROVE  turn' \in [Turns -> TurnState]
    <3>1. [at |-> "failed"] \in TurnState
      BY DEF TurnState
    <3>2. QED
      BY <2>4, <3>1 DEF TakeFails, TypeOK
  <2>5. CASE turn' = turn
    BY <2>5 DEF TypeOK
  <2>6. QED
    BY <2>1, <2>2, <2>3, <2>4, <2>5 DEF Next, PostToolCall, LookUpBinding,
       QueueHandoff, QueueFails, vars
<1>5. acted' \subseteq Sessions \X Threads
  <2>1. ASSUME NEW s \in Sessions \cup Gateway, NEW th \in Threads,
               PostToolCall(s, th)
        PROVE  acted' \subseteq Sessions \X Threads
    BY <2>1 DEF PostToolCall, TypeOK
  <2>2. CASE acted' = acted
    BY <2>2 DEF TypeOK
  <2>3. QED
    BY <2>1, <2>2 DEF Next, LookUpBinding, QueueHandoff, QueueFails, BeginTake,
       CommitTake, TakeFails, Inject, CrashBeforeInjection, vars
<1>6. QED
  BY <1>1, <1>2, <1>3, <1>4, <1>5 DEF TypeOK

\* What the rows of the table say never changes.
LEMMA RowsOnlyGrow ==
  ASSUME IInv, [Next]_vars
  PROVE  /\ rows \in Seq(Row) /\ Len(rows) \in Nat
         /\ 1..Len(rows) \subseteq 1..Len(rows')
         /\ \A i \in 1..Len(rows) : rows'[i] = rows[i]
<1>1. rows \in Seq(Row) /\ Len(rows) \in Nat
  BY DEF IInv, TypeInv
<1>2. ASSUME NEW w \in Workers, QueueHandoff(w)
      PROVE  \/ rows' = rows
             \/ \E row \in Row : rows' = Append(rows, row)
  <2>1. worker[w].row \in Row
    BY <1>2 DEF IInv, TypeInv, WorkerState, QueueHandoff
  <2>2. QED
    BY <1>2, <2>1 DEF QueueHandoff
<1>3. rows' = rows \/ \E row \in Row : rows' = Append(rows, row)
  BY <1>2 DEF Next, PostToolCall, LookUpBinding, QueueFails, BeginTake,
     CommitTake, TakeFails, Inject, CrashBeforeInjection, tables, vars
<1>4. QED
  BY <1>1, <1>3

\* A claim fits when it is made, and its rows stay what they are.
LEMMA NextClaimedFits ==
  ASSUME IInv, IInv', ClaimedFits, [Next]_vars
  PROVE  ClaimedFits'
<1>1. \A t \in Turns : turn[t].at \notin {"idle", "failed"} =>
        /\ turn[t].ids \in SUBSET (1..Len(rows))
        /\ TakenFits(turn[t].ids, turn[t].kept)
  BY DEF IInv, TypeInv, ClaimedFits, TakenFits, EndsOrBlank
<1>2. /\ rows \in Seq(Row) /\ rows' \in Seq(Row)
      /\ 1..Len(rows) \subseteq 1..Len(rows')
      /\ \A i \in 1..Len(rows) : rows'[i] = rows[i]
  BY RowsOnlyGrow DEF IInv, TypeInv
<1>3. ASSUME NEW t \in Turns, turn'[t].at \notin {"idle", "failed"}
      PROVE  \/ /\ turn[t].at \notin {"idle", "failed"}
                /\ turn'[t].ids = turn[t].ids /\ turn'[t].kept = turn[t].kept
             \/ \E s \in Sessions : BeginTake(t, s)
  <2>0. t \in DOMAIN turn /\ turn = [u \in Turns |-> turn[u]]
    BY DEF IInv, TypeInv
  <2>1. CASE turn'[t] = turn[t]
    BY <1>3, <2>1
  <2>2. ASSUME NEW u \in Turns,
               \/ CommitTake(u) \/ Inject(u) \/ CrashBeforeInjection(u)
        PROVE  \/ turn'[t] = turn[t]
               \/ /\ turn[t].at \notin {"idle", "failed"}
                  /\ turn'[t].ids = turn[t].ids /\ turn'[t].kept = turn[t].kept
    <3>1. PICK next : /\ turn' = [turn EXCEPT ![u].at = next]
                      /\ turn[u].at \in {"claiming", "claimed"}
      BY <2>2 DEF CommitTake, Inject, CrashBeforeInjection
    <3>2. CASE u = t
      <4>1. /\ turn[t] = [at |-> turn[t].at, session |-> turn[t].session,
                          ids |-> turn[t].ids, kept |-> turn[t].kept]
        BY <3>1, <3>2 DEF IInv, TypeInv
      <4>2. turn'[t] = [turn[t] EXCEPT !.at = next]
        BY <2>0, <3>1, <3>2
      <4>3. QED
        BY <3>1, <3>2, <4>1, <4>2
    <3>3. CASE u # t
      BY <2>0, <3>1, <3>3
    <3>4. QED
      BY <3>2, <3>3
  <2>3. ASSUME NEW u \in Turns, TakeFails(u) PROVE turn'[t] = turn[t]
    <3>1. turn' = [turn EXCEPT ![u] = [at |-> "failed"]]
      BY <2>3 DEF TakeFails
    <3>2. u # t
      BY <1>3, <2>0, <3>1
    <3>3. QED
      BY <2>0, <3>1, <3>2
  <2>4. ASSUME NEW u \in Turns, NEW s \in Sessions, BeginTake(u, s), u # t
        PROVE  turn'[t] = turn[t]
    <3>1. \E state : turn' = [turn EXCEPT ![u] = state]
      BY <2>4 DEF BeginTake
    <3>2. QED
      BY <2>0, <2>4, <3>1
  <2>5. turn' = turn \/ \E u \in Turns :
          \/ CommitTake(u) \/ Inject(u) \/ CrashBeforeInjection(u)
          \/ TakeFails(u) \/ \E s \in Sessions : BeginTake(u, s)
    BY DEF Next, PostToolCall, LookUpBinding, QueueHandoff, QueueFails, vars
  <2>6. QED
    BY <2>1, <2>2, <2>3, <2>4, <2>5
<1>4. ASSUME NEW t \in Turns, turn'[t].at \notin {"idle", "failed"}
      PROVE  TakenFits(turn[t].ids, turn[t].kept)'
  <2>1. CASE /\ turn[t].at \notin {"idle", "failed"}
             /\ turn'[t].ids = turn[t].ids /\ turn'[t].kept = turn[t].kept
    <3>1. PICK ids, kept : ids = turn[t].ids /\ kept = turn[t].kept
      OBVIOUS
    <3>2. ids \in SUBSET (1..Len(rows)) /\ TakenFits(ids, kept)
      BY <1>1, <2>1, <3>1
    <3>3. TakenFits(ids, kept)'
      BY <1>2, <3>2, TakenStaysFitting
    <3>4. turn'[t].ids = ids /\ turn'[t].kept = kept
      BY <2>1, <3>1
    <3>5. QED
      BY <3>3, <3>4 DEF TakenFits, TextsOf
  <2>2. ASSUME NEW s \in Sessions, BeginTake(t, s)
        PROVE  TakenFits(turn[t].ids, turn[t].kept)'
    <3>1. PICK kept, ids :
            /\ kept = FitHandoffs(TextsOf(Oldest(Pending(s), MaxPerTurn)))
            /\ ids = Oldest(Pending(s), Len(kept))
            /\ turn' = [turn EXCEPT ![t] = [at |-> "claiming", session |-> s,
                                           ids |-> ids, kept |-> kept]]
            /\ Pending(s) # {}
      BY <2>2 DEF BeginTake
    <3>2. ids \subseteq Pending(s) /\ TakenFits(ids, kept)
      BY <3>1, TakenIs
    <3>3. ids \in SUBSET (1..Len(rows))
      BY <3>2 DEF Pending, IInv, TypeInv
    <3>4. TakenFits(ids, kept)'
      BY <1>2, <3>2, <3>3, TakenStaysFitting
    <3>5. turn'[t].ids = ids /\ turn'[t].kept = kept
      BY <3>1 DEF IInv, TypeInv
    <3>6. QED
      BY <3>4, <3>5 DEF TakenFits, TextsOf
  <2>3. QED
    BY <1>3, <1>4, <2>1, <2>2
<1>5. QED
  BY <1>4 DEF ClaimedFits, TakenFits, EndsOrBlank

LEMMA NextOldestFirst ==
  ASSUME IInv, OldestFirst, ClaimsInOrder, [Next]_vars
  PROVE  OldestFirst' /\ ClaimsInOrder'
<1>0. /\ DOMAIN turn = Turns /\ delivered \subseteq 1..Len(rows)
      /\ stored \subseteq 1..Len(rows)
      /\ rows \in Seq(Row) /\ Len(rows) \in Nat
  BY DEF IInv, TypeInv
<1>1. ASSUME NEW w \in Workers, QueueHandoff(w)
      PROVE  OldestFirst' /\ ClaimsInOrder'
  <2>1. \A t \in Turns : turn'[t].at # "claiming"
    BY <1>1, BridgeAssumption DEF QueueHandoff, IInv, ClaimInv
  <2>2. /\ delivered' = delivered
        /\ \A j \in stored' : j \in stored \/ j = Len(rows) + 1
    <3>1. stored' \subseteq stored \cup {Len(rows) + 1}
      BY <1>1 DEF QueueHandoff, Newest
    <3>2. QED
      BY <1>1, <3>1 DEF QueueHandoff
  <2>3. \A i \in 1..Len(rows) : rows'[i] = rows[i] /\ ~(Len(rows) + 1 < i)
    BY <1>0, RowsOnlyGrow
  <2>4. ASSUME NEW i \in delivered', NEW j \in stored', j < i,
               rows'[j].target = rows'[i].target
        PROVE  j \in delivered'
    <3>1. i \in delivered /\ i \in 1..Len(rows)
      BY <1>0, <2>2
    <3>2. j \in stored /\ j \in 1..Len(rows)
      BY <1>0, <2>2, <2>3, <2>4, <3>1
    <3>3. rows[j].target = rows[i].target
      BY <2>3, <2>4, <3>1, <3>2
    <3>4. QED
      BY <2>2, <2>4, <3>1, <3>2, <3>3 DEF OldestFirst
  <2>5. QED
    BY <2>1, <2>4 DEF OldestFirst, ClaimsInOrder
<1>2. ASSUME NEW t \in Turns, NEW s \in Sessions, BeginTake(t, s)
      PROVE  OldestFirst' /\ ClaimsInOrder'
  <2>1. PICK kept, ids :
          /\ kept = FitHandoffs(TextsOf(Oldest(Pending(s), MaxPerTurn)))
          /\ ids = Oldest(Pending(s), Len(kept))
          /\ turn' = [turn EXCEPT ![t] = [at |-> "claiming", session |-> s,
                                         ids |-> ids, kept |-> kept]]
          /\ Pending(s) # {}
    BY <1>2 DEF BeginTake
  <2>2. /\ ids \subseteq Pending(s)
        /\ \A i \in ids, j \in Pending(s) : j < i => j \in ids
    BY <2>1, TakenIs
  <2>3. /\ turn'[t].ids = ids
        /\ \A u \in Turns : u # t => turn'[u] = turn[u]
        /\ UNCHANGED <<rows, stored, delivered>>
    BY <1>0, <1>2, <2>1 DEF BeginTake, tables
  <2>4. ASSUME NEW i \in ids, NEW j \in stored, j < i,
               rows[j].target = rows[i].target
        PROVE  j \in delivered \cup ids
    <3>1. rows[j].target = s
      BY <2>2, <2>4 DEF Pending
    <3>2. CASE j \notin delivered
      BY <2>2, <2>4, <3>1, <3>2 DEF Pending
    <3>3. QED
      BY <3>2
  <2>5. QED
    BY <2>3, <2>4 DEF OldestFirst, ClaimsInOrder
<1>3. ASSUME NEW t \in Turns, CommitTake(t)
      PROVE  OldestFirst' /\ ClaimsInOrder'
  <2>1. /\ delivered' = delivered \cup turn[t].ids
        /\ UNCHANGED <<rows, stored>> /\ turn[t].at = "claiming"
    BY <1>3 DEF CommitTake
  <2>2. \A u \in Turns : turn'[u].at # "claiming"
    <3>1. turn'[t].at # "claiming"
      <4>1. turn[t] = [at |-> turn[t].at, session |-> turn[t].session,
                       ids |-> turn[t].ids, kept |-> turn[t].kept]
        BY <2>1 DEF IInv, TypeInv
      <4>2. turn'[t] = [turn[t] EXCEPT !.at = "claimed"]
        BY <1>0, <1>3 DEF CommitTake
      <4>3. QED
        BY <4>1, <4>2
    <3>2. \A u \in Turns : u # t => turn'[u] = turn[u] /\ turn[u].at # "claiming"
      BY <1>0, <1>3, <2>1 DEF CommitTake, IInv, ClaimInv
    <3>3. QED
      BY <3>1, <3>2
  <2>3. QED
    BY <2>1, <2>2 DEF OldestFirst, ClaimsInOrder
<1>4. CASE /\ UNCHANGED <<rows, stored, delivered>>
           /\ \A t \in Turns : turn'[t].at = "claiming" => turn'[t] = turn[t]
  BY <1>4 DEF OldestFirst, ClaimsInOrder
<1>5. ASSUME NEW t \in Turns,
             TakeFails(t) \/ Inject(t) \/ CrashBeforeInjection(t)
      PROVE  \A u \in Turns : turn'[u].at = "claiming" => turn'[u] = turn[u]
  <2>1. \A u \in Turns : u # t => turn'[u] = turn[u]
    BY <1>0, <1>5 DEF TakeFails, Inject, CrashBeforeInjection
  <2>2. turn'[t].at # "claiming"
    <3>1. CASE TakeFails(t)
      BY <1>0, <3>1 DEF TakeFails
    <3>2. CASE Inject(t) \/ CrashBeforeInjection(t)
      <4>1. turn[t] = [at |-> turn[t].at, session |-> turn[t].session,
                       ids |-> turn[t].ids, kept |-> turn[t].kept]
        BY <3>2 DEF IInv, TypeInv, Inject, CrashBeforeInjection
      <4>2. \/ turn'[t] = [turn[t] EXCEPT !.at = "injected"]
            \/ turn'[t] = [turn[t] EXCEPT !.at = "lost"]
        BY <1>0, <3>2 DEF Inject, CrashBeforeInjection
      <4>3. QED
        BY <4>1, <4>2
    <3>3. QED
      BY <1>5, <3>1, <3>2
  <2>3. QED
    BY <2>1, <2>2
<1>6. \/ \E w \in Workers : QueueHandoff(w)
      \/ \E t \in Turns : \/ CommitTake(t) \/ \E s \in Sessions : BeginTake(t, s)
                         \/ /\ TakeFails(t) \/ Inject(t) \/ CrashBeforeInjection(t)
                            /\ UNCHANGED <<rows, stored, delivered>>
      \/ UNCHANGED <<rows, stored, delivered, turn>>
  BY DEF Next, PostToolCall, LookUpBinding, QueueFails, TakeFails, Inject,
     CrashBeforeInjection, tables, vars
<1>7. QED
  BY <1>1, <1>2, <1>3, <1>4, <1>5, <1>6

\* Whatever crashes, evictions and interleavings there are, all state is typed:
\* in particular the table stays within MaxStored rows.
THEOREM TypeCorrect == Spec => []TypeOK
<1>1. Init => TypeOK
  <2>1. Cardinality({}) = 0 /\ MaxStored \in Nat
    BY FS_EmptySet, BridgeAssumption
  <2>2. QED
    BY <2>1 DEF Init, TypeOK, WorkerState, TurnState
<1>2. QED
  BY <1>1, InitIInv, NextIInv, NextTypeOK, PTL DEF Spec

\* Every session gets its results in the order in which they were queued.
THEOREM ResultsKeepTheirOrder == Spec => []OldestFirst
<1>1. Init => OldestFirst /\ ClaimsInOrder
  BY DEF Init, OldestFirst, ClaimsInOrder
<1>2. QED
  BY <1>1, InitIInv, NextIInv, NextOldestFirst, PTL DEF Spec

\* A claim holds a result, fits into the budget, and cuts a text before its
\* last one only in a long run of blanks.
THEOREM ClaimsFitTheBudget == Spec => []ClaimedFits
<1>1. Init => ClaimedFits
  BY DEF Init, ClaimedFits
<1>2. QED
  BY <1>1, InitIInv, NextIInv, NextClaimedFits, PTL DEF Spec

=============================================================================
