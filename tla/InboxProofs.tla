---------------------------- MODULE InboxProofs ----------------------------
(***************************************************************************)
(* Theorems about Inbox for every value of its constants.                  *)
(***************************************************************************)
EXTENDS Inbox, FiniteSetTheorems, SequenceTheorems, TLAPS

-----------------------------------------------------------------------------
(* The bounded thread history                                              *)

LEMMA AppendedNotice ==
  ASSUME inbox \in Seq(Notice), NEW n \in Notice
  PROVE  /\ Append(inbox, n) \in Seq(Notice)
         /\ Len(Append(inbox, n)) = Len(inbox) + 1
         /\ Len(inbox) \in Nat
         /\ \A c \in 1..Len(inbox) : Append(inbox, n)[c] = inbox[c]
  OBVIOUS

\* A post only ever leaves the window of its thread: what is deliverable after
\* an arrival was deliverable before.
LEMMA WindowShrinks ==
  ASSUME inbox \in Seq(Notice), NEW n \in Notice, NEW c \in 1..Len(inbox),
         Deliverable(Append(inbox, n), c)
  PROVE  Deliverable(inbox, c)
<1> DEFINE more == Append(inbox, n)
<1>1. /\ Len(more) = Len(inbox) + 1 /\ Len(inbox) \in Nat
      /\ \A d \in 1..Len(inbox) : more[d] = inbox[d]
  BY AppendedNotice
<1>2. Newer(inbox, c) \subseteq Newer(more, c)
  BY <1>1 DEF Newer
<1>3. IsFiniteSet(Newer(more, c))
  <2>1. IsFiniteSet(c + 1 .. Len(more))
    BY <1>1, FS_Interval
  <2>2. Newer(more, c) \subseteq c + 1 .. Len(more)
    BY DEF Newer
  <2>3. QED
    BY <2>1, <2>2, FS_Subset
<1>4. /\ IsFiniteSet(Newer(inbox, c))
      /\ Cardinality(Newer(inbox, c)) <= Cardinality(Newer(more, c))
  BY <1>2, <1>3, FS_Subset
<1>5. /\ Cardinality(Newer(inbox, c)) \in Nat
      /\ Cardinality(Newer(more, c)) \in Nat
  BY <1>3, <1>4, FS_CardinalityType
<1>6. InWindow(more, c) => InWindow(inbox, c)
  BY <1>4, <1>5, HistoryWindowAssumption DEF InWindow
<1>7. QED
  BY <1>1, <1>6 DEF Deliverable

-----------------------------------------------------------------------------
(* The inductive invariant                                                 *)

\* While a notice is in hand it is the one after the saved cursor, and between
\* notices the watcher stands at the saved cursor.
HandInv ==
  /\ conn = "watching" => saved # None
  /\ conn = "watching" /\ stage = "idle" => watched = saved
  /\ stage # "idle" => watched = saved + 1
  /\ stage \in {"context", "handling", "accepted"} =>
       /\ inbox[watched].kind = "post" /\ inbox[watched].defect = "none"
       /\ ~inbox[watched].own
  /\ stage = "projecting" =>
       ~inbox[watched].own /\ inbox[watched].defect # "overlong"
  /\ stage = "accepted" => watched \in handled

\* Where the first run started, and how far the scan of one can be.
StartInv ==
  /\ saved = None <=> base = None
  /\ saved # None => base <= saved /\ saved <= Len(inbox)
  /\ scan <= Len(inbox)
  /\ conn = "scanning" => saved = None /\ MayScan
  /\ HeadStart

\* Nothing beyond the next notice was handed to Hermes, and if the next one
\* was, without being in hand, an interruption is still to be paid for.
DeliveryInv ==
  /\ handled # {} => saved # None
  /\ \A c \in handled : c <= saved + 1
  /\ NoNoticeLost
  /\ RepeatsNeedInterruption
  /\ saved # None /\ saved + 1 \in handled /\ stage # "accepted" =>
       repeats + 1 <= failures + stops

IInv == TypeOK /\ HandInv /\ StartInv /\ DeliveryInv

LEMMA InitIInv == Init => IInv
  BY DEF Init, IInv, TypeOK, HandInv, StartInv, HeadStart, DeliveryInv,
         NoNoticeLost, RepeatsNeedInterruption

\* Losing what is in memory, by a failed step or a stop.
Interrupted ==
  /\ UNCHANGED <<inbox, saved, scan, handled, repeats, headAt, base, origin>>
  /\ conn' \in {"down", "fatal"} /\ stage' = "idle"
  /\ pages' \in Nat /\ watched' \in Nat
  /\ <<failures', stops'>> \in {<<failures + 1, stops>>, <<failures, stops + 1>>}

LEMMA InterruptedKeepsIInv ==
  ASSUME IInv, Interrupted
  PROVE  IInv'
<1>1. TypeOK'
  BY DEF IInv, TypeOK, Interrupted
<1>2. HandInv'
  BY DEF HandInv, Interrupted
<1>3. StartInv'
  BY DEF IInv, StartInv, HeadStart, Interrupted
<1>4. DeliveryInv'
  <2>1. NoNoticeLost'
    BY DEF IInv, DeliveryInv, NoNoticeLost, Interrupted
  <2>2. repeats \in Nat /\ failures \in Nat /\ stops \in Nat
    BY DEF IInv, TypeOK
  <2>3. repeats <= failures + stops
    BY DEF IInv, DeliveryInv, RepeatsNeedInterruption
  <2>4. repeats' + 1 <= failures' + stops'
    BY <2>2, <2>3 DEF Interrupted
  <2>5. RepeatsNeedInterruption'
    BY <2>2, <2>3 DEF RepeatsNeedInterruption, Interrupted
  <2>6. (handled # {} => saved # None)' /\ (\A c \in handled : c <= saved + 1)'
    BY DEF IInv, DeliveryInv, Interrupted
  <2>7. QED
    BY <2>1, <2>4, <2>5, <2>6 DEF DeliveryInv
<1>5. QED
  BY <1>1, <1>2, <1>3, <1>4 DEF IInv

\* The first cursor is committed: nothing was handled before it.
LEMMA FirstCommitKeepsIInv ==
  ASSUME IInv, saved = None, NEW c \in 0..Len(inbox),
         NEW from \in {"replay", "head", "cut"}, FirstCommit(c, from),
         from = "replay" => c = 0,
         from = "head" => headAt <= c,
         UNCHANGED <<inbox, scan, pages, handled, repeats, headAt, stops>>,
         failures' \in {failures, failures + 1}, stage' = "idle",
         \/ conn' = "watching" /\ watched' = c
         \/ conn' = "fatal" /\ watched' = watched
  PROVE  IInv'
<1>0. /\ Len(inbox) \in Nat /\ c \in Nat /\ None \notin Nat
      /\ repeats \in Nat /\ failures \in Nat /\ stops \in Nat
      /\ scan \in Nat /\ headAt \in Nat
  BY InboxAssumption DEF IInv, TypeOK
<1>1. handled = {} /\ saved' = c /\ base' = c /\ origin' = from
  BY DEF IInv, DeliveryInv, FirstCommit, CommitCursor
<1>2. TypeOK'
  BY <1>0, <1>1 DEF IInv, TypeOK
<1>3. HandInv'
  BY <1>0, <1>1 DEF HandInv
<1>4. StartInv'
  <2>1. HeadStart'
    BY <1>0, <1>1 DEF HeadStart
  <2>2. QED
    BY <1>0, <1>1, <2>1 DEF IInv, StartInv
<1>5. NoNoticeLost'
  BY <1>0, <1>1 DEF NoNoticeLost
<1>6. RepeatsNeedInterruption'
  <2>1. repeats <= failures + stops
    BY DEF IInv, DeliveryInv, RepeatsNeedInterruption
  <2>2. CASE failures' = failures
    BY <2>1, <2>2 DEF RepeatsNeedInterruption
  <2>3. CASE failures' = failures + 1
    <3>1. repeats <= failures + 1 + stops
      BY <1>0, <2>1
    <3>2. QED
      BY <2>3, <3>1 DEF RepeatsNeedInterruption
  <2>4. QED
    BY <2>2, <2>3
<1>7. DeliveryInv'
  BY <1>0, <1>1, <1>5, <1>6 DEF DeliveryInv
<1>8. QED
  BY <1>2, <1>3, <1>4, <1>7 DEF IInv

\* The notice after the saved cursor is settled: handled, or owed to nobody.
LEMMA CommitKeepsIInv ==
  ASSUME IInv, saved # None, saved + 1 <= Len(inbox), saved' = saved + 1,
         Deliverable(inbox, saved + 1) => saved + 1 \in handled,
         conn = "watching", conn' = "watching", stage' = "idle",
         watched' = saved + 1,
         UNCHANGED <<inbox, scan, pages, historyVars, boundVars>>
  PROVE  IInv'
<1>0. /\ Len(inbox) \in Nat /\ saved \in Nat /\ base \in Nat
      /\ None \notin Nat /\ handled \subseteq 1..Len(inbox)
  BY InboxAssumption DEF IInv, TypeOK, StartInv
<1>1. TypeOK'
  BY <1>0 DEF IInv, TypeOK, historyVars, boundVars
<1>2. HandInv'
  BY <1>0 DEF HandInv
<1>3. StartInv'
  BY <1>0 DEF IInv, StartInv, HeadStart, historyVars
<1>4. NoNoticeLost'
  <2>1. \A c \in base + 1 .. saved + 1 :
          Deliverable(inbox, c) => c \in handled
    BY <1>0 DEF IInv, DeliveryInv, NoNoticeLost
  <2>2. QED
    BY <2>1 DEF NoNoticeLost, historyVars
<1>5. /\ \A c \in handled : c <= saved' + 1
      /\ saved' + 1 \notin handled
  BY <1>0 DEF IInv, DeliveryInv
<1>6. RepeatsNeedInterruption'
  BY DEF IInv, DeliveryInv, RepeatsNeedInterruption, historyVars, boundVars
<1>7. DeliveryInv'
  BY <1>0, <1>4, <1>5, <1>6 DEF DeliveryInv, historyVars, boundVars
<1>8. QED
  BY <1>1, <1>2, <1>3, <1>7 DEF IInv

-----------------------------------------------------------------------------
(* Every step keeps the invariant                                          *)

\* A step inside the handling of one notice that moves only the stage.
LEMMA StageStepKeepsIInv ==
  ASSUME IInv, stage # "idle", stage' \in {"context", "handling"},
         stage # "accepted",
         /\ inbox[watched].kind = "post" /\ inbox[watched].defect = "none"
         /\ ~inbox[watched].own,
         UNCHANGED <<inbox, saved, conn, scan, pages, watched, historyVars,
                     boundVars>>
  PROVE  IInv'
<1>1. TypeOK'
  BY DEF IInv, TypeOK, historyVars, boundVars
<1>2. HandInv'
  BY DEF IInv, HandInv, historyVars
<1>3. StartInv'
  BY DEF IInv, StartInv, HeadStart, historyVars
<1>4. DeliveryInv'
  BY DEF IInv, DeliveryInv, NoNoticeLost, RepeatsNeedInterruption, historyVars,
         boundVars
<1>5. QED
  BY <1>1, <1>2, <1>3, <1>4 DEF IInv

LEMMA ReceiveKeepsIInv == IInv /\ Receive => IInv'
<1> SUFFICES ASSUME IInv, Receive PROVE IInv'
  OBVIOUS
<1>1. PICK n \in Notice : inbox' = Append(inbox, n)
  BY InboxAssumption DEF Receive
<1>2. UNCHANGED <<saved, connVars, historyVars, boundVars>>
  BY DEF Receive
<1>3. /\ inbox \in Seq(Notice) /\ inbox' \in Seq(Notice)
      /\ Len(inbox') = Len(inbox) + 1 /\ Len(inbox) \in Nat
      /\ \A c \in 1..Len(inbox) : inbox'[c] = inbox[c]
  BY <1>1, AppendedNotice DEF IInv, TypeOK
<1>4. TypeOK'
  BY <1>2, <1>3 DEF IInv, TypeOK, connVars, historyVars, boundVars
<1>5. HandInv'
  BY <1>2, <1>3 DEF IInv, TypeOK, HandInv, connVars, historyVars
<1>6. StartInv'
  <2>1. saved # None => saved \in Nat
    BY DEF IInv, TypeOK
  <2>2. QED
    BY <1>2, <1>3, <2>1
       DEF IInv, TypeOK, StartInv, HeadStart, connVars, historyVars
<1>7. NoNoticeLost'
  <2>1. ASSUME saved # None, NEW c \in base + 1 .. saved, Deliverable(inbox', c)
        PROVE  c \in handled
    <3>1. c \in 1..Len(inbox)
      BY <1>3, <2>1 DEF IInv, StartInv, TypeOK
    <3>2. Deliverable(inbox, c)
      BY <1>1, <1>3, <2>1, <3>1, WindowShrinks
    <3>3. QED
      BY <2>1, <3>2 DEF IInv, DeliveryInv, NoNoticeLost
  <2>2. QED
    BY <1>2, <2>1 DEF NoNoticeLost, historyVars
<1>8. DeliveryInv'
  BY <1>2, <1>7 DEF IInv, DeliveryInv, RepeatsNeedInterruption, connVars,
                    historyVars, boundVars
<1>9. QED
  BY <1>4, <1>5, <1>6, <1>8 DEF IInv

\* Any failed step that commits nothing.
LEMMA FatalKeepsIInv ==
  ASSUME IInv, Fatal,
         UNCHANGED <<inbox, saved, scan, pages, watched, historyVars, stops>>
  PROVE  IInv'
<1>1. Interrupted
  BY DEF Interrupted, Fatal, IInv, TypeOK, historyVars
<1>2. QED
  BY <1>1, InterruptedKeepsIInv

LEMMA ConnectKeepsIInv == IInv /\ Connect => IInv'
<1> SUFFICES ASSUME IInv, Connect PROVE IInv'
  OBVIOUS
<1>0. Len(inbox) \in Nat
  BY DEF IInv, TypeOK
<1>1. CASE Resume
  <2>1. saved \in Nat /\ stage = "idle"
    BY <1>1 DEF Resume, Disconnected, IInv, TypeOK
  <2>2. TypeOK' /\ HandInv'
    BY <1>1, <2>1 DEF Resume, Follow, IInv, TypeOK, HandInv, historyVars,
                      boundVars
  <2>3. StartInv'
    BY <1>1 DEF Resume, Follow, IInv, StartInv, HeadStart, historyVars
  <2>4. DeliveryInv'
    BY <1>1, <2>1 DEF Resume, Follow, IInv, DeliveryInv, NoNoticeLost,
                      RepeatsNeedInterruption, historyVars, boundVars
  <2>5. QED
    BY <2>2, <2>3, <2>4 DEF IInv
<1>2. CASE StartAtZero
  BY <1>0, <1>2, FirstCommitKeepsIInv
     DEF StartAtZero, Follow, boundVars
<1>3. CASE StartScan
  <2>1. stage = "idle" /\ base = None
    BY <1>3 DEF StartScan, Disconnected, IInv, TypeOK, StartInv
  <2>2. TypeOK' /\ HandInv'
    BY <1>0, <1>3, <2>1 DEF StartScan, IInv, TypeOK, HandInv, boundVars
  <2>3. StartInv'
    BY <1>0, <1>3, <2>1 DEF StartScan, IInv, StartInv, HeadStart
  <2>4. DeliveryInv'
    BY <1>3, <2>1 DEF StartScan, IInv, DeliveryInv, NoNoticeLost,
                      RepeatsNeedInterruption, boundVars
  <2>5. QED
    BY <2>2, <2>3, <2>4 DEF IInv
<1>4. CASE ScanPage
  <2>1. PageEnd \in Nat /\ PageEnd <= Len(inbox)
    BY <1>0, InboxAssumption DEF PageEnd, IInv, TypeOK
  <2>2. TypeOK' /\ HandInv'
    BY <1>4, <2>1 DEF ScanPage, IInv, TypeOK, HandInv, historyVars, boundVars
  <2>3. StartInv'
    BY <1>4, <2>1 DEF ScanPage, IInv, StartInv, HeadStart, historyVars
  <2>4. DeliveryInv'
    BY <1>4 DEF ScanPage, IInv, DeliveryInv, NoNoticeLost,
                RepeatsNeedInterruption, historyVars, boundVars
  <2>5. QED
    BY <2>2, <2>3, <2>4 DEF IInv
<1>5. CASE ScanEnds
  <2>1. scan \in 0..Len(inbox) /\ headAt <= scan /\ saved = None /\ MayScan
    BY <1>0, <1>5 DEF ScanEnds, IInv, TypeOK, StartInv
  <2>2. QED
    BY <1>5, <2>1, FirstCommitKeepsIInv
       DEF ScanEnds, Follow, boundVars
<1>6. CASE ScanCut
  <2>1. scan \in 0..Len(inbox) /\ saved = None
    BY <1>0, <1>6 DEF ScanCut, IInv, TypeOK, StartInv
  <2>2. QED
    BY <1>6, <2>1, FirstCommitKeepsIInv DEF ScanCut, Follow, boundVars
<1>7. QED
  BY <1>1, <1>2, <1>3, <1>4, <1>5, <1>6 DEF Connect

LEMMA WatchKeepsIInv == IInv /\ Watch => IInv'
<1> SUFFICES ASSUME IInv, Watch PROVE IInv'
  OBVIOUS
<1>0. Len(inbox) \in Nat /\ watched \in Nat
  BY DEF IInv, TypeOK
<1>1. ASSUME TakeNotice, SkippedAtOnce(inbox[watched + 1]) PROVE IInv'
  <2>1. saved # None /\ watched = saved /\ saved + 1 <= Len(inbox)
    BY <1>0, <1>1 DEF TakeNotice, IInv, HandInv
  <2>2. ~Deliverable(inbox, saved + 1)
    BY <1>1, <2>1 DEF Deliverable
  <2>3. QED
    BY <1>1, <2>1, <2>2, CommitKeepsIInv DEF TakeNotice, CommitCursor
<1>2. ASSUME TakeNotice, ~SkippedAtOnce(inbox[watched + 1]) PROVE IInv'
  <2>1. /\ saved # None /\ watched = saved
        /\ watched + 1 \in 1..Len(inbox) /\ ~inbox[watched + 1].own
        /\ inbox[watched + 1].defect # "overlong"
    BY <1>0, <1>2 DEF TakeNotice, IInv, HandInv, SkippedAtOnce
  <2>2. TypeOK' /\ HandInv'
    BY <1>0, <1>2, <2>1
       DEF TakeNotice, IInv, TypeOK, HandInv, historyVars, boundVars
  <2>3. StartInv'
    BY <1>2 DEF TakeNotice, IInv, StartInv, HeadStart, historyVars
  <2>4. DeliveryInv'
    BY <1>2 DEF TakeNotice, IInv, DeliveryInv, NoNoticeLost,
                RepeatsNeedInterruption, historyVars, boundVars
  <2>5. QED
    BY <2>2, <2>3, <2>4 DEF IInv
<1>3. CASE ProjectSkips
  <2>1. /\ conn = "watching" /\ saved # None /\ watched = saved + 1
        /\ watched <= Len(inbox)
    BY <1>0, <1>3 DEF ProjectSkips, IInv, TypeOK, HandInv
  <2>2. ~Deliverable(inbox, saved + 1)
    BY <1>3, <2>1 DEF ProjectSkips, ProjectNotice, Deliverable
  <2>3. QED
    BY <1>3, <2>1, <2>2, CommitKeepsIInv DEF ProjectSkips, CommitCursor
<1>4. CASE ProjectSucceeds
  <2>1. /\ inbox[watched].kind = "post" /\ inbox[watched].defect = "none"
        /\ ~inbox[watched].own
    <3>1. inbox[watched] \in Notice
      BY <1>4 DEF ProjectSucceeds, IInv, TypeOK
    <3>2. /\ inbox[watched].defect \in
               {"none", "malformed", "unverified", "overlong"}
          /\ inbox[watched].defect # "overlong"
      BY <1>4, <3>1 DEF Notice, ProjectSucceeds, IInv, HandInv
    <3>3. QED
      BY <1>4, <3>2 DEF ProjectSucceeds, ProjectNotice, IInv, HandInv
  <2>2. QED
    BY <1>4, <2>1, StageStepKeepsIInv DEF ProjectSucceeds
<1>5. CASE ContextReady
  <2>1. /\ inbox[watched].kind = "post" /\ inbox[watched].defect = "none"
        /\ ~inbox[watched].own
    BY <1>5 DEF ContextReady, IInv, HandInv
  <2>2. QED
    BY <1>5, <2>1, StageStepKeepsIInv DEF ContextReady
<1>6. CASE HermesAccepts
  <2>1. /\ conn = "watching" /\ saved # None /\ saved \in Nat
        /\ watched = saved + 1 /\ watched \in 1..Len(inbox)
    BY <1>6 DEF HermesAccepts, IInv, TypeOK, HandInv
  <2>2. repeats \in Nat /\ failures \in Nat /\ stops \in Nat
    BY DEF IInv, TypeOK
  <2>3. TypeOK' /\ HandInv'
    BY <1>6, <2>1, <2>2
       DEF HermesAccepts, IInv, TypeOK, HandInv, boundVars
  <2>4. StartInv'
    BY <1>6 DEF HermesAccepts, IInv, StartInv, HeadStart
  <2>5. RepeatsNeedInterruption'
    <3>1. CASE watched \in handled
      <4>1. repeats + 1 <= failures + stops
        BY <1>6, <2>1, <3>1 DEF HermesAccepts, IInv, DeliveryInv
      <4>2. QED
        BY <1>6, <3>1, <4>1
           DEF HermesAccepts, RepeatsNeedInterruption, boundVars
    <3>2. CASE watched \notin handled
      BY <1>6, <3>2 DEF HermesAccepts, IInv, DeliveryInv,
                        RepeatsNeedInterruption, boundVars
    <3>3. QED
      BY <3>1, <3>2
  <2>6. DeliveryInv'
    BY <1>6, <2>1, <2>5
       DEF HermesAccepts, IInv, DeliveryInv, NoNoticeLost, boundVars
  <2>7. QED
    BY <2>3, <2>4, <2>6 DEF IInv
<1>7. CASE CommitHandled
  <2>1. /\ conn = "watching" /\ saved # None /\ watched = saved + 1
        /\ watched <= Len(inbox) /\ watched \in handled
    BY <1>0, <1>7 DEF CommitHandled, IInv, TypeOK, HandInv
  <2>2. QED
    BY <1>7, <2>1, CommitKeepsIInv DEF CommitHandled, CommitCursor
<1>8. CASE LineTooLong
  <2>1. TypeOK' /\ HandInv'
    BY <1>8 DEF LineTooLong, IInv, TypeOK, HandInv, historyVars, boundVars
  <2>2. StartInv'
    BY <1>8 DEF LineTooLong, IInv, StartInv, HeadStart, historyVars
  <2>3. DeliveryInv'
    BY <1>8 DEF LineTooLong, IInv, DeliveryInv, NoNoticeLost,
                RepeatsNeedInterruption, historyVars, boundVars
  <2>4. QED
    BY <2>1, <2>2, <2>3 DEF IInv
<1>9. QED
  BY <1>1, <1>2, <1>3, <1>4, <1>5, <1>6, <1>7, <1>8 DEF Watch

LEMMA FailsKeepsIInv == IInv /\ Fails => IInv'
<1> SUFFICES ASSUME IInv, Fails PROVE IInv'
  OBVIOUS
<1>1. CASE ScanExceeded
  BY <1>1, FatalKeepsIInv DEF ScanExceeded
<1>2. CASE ConnectFails
  <2>1. CASE UNCHANGED <<saved, base, origin>>
    BY <1>2, <2>1, FatalKeepsIInv DEF ConnectFails, historyVars
  <2>2. ASSUME NEW c \in 0..Len(inbox), saved = None,
               NEW from \in {"replay", "head", "cut"}, FirstCommit(c, from),
               from = "replay" => c = 0,
               from = "head" => headAt <= c
        PROVE  IInv'
    BY <1>2, <2>2, FirstCommitKeepsIInv DEF ConnectFails, Fatal
  <2>3. CASE Disconnected /\ saved = None /\ FirstCommit(0, "replay")
    <3>1. 0 \in 0..Len(inbox)
      BY DEF IInv, TypeOK
    <3>2. QED
      BY <2>2, <2>3, <3>1
  <2>4. CASE /\ conn = "scanning"
             /\ FirstCommit(scan, IF scan < Len(inbox) THEN "cut" ELSE "head")
    <3>1. /\ scan \in 0..Len(inbox) /\ saved = None
          /\ ~(scan < Len(inbox)) => headAt <= scan
      BY <2>4 DEF IInv, TypeOK, StartInv
    <3>2. QED
      BY <2>2, <2>4, <3>1
  <2>5. QED
    BY <1>2, <2>1, <2>3, <2>4 DEF ConnectFails
<1>3. CASE ProjectFails
  BY <1>3, FatalKeepsIInv DEF ProjectFails
<1>4. CASE BridgeFails
  BY <1>4, FatalKeepsIInv DEF BridgeFails
<1>5. CASE HandleFails
  BY <1>5, FatalKeepsIInv DEF HandleFails
<1>6. CASE WatcherFails
  BY <1>6, FatalKeepsIInv DEF WatcherFails
<1>7. QED
  BY <1>1, <1>2, <1>3, <1>4, <1>5, <1>6 DEF Fails

LEMMA NextIInv == IInv /\ [Next]_vars => IInv'
<1> SUFFICES ASSUME IInv, [Next]_vars PROVE IInv'
  OBVIOUS
<1>1. CASE Stop
  <2>1. Interrupted
    BY <1>1 DEF Stop, Interrupted, IInv, TypeOK, historyVars
  <2>2. QED
    BY <2>1, InterruptedKeepsIInv
<1>2. CASE UNCHANGED vars
  <2>1. TypeOK' /\ HandInv'
    BY <1>2 DEF vars, connVars, historyVars, boundVars, IInv, TypeOK, HandInv
  <2>2. StartInv' /\ DeliveryInv'
    BY <1>2 DEF vars, connVars, historyVars, boundVars, IInv, StartInv,
                HeadStart, DeliveryInv, NoNoticeLost, RepeatsNeedInterruption
  <2>3. QED
    BY <2>1, <2>2 DEF IInv
<1>3. QED
  BY <1>1, <1>2, ReceiveKeepsIInv, ConnectKeepsIInv, WatchKeepsIInv,
     FailsKeepsIInv DEF Next

-----------------------------------------------------------------------------
(* Theorems                                                                *)

\* Type correctness of the loop, the scan and the histories.
THEOREM TypeCorrect == Spec => []TypeOK
<1>1. IInv => TypeOK
  BY DEF IInv
<1>2. QED
  BY <1>1, InitIInv, NextIInv, PTL DEF Spec

\* No crash, failure or cancellation makes the cursor pass a notice that is
\* still owed to Hermes.
THEOREM NothingIsLost == Spec => []NoNoticeLost
<1>1. IInv => NoNoticeLost
  BY DEF IInv, DeliveryInv
<1>2. QED
  BY <1>1, InitIInv, NextIInv, PTL DEF Spec

\* At any time at most one accepted event may be delivered again.
THEOREM RedeliveryIsBounded == Spec => []OneUncommitted
<1>1. IInv => OneUncommitted
  <2>1. IInv => \A c \in handled : saved # None /\ saved \in Nat /\ c \in Nat
                                  /\ c <= saved + 1
    BY DEF IInv, TypeOK, DeliveryInv
  <2>2. QED
    BY <2>1 DEF OneUncommitted
<1>2. QED
  BY <1>1, InitIInv, NextIInv, PTL DEF Spec

\* Every repeated delivery is paid for by a failure, a stop or a crash.
THEOREM RepeatsArePaidFor == Spec => []RepeatsNeedInterruption
<1>1. IInv => RepeatsNeedInterruption
  BY DEF IInv, DeliveryInv
<1>2. QED
  BY <1>1, InitIInv, NextIInv, PTL DEF Spec

\* A first run that scans sound pages delivers nothing that was there when its
\* scan began, one that replays delivers everything, and none starts beyond the
\* inbox.
THEOREM FirstRunStartsAtHead == Spec => []HeadStart
<1>1. IInv => HeadStart
  BY DEF IInv, StartInv
<1>2. QED
  BY <1>1, InitIInv, NextIInv, PTL DEF Spec

\* The step from a cursor: it stays, is first set, or moves to the next notice
\* once that is handled or owed to nobody.
LEMMA CursorStep ==
  ASSUME IInv, [Next]_vars
  PROVE  \/ saved' = saved
         \/ /\ saved = None /\ saved' \in 0..Len(inbox)
            /\ \/ MayReplay /\ saved' = 0
               \/ MayScan
            /\ UNCHANGED <<inbox, handled>>
         \/ /\ saved # None /\ saved' = saved + 1 /\ saved + 1 <= Len(inbox)
            /\ Deliverable(inbox, saved + 1) => saved + 1 \in handled
            /\ UNCHANGED <<inbox, handled>>
<1>0. Len(inbox) \in Nat /\ watched \in Nat /\ scan \in Nat
  BY DEF IInv, TypeOK
<1>1. CASE StartAtZero
  BY <1>0, <1>1 DEF StartAtZero, FirstCommit, CommitCursor
<1>2. CASE ScanEnds \/ ScanCut
  BY <1>0, <1>2 DEF ScanEnds, ScanCut, FirstCommit, CommitCursor, IInv, StartInv
<1>3. CASE ConnectFails
  BY <1>0, <1>3 DEF ConnectFails, FirstCommit, CommitCursor, IInv, StartInv
<1>4. CASE TakeNotice
  BY <1>0, <1>4 DEF TakeNotice, CommitCursor, IInv, HandInv, Deliverable,
                    historyVars
<1>5. CASE ProjectSkips
  <2>1. /\ saved # None /\ watched = saved + 1 /\ watched <= Len(inbox)
    BY <1>0, <1>5 DEF ProjectSkips, IInv, TypeOK, HandInv
  <2>2. ~Deliverable(inbox, saved + 1)
    BY <1>5, <2>1 DEF ProjectSkips, ProjectNotice, Deliverable
  <2>3. QED
    BY <1>5, <2>1, <2>2 DEF ProjectSkips, CommitCursor, historyVars
<1>6. CASE CommitHandled
  <2>1. /\ saved # None /\ watched = saved + 1 /\ watched <= Len(inbox)
        /\ watched \in handled
    BY <1>0, <1>6 DEF CommitHandled, IInv, TypeOK, HandInv
  <2>2. QED
    BY <1>6, <2>1 DEF CommitHandled, CommitCursor, historyVars
<1>7. CASE UNCHANGED saved
  BY <1>7
<1>8. QED
  <2>1. Receive \/ Stop \/ Resume \/ StartScan \/ ScanPage => UNCHANGED saved
    BY DEF Receive, Stop, Resume, StartScan, ScanPage
  <2>2. LineTooLong \/ ProjectSucceeds \/ ContextReady \/ HermesAccepts
          => UNCHANGED saved
    BY DEF LineTooLong, ProjectSucceeds, ContextReady, HermesAccepts
  <2>3. ScanExceeded \/ ProjectFails \/ BridgeFails \/ HandleFails \/ WatcherFails
          => UNCHANGED saved
    BY DEF ScanExceeded, ProjectFails, BridgeFails, HandleFails, WatcherFails
  <2>4. UNCHANGED vars => UNCHANGED saved
    BY DEF vars
  <2>5. QED
    BY <1>1, <1>2, <1>3, <1>4, <1>5, <1>6, <1>7, <2>1, <2>2, <2>3, <2>4
       DEF Next, Connect, Watch, Fails

\* The saved cursor never goes back.
THEOREM CursorIsMonotone == Spec => CursorNeverBack
<1>1. IInv /\ [Next]_vars =>
        [saved # None => saved' # None /\ saved <= saved']_vars
  <2> SUFFICES ASSUME IInv, [Next]_vars, saved # None
               PROVE  saved' # None /\ saved <= saved'
    OBVIOUS
  <2>1. saved \in Nat /\ None \notin Nat
    BY InboxAssumption DEF IInv, TypeOK
  <2>2. saved' = saved \/ saved' = saved + 1
    BY CursorStep
  <2>3. QED
    BY <2>1, <2>2
<1>2. QED
  BY <1>1, InitIInv, NextIInv, PTL DEF Spec, CursorNeverBack

\* The only step that hands an event to Hermes hands over the next one.
LEMMA HandledStep ==
  ASSUME IInv, [Next]_vars
  PROVE  \/ handled' = handled
         \/ /\ saved # None /\ saved + 1 <= Len(inbox)
            /\ inbox[saved + 1].kind = "post"
            /\ ~inbox[saved + 1].own /\ inbox[saved + 1].defect = "none"
            /\ handled' = handled \cup {saved + 1}
            /\ UNCHANGED <<inbox, saved>>
<1>0. Len(inbox) \in Nat /\ watched \in Nat
  BY DEF IInv, TypeOK
<1>1. CASE HermesAccepts
  BY <1>0, <1>1 DEF HermesAccepts, IInv, TypeOK, HandInv
<1>2. CASE UNCHANGED handled
  BY <1>2
<1>3. QED
  <2>1. Receive \/ Stop => UNCHANGED handled
    BY DEF Receive, Stop, historyVars
  <2>2. Connect => UNCHANGED handled
    BY DEF Connect, Resume, StartAtZero, StartScan, ScanPage, ScanEnds, ScanCut,
           historyVars
  <2>3. TakeNotice \/ LineTooLong \/ ProjectSkips \/ ProjectSucceeds
          \/ ContextReady \/ CommitHandled => UNCHANGED handled
    BY DEF TakeNotice, LineTooLong, ProjectSkips, ProjectSucceeds, ContextReady,
           CommitHandled, historyVars
  <2>4. Fails => UNCHANGED handled
    BY DEF Fails, ScanExceeded, ConnectFails, ProjectFails, BridgeFails,
           HandleFails, WatcherFails, historyVars
  <2>5. UNCHANGED vars => UNCHANGED handled
    BY DEF vars, historyVars
  <2>6. QED
    BY <1>1, <1>2, <2>1, <2>2, <2>3, <2>4, <2>5 DEF Next, Watch

LEMMA InboxStep ==
  ASSUME IInv, [Next]_vars
  PROVE  \/ inbox' = inbox
         \/ /\ \E n \in Notice : inbox' = Append(inbox, n)
            /\ UNCHANGED <<saved, handled>>
<1>1. Receive => \E n \in Notice : inbox' = Append(inbox, n)
  BY InboxAssumption DEF Receive
<1>2. Receive => UNCHANGED <<saved, handled>>
  BY DEF Receive, historyVars
<1>3. Stop \/ Connect => UNCHANGED inbox
  BY DEF Stop, Connect, Resume, StartAtZero, StartScan, ScanPage, ScanEnds,
     ScanCut
<1>4. Watch => UNCHANGED inbox
  BY DEF Watch, TakeNotice, LineTooLong, ProjectSkips, ProjectSucceeds,
         ContextReady, HermesAccepts, CommitHandled
<1>5. Fails => UNCHANGED inbox
  BY DEF Fails, ScanExceeded, ConnectFails, ProjectFails, BridgeFails,
         HandleFails, WatcherFails
<1>6. UNCHANGED vars => UNCHANGED inbox
  BY DEF vars
<1>7. QED
  BY <1>1, <1>2, <1>3, <1>4, <1>5, <1>6 DEF Next

\* The watch loop with its crashes and reconnects implements the ordered
\* at-least-once feed: every step is a step of the feed or invisible to it.
THEOREM ImplementsFeed == Spec => FeedSpec
<1>1. Init => Feed!Init
  BY DEF Init, Feed!Init
<1>2. IInv /\ [Next]_vars => [Feed!Next]_(Feed!vars)
  <2> SUFFICES ASSUME IInv, [Next]_vars PROVE [Feed!Next]_(Feed!vars)
    OBVIOUS
  <2>0. /\ Len(inbox) \in Nat /\ saved # None => saved \in Nat
    BY DEF IInv, TypeOK
  <2>1. CASE inbox' # inbox
    BY <2>1, InboxStep DEF Feed!Next, Feed!Arrive, Feed!Notice, Notice
  <2>2. CASE handled' # handled
    <3>1. saved # None /\ saved < Len(inbox)
      BY <2>0, <2>2, HandledStep
    <3>2. Feed!Handle
      BY <2>2, <3>1, HandledStep DEF Feed!Handle
    <3>3. QED
      BY <3>2 DEF Feed!Next
  <2>3. CASE saved' # saved
    <3>1. CASE saved = None
      BY <2>3, <3>1, CursorStep DEF Feed!Next, Feed!Begin
    <3>2. CASE saved # None
      <4>1. saved < Len(inbox)
        BY <2>0, <2>3, <3>2, CursorStep
      <4>2. Feed!Deliverable(inbox, saved + 1) => Deliverable(inbox, saved + 1)
        BY DEF Feed!Deliverable, Feed!SkippedAtOnce, Feed!InWindow, Feed!Newer,
               Feed!Cardinality, Deliverable, SkippedAtOnce, InWindow, Newer,
               Cardinality
      <4>3. Feed!Settle
        BY <2>3, <3>2, <4>1, <4>2, CursorStep DEF Feed!Settle
      <4>4. QED
        BY <4>3 DEF Feed!Next
    <3>3. QED
      BY <3>1, <3>2
  <2>4. QED
    BY <2>1, <2>2, <2>3 DEF Feed!vars
<1>3. QED
  BY <1>1, <1>2, InitIInv, NextIInv, PTL DEF Spec, FeedSpec, Feed!Spec

=============================================================================
