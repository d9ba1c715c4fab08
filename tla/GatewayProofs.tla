--------------------------- MODULE GatewayProofs ---------------------------
(***************************************************************************)
(* Proofs about Gateway: beside workers that answer, posts that come back  *)
(* and processes that die, the inbound half does what Inbox says, the      *)
(* outbound half what SignedLog says, and an answer is swallowed only when *)
(* the binding of its event had to go.                                     *)
(*                                                                         *)
(* The outbound half is taken with its theorems: PublicationProofs is      *)
(* instantiated for the constants of Gateway, which meet its assumption.   *)
(***************************************************************************)
EXTENDS Gateway, InboxProofs, DataLemmas

\* The inbox within its bound; what Hermes accepted is not the adapter's own.
EventInv ==
  /\ Len(inbox) <= MaxInbox
  /\ \A c \in handled : ~inbox[c].own

\* An answer in the making, or made: in a thread, to an accepted event.
Answers(x) == x.chat \in Threads /\ x.reply \in handled

TurnType ==
  [at : {"free", "working", "streaming", "sent", "withheld", "dropped",
         "refused", "gone"},
   event : Nat \cup {None}, since : Nat, draft : Nat]

TurnInv ==
  /\ worker \in [Workers -> TurnType]
  /\ disconnects \in Nat /\ draftSeq \in Nat
  /\ \A w \in Workers : worker[w].at # "free" => worker[w].event \in handled

\* Every answer on its way, from the preview to the log.
AnswerInv ==
  /\ \A d \in DOMAIN drafts : Answers(drafts[d])
  /\ DOMAIN pc = Workers /\ DOMAIN job = Workers
  /\ \A w \in Workers : pc[w] # "idle" => Answers(job[w])
  /\ \A r \in inflight \cup posts : Answers(r)

GInv == IInv /\ EventInv /\ TurnInv /\ AnswerInv

LEMMA InitGInv == GatewayInit => GInv
<1> SUFFICES ASSUME GatewayInit PROVE GInv
  OBVIOUS
<1>1. IInv
  BY InitIInv DEF GatewayInit
<1>2. EventInv
  BY InboxAssumption DEF GatewayInit, Init, EventInv
<1>3. TurnInv
  <2>1. [at |-> "free", event |-> None, since |-> 0, draft |-> 0] \in TurnType
    BY DEF TurnType
  <2>2. worker \in [Workers -> TurnType]
    BY <2>1 DEF GatewayInit
  <2>3. QED
    BY <2>2 DEF GatewayInit, Out!Init, TurnInv
<1>4. AnswerInv
  BY DEF GatewayInit, Out!Init, AnswerInv
<1>5. QED
  BY <1>1, <1>2, <1>3, <1>4 DEF GInv

-----------------------------------------------------------------------------
(* The inbound half                                                        *)

\* An event stays accepted, and whose it is stays the same.
LEMMA EventStep ==
  ASSUME IInv, EventInv, [Next]_vars, Len(inbox') <= MaxInbox
  PROVE  EventInv' /\ handled \subseteq handled'
<1>1. inbox \in Seq(Notice) /\ handled \subseteq 1..Len(inbox)
  BY DEF IInv, TypeOK
<1>2. CASE handled' = handled
  <2>1. \A c \in handled : inbox'[c] = inbox[c]
    <3>1. CASE inbox' = inbox
      BY <3>1
    <3>2. CASE \E n \in Notice : inbox' = Append(inbox, n)
      BY <1>1, <3>2, AppendedNotice
    <3>3. QED
      BY <3>1, <3>2, InboxStep
  <2>2. QED
    BY <1>2, <2>1 DEF EventInv
<1>3. CASE handled' # handled
  BY <1>3, HandledStep DEF EventInv
<1>4. QED
  BY <1>2, <1>3

\* What the adapter signs comes back as a notice that may arrive.
LEMMA EchoArrives ==
  ASSUME NEW r, r.chat \in Threads
  PROVE  [kind |-> "post", own |-> TRUE, defect |-> "none", thread |-> r.chat]
           \in Arriving
BY GatewayAssumption

\* Every step of the whole adapter is a step of the inbound half or leaves that
\* alone.
LEMMA InboundStep ==
  ASSUME GInv, [GatewayNext]_gatewayVars
  PROVE  [Next]_vars /\ Len(inbox') <= MaxInbox
<1>0. Len(inbox) \in Nat /\ Len(inbox) <= MaxInbox /\ MaxInbox \in Nat
      /\ inbox \in Seq(Notice)
  BY InboxAssumption DEF GInv, IInv, TypeOK, EventInv
<1>1. CASE InboundAlone
  <2>1. Next
    BY <1>1 DEF InboundAlone, Next, Watch
  <2>2. Len(inbox') <= MaxInbox
    <3>1. CASE Receive
      <4>1. PICK n \in Notice : inbox' = Append(inbox, n)
        BY <3>1, InboxAssumption DEF Receive
      <4>2. Len(inbox) < MaxInbox
        BY <3>1 DEF Receive
      <4>3. QED
        BY <1>0, <4>1, <4>2, AppendedNotice
    <3>2. CASE ~Receive
      <4>1. inbox' = inbox
        BY <1>1, <3>2 DEF InboundAlone, Connect, Resume, StartAtZero, StartScan,
             ScanPage, ScanEnds, ScanCut, TakeNotice, LineTooLong, ProjectSkips,
             ContextReady, CommitHandled, Fails, ScanExceeded, ConnectFails,
             ProjectFails, BridgeFails, HandleFails, WatcherFails
      <4>2. QED
        BY <1>0, <4>1
    <3>3. QED
      BY <3>1, <3>2
  <2>3. QED
    BY <2>1, <2>2
<1>2. CASE AcceptNotice
  BY <1>0, <1>2 DEF AcceptNotice, ProjectSucceeds, Next, Watch
<1>3. CASE Disconnect \/ Crash
  BY <1>0, <1>3 DEF Disconnect, Crash, Stop, Next
<1>4. ASSUME NEW r \in inflight, Sign(r)
      PROVE  [Next]_vars /\ Len(inbox') <= MaxInbox
  <2>1. CASE inbox' = inbox
    BY <1>0, <1>4, <2>1 DEF Sign, vars
  <2>2. CASE inbox' # inbox
    <3>1. Len(inbox) < MaxInbox
      BY <1>0, <1>4, <2>2 DEF Sign
    <3>2. PICK n \in Arriving : inbox' = Append(inbox, n)
      <4>1. r.chat \in Threads
        BY <1>4 DEF GInv, AnswerInv, Answers
      <4>2. QED
        BY <1>4, <2>2, <4>1, EchoArrives DEF Sign
    <3>3. Receive
      BY <1>4, <3>1, <3>2 DEF Sign, Receive
    <3>4. Len(inbox') <= MaxInbox
      BY <1>0, <3>1, <3>2, InboxAssumption, AppendedNotice
    <3>5. QED
      BY <3>3, <3>4 DEF Next
  <2>3. QED
    BY <2>1, <2>2
<1>5. ASSUME NEW w \in Workers, StartTurn(w)
      PROVE  [Next]_vars /\ Len(inbox') <= MaxInbox
  BY <1>0, <1>5 DEF StartTurn, HermesAccepts, Next, Watch
<1>6. CASE UNCHANGED inVars
  BY <1>0, <1>6 DEF inVars, vars
<1>7. QED
  <2>1. OutboundAlone => UNCHANGED inVars
    BY DEF OutboundAlone
  <2>2. ASSUME NEW w \in Workers, Turn(w), ~StartTurn(w)
        PROVE  UNCHANGED inVars
    BY <2>2 DEF Turn, FinalizePreview, SendFinal, DropFinal, SendPreview,
                RefusePreview, Retry
  <2>3. UNCHANGED gatewayVars => UNCHANGED inVars
    BY DEF gatewayVars
  <2>4. QED
    BY <1>1, <1>2, <1>3, <1>4, <1>5, <1>6, <2>1, <2>2, <2>3 DEF GatewayNext

-----------------------------------------------------------------------------
(* The turns                                                               *)

LEMMA ThreadOfEvent ==
  ASSUME GInv, NEW w \in Workers, worker[w].at # "free"
  PROVE  ThreadOf[worker[w].event] \in Threads
<1>1. PICK n \in Nat : n = Len(inbox)
  BY DEF GInv, IInv, TypeOK
<1>2. worker[w].event \in 1..MaxInbox
  <2>1. n <= MaxInbox /\ MaxInbox \in Nat
    BY <1>1, InboxAssumption DEF GInv, EventInv
  <2>2. handled \subseteq 1..n
    BY <1>1 DEF GInv, IInv, TypeOK
  <2>3. worker[w].event \in 1..n
    BY <2>2 DEF GInv, TurnInv
  <2>4. \A e \in 1..n : e \in 1..MaxInbox
    BY <2>1
  <2>5. QED
    BY <2>3, <2>4
<1>3. QED
  BY <1>2, GatewayAssumption

\* Where a turn stands changes, but not which event it is about.
LEMMA ToldKeepsTurnInv ==
  ASSUME TurnInv, handled \subseteq handled', draftSeq' \in Nat,
         disconnects' \in Nat, NEW w \in Workers, worker[w].at # "free",
         NEW at \in {"streaming", "sent", "withheld", "dropped", "refused"},
         worker' = [worker EXCEPT ![w].at = at]
  PROVE  TurnInv'
<1>1. worker' \in [Workers -> TurnType]
  BY DEF TurnInv, TurnType
<1>2. \A v \in Workers : worker'[v].event = worker[v].event
                         /\ (v # w => worker'[v].at = worker[v].at)
  BY DEF TurnInv, TurnType
<1>3. QED
  BY <1>1, <1>2 DEF TurnInv

LEMMA TurnStep ==
  ASSUME GInv, [GatewayNext]_gatewayVars, handled \subseteq handled'
  PROVE  TurnInv'
<1>0. /\ disconnects \in Nat /\ draftSeq \in Nat /\ TurnInv
      /\ worker \in [Workers -> TurnType]
  BY DEF GInv, TurnInv
<1>1. ASSUME NEW w \in Workers, StartTurn(w) PROVE TurnInv'
  <2>1. PICK turn \in TurnType :
          /\ turn = [at |-> "working", event |-> watched, since |-> disconnects,
                     draft |-> 0]
    <3>1. watched \in Nat
      BY DEF GInv, IInv, TypeOK
    <3>2. QED
      BY <1>0, <3>1 DEF TurnType
  <2>2. worker' = [worker EXCEPT ![w] = turn]
    BY <1>1, <2>1 DEF StartTurn
  <2>3. turn.event \in handled'
    BY <1>1, <2>1 DEF StartTurn, HermesAccepts
  <2>4. draftSeq' = draftSeq /\ disconnects' = disconnects
    BY <1>1 DEF StartTurn, outVars
  <2>5. QED
    BY <1>0, <2>2, <2>3, <2>4 DEF TurnInv
<1>2. CASE Crash
  <2>1. /\ draftSeq' = draftSeq /\ disconnects' = disconnects + 1
        /\ handled' = handled
    BY <1>2 DEF Crash, Stop, historyVars
  <2>2. ASSUME NEW w \in Workers
        PROVE  /\ worker'[w] \in TurnType /\ worker'[w].event = worker[w].event
               /\ worker[w].at = "free" => worker'[w].at = "free"
    <3>1. CASE worker[w].at \in {"working", "streaming"}
      <4>1. worker'[w] = [worker[w] EXCEPT !.at = "gone"]
        BY <1>2, <3>1 DEF Crash
      <4>2. worker[w] \in TurnType
        BY <1>0
      <4>3. QED
        BY <3>1, <4>1, <4>2 DEF TurnType
    <3>2. CASE worker[w].at \notin {"working", "streaming"}
      <4>1. worker'[w] = worker[w]
        BY <1>2, <3>2 DEF Crash
      <4>2. QED
        BY <1>0, <4>1
    <3>3. QED
      BY <3>1, <3>2
  <2>3. worker' \in [Workers -> TurnType]
    BY <1>2, <2>2 DEF Crash
  <2>4. \A w \in Workers : worker'[w].at # "free" => worker'[w].event \in handled'
    BY <1>0, <2>1, <2>2 DEF TurnInv
  <2>5. QED
    BY <1>0, <2>1, <2>3, <2>4 DEF TurnInv
<1>3. ASSUME NEW w \in Workers, NEW content \in Contents, NEW meta \in Metadata,
             SendPreview(w, content, meta)
      PROVE  TurnInv'
  <2>1. PICK n \in Nat : n = draftSeq + 1
    BY <1>0
  <2>2. /\ worker' = [worker EXCEPT ![w].at = "streaming", ![w].draft = n]
        /\ draftSeq' = n /\ disconnects' = disconnects
        /\ worker[w].at # "free"
    BY <1>3, <2>1 DEF SendPreview, Out!SendBuffer, Out!historyVars
  <2>3. worker' \in [Workers -> TurnType]
    BY <1>0, <2>2 DEF TurnType
  <2>4. \A v \in Workers : /\ worker'[v].event = worker[v].event
                           /\ v # w => worker'[v].at = worker[v].at
    BY <1>0, <2>2 DEF TurnType
  <2>5. QED
    BY <1>0, <2>2, <2>3, <2>4 DEF TurnInv
<1>4. ASSUME NEW w \in Workers, NEW content \in Contents, NEW meta \in Metadata,
             SendFinal(w, content, meta)
      PROVE  TurnInv'
  <2>1. /\ draftSeq' = draftSeq /\ disconnects' = disconnects
        /\ worker' = [worker EXCEPT ![w].at = "sent"] /\ worker[w].at # "free"
    BY <1>4 DEF SendFinal, Told, Out!SendPublish, Out!adapterVars,
                Out!historyVars
  <2>2. QED
    BY <1>0, <2>1, ToldKeepsTurnInv
<1>5. ASSUME NEW w \in Workers, NEW content \in Contents, NEW meta \in Metadata,
             DropFinal(w, content, meta)
      PROVE  TurnInv'
  <2>1. /\ draftSeq' = draftSeq /\ disconnects' = disconnects
        /\ worker[w].at # "free"
    BY <1>5 DEF DropFinal, outVars
  <2>2. \/ worker' = [worker EXCEPT ![w].at = "withheld"]
        \/ worker' = [worker EXCEPT ![w].at = "dropped"]
    BY <1>5 DEF DropFinal, Told
  <2>3. QED
    BY <1>0, <2>1, <2>2, ToldKeepsTurnInv
<1>6. ASSUME NEW w \in Workers, NEW content \in Contents,
             FinalizePreview(w, content)
      PROVE  TurnInv'
  <2>1. /\ draftSeq' = draftSeq /\ disconnects' = disconnects
        /\ worker' = [worker EXCEPT ![w].at = "sent"] /\ worker[w].at # "free"
    BY <1>6 DEF FinalizePreview, Told, Out!EditFinalize
  <2>2. QED
    BY <1>0, <2>1, ToldKeepsTurnInv
<1>7. ASSUME NEW w \in Workers, RefusePreview(w) PROVE TurnInv'
  <2>1. /\ draftSeq' = draftSeq /\ disconnects' = disconnects
        /\ worker' = [worker EXCEPT ![w].at = "refused"] /\ worker[w].at # "free"
    BY <1>7 DEF RefusePreview, Told, outVars
  <2>2. QED
    BY <1>0, <2>1, ToldKeepsTurnInv
<1>8. ASSUME NEW w \in Workers, NEW v \in Workers, Retry(w, v) PROVE TurnInv'
  <2>1. PICK again \in TurnType :
          again = [worker[w] EXCEPT !.at = IF worker[w].draft = 0
                                           THEN "working" ELSE "streaming"]
    BY <1>0 DEF TurnType
  <2>2. /\ worker' = [worker EXCEPT ![w].at = "gone", ![v] = again]
        /\ worker[w].at = "sent" /\ w # v /\ again.event = worker[w].event
        /\ draftSeq' = draftSeq /\ disconnects' = disconnects
    BY <1>0, <1>8, <2>1 DEF Retry, outVars, TurnType
  <2>3. worker' \in [Workers -> TurnType]
    BY <1>0, <2>2 DEF TurnType
  <2>4. /\ worker'[v] = again /\ worker'[w].event = worker[w].event
        /\ \A u \in Workers \ {w, v} : worker'[u] = worker[u]
    BY <1>0, <2>2 DEF TurnType
  <2>5. QED
    BY <1>0, <2>2, <2>3, <2>4 DEF TurnInv
<1>9. CASE /\ UNCHANGED <<worker, draftSeq>>
           /\ disconnects' \in {disconnects, disconnects + 1}
  BY <1>0, <1>9 DEF TurnInv
<1>10. QED
  <2>1. InboundAlone => UNCHANGED <<worker, draftSeq, disconnects>>
    BY DEF InboundAlone, outVars
  <2>2. OutboundAlone => UNCHANGED <<worker, draftSeq, disconnects>>
    BY DEF OutboundAlone, Out!Tick, Out!Publish, Out!Cancel, Out!ReuseRecent,
           Out!StartPost, Out!PostSucceeds, Out!PostFails, Out!adapterVars,
           Out!historyVars
  <2>3. AcceptNotice => UNCHANGED <<worker, draftSeq, disconnects>>
    BY DEF AcceptNotice, Out!RememberAcceptedReply
  <2>4. Disconnect => UNCHANGED <<worker, draftSeq>> /\ disconnects' = disconnects + 1
    BY DEF Disconnect, Out!Disconnect
  <2>5. ASSUME NEW r \in inflight, Sign(r)
        PROVE  UNCHANGED <<worker, draftSeq, disconnects>>
    BY <2>5 DEF Sign, Out!DaemonPosts, Out!adapterVars, Out!historyVars
  <2>6. UNCHANGED gatewayVars => UNCHANGED <<worker, draftSeq, disconnects>>
    BY DEF gatewayVars, outVars
  <2>7. ASSUME NEW w \in Workers, Turn(w) PROVE TurnInv'
    BY <1>1, <1>3, <1>4, <1>5, <1>6, <1>7, <1>8, <2>7 DEF Turn
  <2>8. QED
    BY <1>2, <1>9, <2>1, <2>2, <2>3, <2>4, <2>5, <2>6, <2>7 DEF GatewayNext

-----------------------------------------------------------------------------
(* The answers                                                             *)

LEMMA WithoutDraft ==
  ASSUME NEW d, drafts' = Out!Without(drafts, d)
  PROVE  DOMAIN drafts' \subseteq DOMAIN drafts
         /\ \A e \in DOMAIN drafts' : drafts'[e] = drafts[e]
BY DEF Out!Without, Out!Restrict

\* Answers that stay what they are stay owed.
LEMMA StillAnswers ==
  ASSUME AnswerInv, handled \subseteq handled', DOMAIN pc' = Workers,
         job' = job,
         \A w \in Workers : pc'[w] # "idle" => pc[w] # "idle",
         DOMAIN drafts' \subseteq DOMAIN drafts,
         \A d \in DOMAIN drafts' : drafts'[d] = drafts[d],
         inflight' \cup posts' \subseteq inflight \cup posts
  PROVE  AnswerInv'
BY DEF AnswerInv, Answers

LEMMA PublishKeepsAnswerInv ==
  ASSUME AnswerInv, handled \subseteq handled', NEW w \in Workers,
         Out!Publish(w)
  PROVE  AnswerInv'
<1>1. CASE Out!StartPost(w)
  <2>1. Answers(Out!RequestAt(job[w], now))
    BY <1>1 DEF Out!StartPost, Out!RequestAt, AnswerInv, Answers
  <2>2. QED
    BY <1>1, <2>1 DEF Out!StartPost, Out!adapterVars, AnswerInv, Answers
<1>2. CASE Out!ReuseRecent(w) \/ Out!PostSucceeds(w)
  <2>1. /\ DOMAIN drafts' \subseteq DOMAIN drafts
        /\ \A d \in DOMAIN drafts' : drafts'[d] = drafts[d]
    BY <1>2, WithoutDraft DEF Out!ReuseRecent, Out!PostSucceeds,
       Out!DropPublished
  <2>2. /\ pc' = [pc EXCEPT ![w] = "acked"] /\ pc[w] # "idle" /\ job' = job
        /\ inflight' = inflight /\ posts' = posts
    BY <1>2 DEF Out!ReuseRecent, Out!PostSucceeds, Out!mmVars
  <2>3. DOMAIN pc' = Workers /\ \A v \in Workers : pc'[v] # "idle" => pc[v] # "idle"
    BY <2>2 DEF AnswerInv
  <2>4. QED
    BY <2>1, <2>2, <2>3, StillAnswers
<1>3. CASE Out!PostFails(w)
  <2>1. /\ drafts' = drafts /\ job' = job /\ posts' = posts
        /\ pc' = [pc EXCEPT ![w] = "failed"] /\ pc[w] # "idle"
        /\ inflight' \subseteq inflight
    BY <1>3 DEF Out!PostFails, Out!adapterVars
  <2>2. QED
    BY <2>1, StillAnswers DEF AnswerInv
<1>4. QED
  BY <1>1, <1>2, <1>3 DEF Out!Publish

LEMMA AnswerStep ==
  ASSUME GInv, [GatewayNext]_gatewayVars, handled \subseteq handled'
  PROVE  AnswerInv'
<1>0. AnswerInv
  BY DEF GInv
<1>1. CASE InboundAlone \/ AcceptNotice \/ Disconnect \/ UNCHANGED gatewayVars
  <2>1. /\ UNCHANGED <<pc, job, inflight, posts>>
        /\ drafts' = drafts \/ DOMAIN drafts' = {}
    BY <1>1 DEF InboundAlone, AcceptNotice, Disconnect, gatewayVars, outVars,
       Out!RememberAcceptedReply, Out!Disconnect, Out!taskVars, Out!mmVars
  <2>2. QED
    BY <1>0, <2>1, StillAnswers DEF AnswerInv
<1>2. CASE OutboundAlone
  <2>1. CASE Out!Tick
    BY <1>0, <2>1, StillAnswers DEF Out!Tick, Out!adapterVars, Out!taskVars,
       Out!mmVars, AnswerInv
  <2>2. ASSUME NEW w \in Workers, Out!Cancel(w) PROVE AnswerInv'
    <3>1. /\ drafts' = drafts /\ job' = job /\ posts' = posts
          /\ inflight' = inflight
          /\ pc' = [pc EXCEPT ![w] = "cancelled"] /\ pc[w] # "idle"
      BY <2>2 DEF Out!Cancel, Out!adapterVars, Out!mmVars
    <3>2. QED
      BY <1>0, <3>1, StillAnswers DEF AnswerInv
  <2>3. QED
    BY <1>0, <1>2, <2>1, <2>2, PublishKeepsAnswerInv DEF OutboundAlone
<1>3. CASE Crash
  <2>1. /\ UNCHANGED <<job, inflight, posts>> /\ DOMAIN drafts' = {}
        /\ DOMAIN pc' = Workers
        /\ \A w \in Workers : pc'[w] # "idle" => pc[w] # "idle"
    BY <1>3 DEF Crash
  <2>2. QED
    BY <1>0, <2>1, StillAnswers
<1>4. ASSUME NEW r \in inflight, Sign(r) PROVE AnswerInv'
  <2>1. /\ UNCHANGED <<drafts, job, pc>>
        /\ inflight' \cup posts' \subseteq inflight \cup posts
    BY <1>4 DEF Sign, Out!DaemonPosts, Out!adapterVars, Out!taskVars
  <2>2. QED
    BY <1>0, <2>1, StillAnswers DEF AnswerInv
<1>5. ASSUME NEW w \in Workers, NEW content \in Contents, NEW meta \in Metadata,
             SendFinal(w, content, meta)
      PROVE  AnswerInv'
  <2>1. ThreadOf[worker[w].event] \in Threads /\ worker[w].event \in handled
    BY <1>5, ThreadOfEvent DEF SendFinal, GInv, TurnInv
  <2>2. PICK j : j = [chat |-> ThreadOf[worker[w].event], content |-> content,
                      reply |-> worker[w].event, meta |-> meta, draft |-> 0,
                      asked |-> now]
    OBVIOUS
  <2>3. /\ UNCHANGED <<drafts, inflight, posts>>
        /\ job' = [job EXCEPT ![w] = j]
        /\ pc' = [pc EXCEPT ![w] = "waiting"]
    BY <1>5, <2>2 DEF SendFinal, Out!SendPublish, Out!Enqueue, Out!adapterVars,
                      Out!mmVars
  <2>4. Answers(j)'
    BY <2>1, <2>2 DEF Answers
  <2>5. QED
    BY <1>0, <2>3, <2>4 DEF AnswerInv, Answers
<1>6. ASSUME NEW w \in Workers, NEW content \in Contents, NEW meta \in Metadata,
             SendPreview(w, content, meta)
      PROVE  AnswerInv'
  <2>1. ThreadOf[worker[w].event] \in Threads /\ worker[w].event \in handled
    BY <1>6, ThreadOfEvent DEF SendPreview, GInv, TurnInv
  <2>2. /\ UNCHANGED <<pc, job, inflight, posts>>
        /\ \A d \in DOMAIN drafts' :
             \/ d \in DOMAIN drafts /\ drafts'[d] = drafts[d]
             \/ drafts'[d] = [chat |-> ThreadOf[worker[w].event],
                              content |-> content, reply |-> worker[w].event,
                              meta |-> meta]
    BY <1>6 DEF SendPreview, Out!SendBuffer, Out!taskVars, Out!mmVars
  <2>3. \A d \in DOMAIN drafts' : Answers(drafts[d])'
    BY <1>0, <2>1, <2>2 DEF AnswerInv, Answers
  <2>4. QED
    BY <1>0, <2>2, <2>3 DEF AnswerInv, Answers
<1>7. ASSUME NEW w \in Workers, NEW content \in Contents,
             FinalizePreview(w, content)
      PROVE  AnswerInv'
  <2>1. PICK d \in DOMAIN drafts : d = worker[w].draft
    BY <1>7 DEF FinalizePreview, Out!EditFinalize
  <2>2. PICK j : j = [chat |-> drafts[d].chat, content |-> content,
                      reply |-> drafts[d].reply, meta |-> drafts[d].meta,
                      draft |-> d, asked |-> now]
    OBVIOUS
  <2>3. /\ UNCHANGED <<inflight, posts>>
        /\ drafts' = [drafts EXCEPT ![d].content = content]
        /\ job' = [job EXCEPT ![w] = j]
        /\ pc' = [pc EXCEPT ![w] = "waiting"]
    BY <1>7, <2>1, <2>2 DEF FinalizePreview, Out!EditFinalize, Out!Enqueue,
                            Out!mmVars
  <2>4. Answers(j)'
    BY <1>0, <2>2 DEF AnswerInv, Answers
  <2>5. \A e \in DOMAIN drafts' : /\ e \in DOMAIN drafts
                                 /\ drafts'[e].chat = drafts[e].chat
                                 /\ drafts'[e].reply = drafts[e].reply
    BY <2>3
  <2>6. QED
    BY <1>0, <2>3, <2>4, <2>5 DEF AnswerInv, Answers
<1>8. ASSUME NEW w \in Workers,
             \/ StartTurn(w) \/ RefusePreview(w)
             \/ \E v \in Workers : Retry(w, v)
             \/ \E content \in Contents, meta \in Metadata :
                   DropFinal(w, content, meta)
      PROVE  AnswerInv'
  <2>1. UNCHANGED <<drafts, pc, job, inflight, posts>>
    BY <1>8 DEF StartTurn, RefusePreview, Retry, DropFinal, outVars
  <2>2. QED
    BY <1>0, <2>1, StillAnswers DEF AnswerInv
<1>9. QED
  <2>1. ASSUME NEW w \in Workers, Turn(w) PROVE AnswerInv'
    BY <1>5, <1>6, <1>7, <1>8, <2>1 DEF Turn
  <2>2. QED
    BY <1>1, <1>2, <1>3, <1>4, <2>1 DEF GatewayNext

LEMMA NextGInv == GInv /\ [GatewayNext]_gatewayVars => GInv'
<1> SUFFICES ASSUME GInv, [GatewayNext]_gatewayVars PROVE GInv'
  OBVIOUS
<1>1. [Next]_vars /\ Len(inbox') <= MaxInbox
  BY InboundStep
<1>2. IInv' /\ EventInv' /\ handled \subseteq handled'
  BY <1>1, NextIInv, EventStep DEF GInv
<1>3. TurnInv' /\ AnswerInv'
  BY <1>2, TurnStep, AnswerStep
<1>4. QED
  BY <1>2, <1>3 DEF GInv

-----------------------------------------------------------------------------
(* The outbound half, instantiated                                         *)

\* The outbound half with what is proved about it.
OutP == INSTANCE PublicationProofs
          WITH Objects <- 1..MaxInbox, Tasks <- Workers, MaxDisconnects <- MaxStops

\* Publication's assumptions hold of the constants it is given here.
LEMMA OutboundAssumption ==
  /\ ThreadOf \in [1..MaxInbox -> Threads]
  /\ None \notin 1..MaxInbox \cup Workers \cup SuppliedKeys
  /\ Empty \notin Operational
  /\ Metadata \subseteq
       [micromeet_publish : BOOLEAN, notify : BOOLEAN, expect_edits : BOOLEAN,
        idempotency_key : SuppliedKeys \cup {None},
        reply_to_message_id : 1..MaxInbox \cup {None}]
  /\ {MaxDrafts, MaxReplies, MaxRecent, Window} \subseteq Nat \ {0}
  /\ {MaxDraftSeq, MaxTime, MaxStops} \subseteq Nat
BY GatewayAssumption, InboxAssumption

-----------------------------------------------------------------------------
(* The actions of the two instances are the same                           *)

LEMMA SameClassify ==
  ASSUME NEW content, NEW reply, NEW meta, NEW follow
  PROVE  Out!ClassifyOutbound(content, reply, meta, follow)
           = OutP!ClassifyOutbound(content, reply, meta, follow)
BY DEF Out!ClassifyOutbound, OutP!ClassifyOutbound, Out!MayPublish,
   OutP!MayPublish, Out!MayBuffer, OutP!MayBuffer,
   Out!IsOperationalOutput, OutP!IsOperationalOutput

LEMMA SameFollowReply ==
  ASSUME NEW chat, NEW reply
  PROVE  Out!AcceptedFollowReply(chat, reply)
           = OutP!AcceptedFollowReply(chat, reply)
BY DEF Out!AcceptedFollowReply, OutP!AcceptedFollowReply, Out!Range, OutP!Range

LEMMA SameSendPublish ==
  ASSUME NEW t, NEW chat, NEW content, NEW reply, NEW meta,
         Out!SendPublish(t, chat, content, reply, meta)
  PROVE  OutP!SendPublish(t, chat, content, reply, meta)
BY SameClassify, SameFollowReply
   DEF Out!SendPublish, OutP!SendPublish, Out!Enqueue, OutP!Enqueue,
       Out!adapterVars, OutP!adapterVars, Out!mmVars, OutP!mmVars,
       Out!historyVars, OutP!historyVars

LEMMA SameCardinality ==
  \A S : /\ Out!Cardinality(S) = Cardinality(S)
         /\ OutP!Cardinality(S) = Cardinality(S)
BY DEF Out!Cardinality, OutP!Cardinality, Cardinality

LEMMA SameSendBuffer ==
  ASSUME NEW chat, NEW content, NEW reply, NEW meta,
         Out!SendBuffer(chat, content, reply, meta)
  PROVE  OutP!SendBuffer(chat, content, reply, meta)
BY SameClassify, SameFollowReply, SameCardinality
   DEF Out!SendBuffer, OutP!SendBuffer, Out!taskVars, OutP!taskVars,
       Out!mmVars, OutP!mmVars, Out!historyVars, OutP!historyVars

LEMMA SameEditFinalize ==
  ASSUME NEW t, NEW chat, NEW d, NEW content,
         Out!EditFinalize(t, chat, d, content)
  PROVE  OutP!EditFinalize(t, chat, d, content)
BY DEF Out!EditFinalize, OutP!EditFinalize, Out!Enqueue, OutP!Enqueue,
       Out!IsOperationalOutput, OutP!IsOperationalOutput, Out!mmVars,
       OutP!mmVars

LEMMA SameRemember ==
  ASSUME NEW o, Out!RememberAcceptedReply(o)
  PROVE  OutP!RememberAcceptedReply(o)
BY DEF Out!RememberAcceptedReply, OutP!RememberAcceptedReply, Out!Remembered,
       OutP!Remembered, Out!Range, OutP!Range, Out!mmVars, OutP!mmVars,
       Out!taskVars, OutP!taskVars

LEMMA SameKeys ==
  ASSUME NEW t, NEW j, NEW time
  PROVE  /\ Out!Fingerprint(j) = OutP!Fingerprint(j)
         /\ Out!CacheHit(Out!Fingerprint(j)) = OutP!CacheHit(OutP!Fingerprint(j))
         /\ Out!DeliveryKey(j, time) = OutP!DeliveryKey(j, time)
         /\ Out!RequestAt(j, time) = OutP!RequestAt(j, time)
         /\ Out!RequestOf(t) = OutP!RequestOf(t)
         /\ Out!KeyOf(t) = OutP!KeyOf(t)
         /\ Out!DropPublished(t) = OutP!DropPublished(t)
<1>1. \A i : Out!StableReply(i) = OutP!StableReply(i)
  BY DEF Out!StableReply, OutP!StableReply
<1>2. \A i, s : Out!DeliveryKey(i, s) = OutP!DeliveryKey(i, s)
  BY <1>1 DEF Out!DeliveryKey, OutP!DeliveryKey
<1>3. \A i, s : Out!RequestAt(i, s) = OutP!RequestAt(i, s)
  BY <1>2 DEF Out!RequestAt, OutP!RequestAt
<1>4. /\ Out!Fingerprint(j) = OutP!Fingerprint(j)
      /\ Out!CacheHit(Out!Fingerprint(j)) = OutP!CacheHit(OutP!Fingerprint(j))
  BY DEF Out!Fingerprint, OutP!Fingerprint, Out!CacheHit, OutP!CacheHit
<1>5. Out!RequestOf(t) = OutP!RequestOf(t) /\ Out!KeyOf(t) = OutP!KeyOf(t)
  BY <1>2, <1>3 DEF Out!RequestOf, OutP!RequestOf, Out!KeyOf, OutP!KeyOf
<1>6. Out!DropPublished(t) = OutP!DropPublished(t)
  BY DEF Out!DropPublished, OutP!DropPublished, Out!Without, OutP!Without,
         Out!Restrict, OutP!Restrict
<1>7. QED
  BY <1>2, <1>3, <1>4, <1>5, <1>6

LEMMA SamePublish ==
  ASSUME NEW t, Out!Publish(t)
  PROVE  OutP!Publish(t)
<1>1. CASE Out!ReuseRecent(t)
  BY <1>1, SameKeys DEF Out!ReuseRecent, OutP!ReuseRecent, Out!mmVars,
     OutP!mmVars, Out!historyVars, OutP!historyVars, OutP!Publish
<1>2. CASE Out!StartPost(t)
  BY <1>2, SameKeys DEF Out!StartPost, OutP!StartPost, Out!adapterVars,
     OutP!adapterVars, Out!historyVars, OutP!historyVars, OutP!Publish
<1>3. CASE Out!PostSucceeds(t)
  <2>1. \A f, e : Out!CacheWith(f, e) = OutP!CacheWith(f, e)
    BY SameCardinality DEF Out!CacheWith, OutP!CacheWith, Out!Without, OutP!Without,
       Out!Restrict, OutP!Restrict
  <2>2. QED
    BY <1>3, <2>1, SameKeys DEF Out!PostSucceeds, OutP!PostSucceeds,
       Out!mmVars, OutP!mmVars, Out!historyVars, OutP!historyVars, OutP!Publish
<1>4. CASE Out!PostFails(t)
  BY <1>4, SameKeys DEF Out!PostFails, OutP!PostFails, Out!adapterVars,
     OutP!adapterVars, Out!historyVars, OutP!historyVars, OutP!Publish
<1>5. QED
  BY <1>1, <1>2, <1>3, <1>4 DEF Out!Publish

LEMMA SameOthers ==
  /\ \A t : Out!Cancel(t) => OutP!Cancel(t)
  /\ Out!Disconnect => OutP!Disconnect
  /\ \A r : Out!DaemonPosts(r) => OutP!DaemonPosts(r)
  /\ Out!Tick => OutP!Tick
<1>1. ASSUME NEW t, Out!Cancel(t) PROVE OutP!Cancel(t)
  BY <1>1 DEF Out!Cancel, OutP!Cancel, Out!adapterVars, OutP!adapterVars,
     Out!mmVars, OutP!mmVars, Out!historyVars, OutP!historyVars
<1>2. ASSUME Out!Disconnect PROVE OutP!Disconnect
  BY <1>2 DEF Out!Disconnect, OutP!Disconnect, Out!taskVars, OutP!taskVars,
     Out!mmVars, OutP!mmVars
<1>3. ASSUME NEW r, Out!DaemonPosts(r) PROVE OutP!DaemonPosts(r)
  BY <1>3 DEF Out!DaemonPosts, OutP!DaemonPosts, Out!adapterVars,
     OutP!adapterVars, Out!taskVars, OutP!taskVars, Out!historyVars,
     OutP!historyVars
<1>4. ASSUME Out!Tick PROVE OutP!Tick
  BY <1>4 DEF Out!Tick, OutP!Tick, Out!adapterVars, OutP!adapterVars,
     Out!taskVars, OutP!taskVars, Out!mmVars, OutP!mmVars, Out!historyVars,
     OutP!historyVars
<1>5. QED
  BY <1>1, <1>2, <1>3, <1>4

-----------------------------------------------------------------------------
(* The outbound half                                                       *)

LEMMA EventIsPost ==
  ASSUME GInv, NEW c \in 1..Len(inbox)
  PROVE  c \in 1..MaxInbox
BY InboxAssumption DEF GInv, EventInv, IInv, TypeOK

LEMMA TurnEvent ==
  ASSUME GInv, NEW w \in Workers, worker[w].at # "free"
  PROVE  worker[w].event \in 1..MaxInbox
<1>1. worker[w].event \in handled /\ handled \subseteq 1..Len(inbox)
  BY DEF GInv, TurnInv, IInv, TypeOK
<1>2. QED
  BY <1>1, EventIsPost

\* What the outbound half keeps.
LEMMA OutboundIdle ==
  ASSUME UNCHANGED outVars
  PROVE  UNCHANGED OutP!vars
BY DEF outVars, OutP!vars, OutP!adapterVars, OutP!taskVars, OutP!mmVars,
       OutP!historyVars

LEMMA CrashForgets ==
  ASSUME OutP!OutboundInv, Crash
  PROVE  OutP!Forget
BY DEF Crash, OutP!Forget, OutP!mmVars

\* Every step of the whole adapter is a step of the outbound half, leaves that
\* alone, or is a crash.
LEMMA OutboundStep ==
  ASSUME GInv, [GatewayNext]_gatewayVars
  PROVE  [OutP!Next]_(OutP!vars) \/ Crash
<1>1. CASE InboundAlone \/ UNCHANGED gatewayVars
  BY <1>1, OutboundIdle DEF InboundAlone, gatewayVars
<1>2. CASE OutboundAlone
  BY <1>2, SamePublish, SameOthers DEF OutboundAlone, OutP!Next
<1>3. CASE AcceptNotice
  <2>1. watched \in 1..MaxInbox
    <3>1. watched \in 1..Len(inbox)
      BY <1>3 DEF AcceptNotice, ProjectSucceeds, GInv, IInv, TypeOK
    <3>2. QED
      BY <3>1, EventIsPost
  <2>2. OutP!RememberAcceptedReply(watched)
    BY <1>3, SameRemember DEF AcceptNotice
  <2>3. QED
    BY <2>1, <2>2 DEF OutP!Next, OutP!Hermes
<1>4. CASE Disconnect
  BY <1>4, SameOthers DEF Disconnect, OutP!Next
<1>5. ASSUME NEW r \in inflight, Sign(r) PROVE OutP!Next
  BY <1>5, SameOthers DEF Sign, OutP!Next
<1>6. ASSUME NEW w \in Workers, Turn(w) PROVE [OutP!Next]_(OutP!vars)
  <2>1. CASE \/ StartTurn(w) \/ RefusePreview(w)
             \/ \E v \in Workers : Retry(w, v)
             \/ \E content \in Contents, meta \in Metadata :
                   DropFinal(w, content, meta)
    BY <2>1, OutboundIdle DEF StartTurn, RefusePreview, Retry, DropFinal
  <2>2. ASSUME worker[w].at # "free"
        PROVE  ThreadOf[worker[w].event] \in Threads
               /\ worker[w].event \in 1..MaxInbox
    BY <2>2, ThreadOfEvent, TurnEvent
  <2>3. ASSUME NEW content \in Contents, FinalizePreview(w, content)
        PROVE  OutP!Next
    <3>1. OutP!EditFinalize(w, ThreadOf[worker[w].event], worker[w].draft,
                            content)
      BY <2>3, SameEditFinalize DEF FinalizePreview
    <3>2. worker[w].draft \in DOMAIN drafts
      BY <3>1 DEF OutP!EditFinalize
    <3>3. QED
      BY <2>2, <2>3, <3>1, <3>2 DEF FinalizePreview, OutP!Next, OutP!Hermes
  <2>4. ASSUME NEW content \in Contents, NEW meta \in Metadata,
               SendFinal(w, content, meta)
        PROVE  OutP!Next
    BY <2>2, <2>4, SameSendPublish DEF SendFinal, OutP!Next, OutP!Hermes
  <2>5. ASSUME NEW content \in Contents, NEW meta \in Metadata,
               SendPreview(w, content, meta)
        PROVE  OutP!Next
    BY <2>2, <2>5, SameSendBuffer DEF SendPreview, OutP!Next, OutP!Hermes
  <2>6. QED
    BY <1>6, <2>1, <2>3, <2>4, <2>5 DEF Turn
<1>7. QED
  BY <1>1, <1>2, <1>3, <1>4, <1>5, <1>6 DEF GatewayNext

LEMMA InitOutbound == GatewayInit => OutP!OutboundInv /\ Log!Init
<1> SUFFICES ASSUME GatewayInit PROVE OutP!OutboundInv /\ Log!Init
  OBVIOUS
<1>1. OutP!Init
  BY DEF GatewayInit, Out!Init, OutP!Init
<1>2. OutP!OutboundInv
  BY <1>1, OutboundAssumption, OutP!InitOutbound
<1>3. Log!Init
  BY <1>1 DEF OutP!Init, Log!Init
<1>4. QED
  BY <1>2, <1>3

LEMMA NextOutbound ==
  GInv /\ OutP!OutboundInv /\ [GatewayNext]_gatewayVars
    => OutP!OutboundInv' /\ [Log!Next]_(Log!vars)
<1> SUFFICES ASSUME GInv, OutP!OutboundInv, [GatewayNext]_gatewayVars
             PROVE  OutP!OutboundInv' /\ [Log!Next]_(Log!vars)
  OBVIOUS
<1>1. CASE [OutP!Next]_(OutP!vars)
  <2>1. OutP!OutboundInv'
    BY <1>1, OutboundAssumption, OutP!NextOutbound
  <2>2. [OutP!Log!Next]_(OutP!Log!vars)
    BY <1>1, OutboundAssumption, OutP!StepOfLog
  <2>3. [Log!Next]_(Log!vars)
    <3>1. CASE OutP!Log!Permit
      BY <3>1 DEF OutP!Log!Permit, Log!Permit, Log!Next
    <3>2. CASE OutP!Log!Sign
      BY <3>2 DEF OutP!Log!Sign, Log!Sign, OutP!Log!Licensed, Log!Licensed,
         OutP!Log!SameAnswer, Log!SameAnswer, OutP!Log!Answered, Log!Answered,
         Log!Next
    <3>3. CASE UNCHANGED OutP!Log!vars
      BY <3>3 DEF OutP!Log!vars, Log!vars
    <3>4. QED
      BY <2>2, <3>1, <3>2, <3>3 DEF OutP!Log!Next
  <2>4. QED
    BY <2>1, <2>3
<1>2. CASE Crash
  <2>1. OutP!Forget
    BY <1>2, CrashForgets
  <2>2. OutP!OutboundInv' /\ UNCHANGED OutP!Log!vars
    BY <2>1, OutboundAssumption, OutP!ForgetKeepsOutbound
  <2>3. QED
    BY <2>2 DEF OutP!Log!vars, Log!vars
<1>3. QED
  BY <1>1, <1>2, OutboundStep

-----------------------------------------------------------------------------
(* The table of accepted replies                                           *)

\* An event may be without its binding: the tables were reset since its turn
\* began, or as many later events were accepted as the table holds.
Later(e) == {o \in everAccepted : o > e}
Lost(e, since) == since < disconnects \/ Cardinality(Later(e)) >= MaxReplies

Bound(e) == \E i \in 1..Len(accepted) : accepted[i] = e

Increasing(s) == \A i, j \in 1..Len(s) : i < j => s[i] < s[j]

\* A turn that is without the binding of its event is so for a reason.
TurnKeepsBinding(w) ==
  worker[w].at # "free" =>
    /\ worker[w].since <= disconnects
    /\ Bound(worker[w].event) \/ Lost(worker[w].event, worker[w].since)
    /\ worker[w].at = "dropped" => Lost(worker[w].event, worker[w].since)

\* Events are accepted in the order of their cursors, none beyond the notice
\* in hand, so the table is in the order of the inbox and its oldest entry goes
\* first.  The notice in hand has its binding from the projection on, and a
\* turn that lost the binding of its event had reason to.
TableInv ==
  /\ everAccepted # {} => saved # None
  /\ \A o \in everAccepted : o <= saved + 1
  /\ Increasing(accepted)
  /\ stage \in {"context", "handling", "accepted"} => Bound(watched)
  /\ \A w \in Workers : TurnKeepsBinding(w)

LEMMA TableType ==
  ASSUME OutP!OutboundInv
  PROVE  /\ accepted \in Seq(1..MaxInbox) /\ Len(accepted) <= MaxReplies
         /\ everAccepted \subseteq 1..MaxInbox
         /\ disconnects \in Nat
         /\ \A i \in 1..Len(accepted) : accepted[i] \in everAccepted
BY DEF OutP!OutboundInv, OutP!TypeOK, OutP!LicenceInv, OutP!Range

LEMMA PostsAreFinite ==
  ASSUME NEW S, S \subseteq 1..MaxInbox
  PROVE  IsFiniteSet(S) /\ Cardinality(S) \in Nat
<1>1. IsFiniteSet(1..MaxInbox)
  <2>1. 1 \in Int /\ MaxInbox \in Int
    BY InboxAssumption
  <2>2. QED
    BY <2>1, FS_Interval
<1>2. S \in SUBSET (1..MaxInbox)
  OBVIOUS
<1>3. QED
  BY <1>1, <1>2, FS_Subset, FS_CardinalityType

\* What is lost stays lost.
LEMMA StaysLost ==
  ASSUME NEW e, NEW since \in Nat, Lost(e, since),
         disconnects \in Nat, disconnects' \in {disconnects, disconnects + 1},
         everAccepted \subseteq everAccepted',
         everAccepted' \subseteq 1..MaxInbox
  PROVE  Lost(e, since)'
<1>1. CASE since < disconnects
  BY <1>1 DEF Lost
<1>2. CASE Cardinality(Later(e)) >= MaxReplies
  <2>1. PICK L : L = Later(e)
    OBVIOUS
  <2>2. PICK M : M = {o \in everAccepted' : o > e}
    OBVIOUS
  <2>3. IsFiniteSet(M) /\ L \in SUBSET M
    <3>1. M \subseteq 1..MaxInbox
      BY <2>2
    <3>2. QED
      BY <2>1, <2>2, <3>1, PostsAreFinite DEF Later
  <2>4. /\ Cardinality(L) <= Cardinality(M)
        /\ Cardinality(L) \in Nat /\ Cardinality(M) \in Nat
    BY <2>3, FS_Subset, FS_CardinalityType
  <2>5. MaxReplies \in Nat
    BY GatewayAssumption
  <2>6. Cardinality(M) >= MaxReplies
    BY <1>2, <2>1, <2>4, <2>5
  <2>7. Later(e)' = M
    BY <2>2 DEF Later
  <2>8. QED
    BY <2>6, <2>7 DEF Lost
<1>3. QED
  BY <1>1, <1>2 DEF Lost

\* The next event in order takes the last place; the binding that makes room
\* for it is older than all that stay.
LEMMA RememberedInOrder ==
  ASSUME OutP!OutboundInv, Increasing(accepted),
         NEW o \in 1..MaxInbox, \A e \in everAccepted : e <= o,
         Out!RememberAcceptedReply(o)
  PROVE  /\ Increasing(accepted)' /\ Bound(o)'
         /\ \A e : Bound(e) =>
              \/ Bound(e)'
              \/ Cardinality(Later(e))' >= MaxReplies
<1>1. /\ accepted \in Seq(1..MaxInbox) /\ Len(accepted) <= MaxReplies
      /\ everAccepted \subseteq 1..MaxInbox /\ MaxReplies \in Nat \ {0}
      /\ \A i \in 1..Len(accepted) : accepted[i] \in everAccepted
  BY TableType, GatewayAssumption
<1>2. \A e \in everAccepted : e \in Int
  BY TableType
<1>3. PICK n \in Nat : n = Len(accepted)
  BY <1>1
<1>4. CASE Bound(o)
  <2>1. accepted' = accepted
    BY <1>1, <1>4 DEF Bound, Out!RememberAcceptedReply, Out!Remembered,
       Out!Range
  <2>2. QED
    BY <1>4, <2>1 DEF Increasing, Bound
<1>5. CASE ~Bound(o)
  <2>1. PICK grown : grown = Append(accepted, o)
    OBVIOUS
  <2>2. /\ accepted' = IF n + 1 > MaxReplies THEN Tail(grown) ELSE grown
        /\ everAccepted' = everAccepted \cup {o}
    BY <1>1, <1>3, <1>5, <2>1 DEF Bound, Out!RememberAcceptedReply,
       Out!Remembered, Out!Range
  <2>3. /\ grown \in Seq(1..MaxInbox) /\ Len(grown) = n + 1 /\ grown[n + 1] = o
        /\ \A i \in 1..n : grown[i] = accepted[i]
    BY <1>1, <1>3, <2>1
  <2>4. ASSUME NEW i \in 1..n + 1 PROVE grown[i] \in Int
    <3>1. i = n + 1 \/ i \in 1..n
      OBVIOUS
    <3>2. o \in Int
      OBVIOUS
    <3>3. ASSUME NEW j \in 1..n PROVE accepted[j] \in Int
      <4>1. accepted[j] \in everAccepted
        BY <1>1, <1>3
      <4>2. QED
        BY <1>2, <4>1
    <3>4. QED
      BY <2>3, <3>1, <3>2, <3>3
  <2>5. \A i \in 1..n : accepted[i] < o
    <3>1. ASSUME NEW i \in 1..n PROVE accepted[i] < o
      <4>1. accepted[i] \in 1..MaxInbox /\ accepted[i] <= o /\ accepted[i] # o
        BY <1>1, <1>3, <1>5 DEF Bound
      <4>2. QED
        BY <4>1
    <3>2. QED
      BY <3>1
  <2>6. Increasing(grown)
    BY <1>3, <2>3, <2>5 DEF Increasing
  <2>7. CASE n + 1 <= MaxReplies
    <3>1. accepted' = grown
      BY <1>1, <2>2, <2>7
    <3>2. Increasing(accepted)'
      BY <2>6, <3>1 DEF Increasing
    <3>3. Bound(o)' /\ \A e : Bound(e) => Bound(e)'
      BY <1>3, <2>3, <3>1 DEF Bound
    <3>4. QED
      BY <3>2, <3>3
  <2>8. CASE n + 1 > MaxReplies
    <3>1. n = MaxReplies /\ n >= 1 /\ accepted' = Tail(grown)
      BY <1>1, <1>3, <2>2, <2>8
    <3>2. Len(accepted') = n /\ \A i \in 1..n : accepted'[i] = grown[i + 1]
      BY <2>3, <3>1
    <3>3. Increasing(accepted)'
      BY <2>3, <2>6, <3>2 DEF Increasing
    <3>4. Bound(o)'
      BY <2>3, <3>1, <3>2 DEF Bound
    <3>5. ASSUME NEW e, Bound(e)
          PROVE  Bound(e)' \/ Cardinality(Later(e))' >= MaxReplies
      <4>1. PICK i \in 1..n : accepted[i] = e
        BY <1>3, <3>5 DEF Bound
      <4>2. CASE i > 1
        <5>1. i - 1 \in 1..n /\ accepted'[i - 1] = e
          BY <2>3, <3>2, <4>1, <4>2
        <5>2. QED
          BY <3>2, <5>1 DEF Bound
      <4>3. CASE i = 1
        <5>1. PICK M : M = {p \in everAccepted' : p > e}
          OBVIOUS
        <5>2. PICK s : s = [k \in 1..n |-> grown[k + 1]]
          OBVIOUS
        <5>3. ASSUME NEW k \in 1..n PROVE grown[k + 1] \in Int
          <6>1. k + 1 \in 1..n + 1
            OBVIOUS
          <6>2. QED
            BY <2>4, <6>1
        <5>4. \A k \in 1..n : grown[k + 1] \in everAccepted'
          <6>1. ASSUME NEW k \in 1..n PROVE grown[k + 1] \in everAccepted'
            <7>1. k = n \/ k + 1 \in 1..n
              OBVIOUS
            <7>2. QED
              BY <1>1, <1>3, <2>2, <2>3, <7>1
          <6>2. QED
            BY <6>1
        <5>5. \A k \in 1..n : grown[k + 1] > e
          <6>1. grown[1] = e /\ 1 \in 1..n + 1
            BY <2>3, <4>1, <4>3
          <6>2. \A k \in 1..n : grown[1] < grown[k + 1]
            BY <2>3, <2>6, <6>1 DEF Increasing
          <6>3. e \in Int
            BY <2>4, <6>1
          <6>4. QED
            BY <5>3, <6>1, <6>2, <6>3
        <5>6. s \in [1..n -> M]
          BY <5>1, <5>2, <5>4, <5>5
        <5>7. \A j, k \in 1..n : j < k => s[j] # s[k]
          <6>1. ASSUME NEW j \in 1..n, NEW k \in 1..n, j < k
                PROVE  grown[j + 1] # grown[k + 1]
            <7>1. grown[j + 1] < grown[k + 1]
              BY <2>3, <2>6, <6>1 DEF Increasing
            <7>2. QED
              BY <5>3, <7>1
          <6>2. QED
            BY <5>2, <6>1
        <5>8. IsFiniteSet(M)
          <6>1. M \subseteq 1..MaxInbox
            BY <1>1, <2>2, <5>1
          <6>2. QED
            BY <6>1, PostsAreFinite
        <5>9. Cardinality(M) \in Nat /\ n <= Cardinality(M)
          BY <5>6, <5>7, <5>8, DifferentMembers
        <5>10. Later(e)' = M
          BY <5>1 DEF Later
        <5>11. QED
          BY <3>1, <5>9, <5>10
      <4>4. QED
        BY <4>2, <4>3
    <3>6. QED
      BY <3>3, <3>4, <3>5
  <2>9. QED
    BY <1>1, <2>7, <2>8
<1>6. QED
  BY <1>4, <1>5

\* A turn's event and its beginning after a step, as constants.
LEMMA KeepsBinding ==
  ASSUME NEW w \in Workers, NEW e, NEW since,
         worker'[w].event = e, worker'[w].since = since,
         since <= disconnects', Bound(e)' \/ Lost(e, since)',
         worker'[w].at = "dropped" => Lost(e, since)'
  PROVE  TurnKeepsBinding(w)'
BY DEF TurnKeepsBinding, Bound, Lost, Later

\* The cursor only moves on, so what was accepted stays behind the next notice.
LEMMA AcceptedBehind ==
  ASSUME GInv, TableInv, OutP!OutboundInv, [Next]_vars,
         everAccepted' = everAccepted
  PROVE  /\ everAccepted' # {} => saved' # None
         /\ \A o \in everAccepted' : o <= saved' + 1
<1>1. CASE saved' = saved
  BY <1>1 DEF TableInv
<1>2. CASE saved = None
  BY <1>2 DEF TableInv
<1>3. CASE saved # None /\ saved' = saved + 1
  <2>1. saved \in Nat /\ None \notin Nat
    BY <1>3, InboxAssumption DEF GInv, IInv, TypeOK
  <2>2. everAccepted \subseteq 1..MaxInbox
    BY TableType
  <2>3. \A o \in everAccepted : o <= saved + 1
    BY DEF TableInv
  <2>4. QED
    BY <1>3, <2>1, <2>2, <2>3
<1>4. QED
  BY <1>1, <1>2, <1>3, CursorStep DEF GInv

\* The tables are reset, by disconnect() or a crash.
LEMMA ResetKeepsTable ==
  ASSUME GInv, TableInv, OutP!OutboundInv, Disconnect \/ Crash
  PROVE  TableInv'
<1>1. /\ accepted' = <<>> /\ everAccepted' = everAccepted /\ saved' = saved
      /\ disconnects' = disconnects + 1 /\ stage' = "idle"
  BY DEF Disconnect, Crash, Stop, Out!Disconnect
<1>2. ASSUME NEW w \in Workers
      PROVE  /\ worker'[w].event = worker[w].event
             /\ worker'[w].since = worker[w].since
             /\ worker'[w].at # "free" => worker[w].at # "free"
  <2>1. worker[w] \in TurnType
    BY DEF GInv, TurnInv
  <2>2. CASE worker' = worker
    BY <2>2
  <2>3. CASE Crash /\ worker[w].at \in {"working", "streaming"}
    <3>1. worker'[w] = [worker[w] EXCEPT !.at = "gone"]
      BY <2>3 DEF Crash
    <3>2. QED
      BY <2>1, <2>3, <3>1 DEF TurnType
  <2>4. CASE Crash /\ worker[w].at \notin {"working", "streaming"}
    <3>1. worker'[w] = worker[w]
      BY <2>4 DEF Crash
    <3>2. QED
      BY <3>1
  <2>5. QED
    BY <2>2, <2>3, <2>4 DEF Disconnect
<1>3. ASSUME NEW w \in Workers PROVE TurnKeepsBinding(w)'
  <2>1. CASE worker[w].at # "free"
    <3>1. PICK e, since : e = worker[w].event /\ since = worker[w].since
      OBVIOUS
    <3>2. since <= disconnects
      BY <2>1, <3>1 DEF TableInv, TurnKeepsBinding
    <3>3. since \in Nat /\ disconnects \in Nat
      BY <3>1 DEF GInv, TurnInv, TurnType
    <3>4. since < disconnects' /\ since <= disconnects'
      BY <1>1, <3>2, <3>3
    <3>5. Lost(e, since)'
      BY <3>4 DEF Lost
    <3>6. QED
      BY <1>2, <3>1, <3>4, <3>5, KeepsBinding
  <2>2. CASE worker[w].at = "free"
    BY <1>2, <2>2 DEF TurnKeepsBinding
  <2>3. QED
    BY <2>1, <2>2
<1>4. Increasing(accepted)'
  BY <1>1 DEF Increasing
<1>5. QED
  BY <1>1, <1>3, <1>4 DEF TableInv

LEMMA AcceptKeepsTable ==
  ASSUME GInv, TableInv, OutP!OutboundInv, OutP!OutboundInv', AcceptNotice
  PROVE  TableInv'
<1>1. /\ stage = "projecting" /\ UNCHANGED <<saved, watched, worker, disconnects>>
      /\ everAccepted' = everAccepted \cup {watched}
      /\ Out!RememberAcceptedReply(watched)
  BY DEF AcceptNotice, ProjectSucceeds, Out!RememberAcceptedReply
<1>2. /\ watched \in 1..Len(inbox) /\ watched = saved + 1
      /\ saved # None /\ saved \in Nat
  BY <1>1 DEF GInv, IInv, TypeOK, HandInv
<1>3. watched \in 1..MaxInbox /\ \A o \in everAccepted : o <= watched
  BY <1>2, EventIsPost DEF TableInv
<1>4. /\ Increasing(accepted)' /\ Bound(watched)'
      /\ \A e : Bound(e) => Bound(e)' \/ Cardinality(Later(e))' >= MaxReplies
  <2>1. Increasing(accepted)
    BY DEF TableInv
  <2>2. /\ Increasing(accepted)'
        /\ \A e : Bound(e) => Bound(e)' \/ Cardinality(Later(e))' >= MaxReplies
    BY <1>1, <1>3, <2>1, RememberedInOrder
  <2>3. PICK o : o = watched
    OBVIOUS
  <2>4. (\E i \in 1..Len(accepted) : accepted[i] = o)'
    BY <1>1, <1>3, <2>1, <2>3, RememberedInOrder DEF Bound
  <2>5. QED
    BY <1>1, <2>2, <2>3, <2>4 DEF Bound
<1>5. /\ everAccepted' # {} => saved' # None
      /\ \A o \in everAccepted' : o <= saved' + 1
  BY <1>1, <1>2, <1>3
<1>6. ASSUME NEW w \in Workers PROVE TurnKeepsBinding(w)'
  <2>1. CASE worker[w].at # "free"
    <3>1. PICK e, since : e = worker[w].event /\ since = worker[w].since
      OBVIOUS
    <3>2. since \in Nat /\ disconnects \in Nat
      BY <3>1 DEF GInv, TurnInv, TurnType
    <3>3. everAccepted' \subseteq 1..MaxInbox
      BY TableType DEF OutP!OutboundInv, OutP!TypeOK
    <3>4. Lost(e, since) => Lost(e, since)'
      BY <1>1, <3>2, <3>3, StaysLost
    <3>5. Bound(e) => Bound(e)' \/ Lost(e, since)'
      BY <1>4 DEF Lost
    <3>6. /\ since <= disconnects
          /\ Bound(e) \/ Lost(e, since)
          /\ worker[w].at = "dropped" => Lost(e, since)
      BY <2>1, <3>1 DEF TableInv, TurnKeepsBinding
    <3>7. worker'[w] = worker[w] /\ disconnects' = disconnects
      BY <1>1
    <3>8. QED
      BY <3>1, <3>4, <3>5, <3>6, <3>7, KeepsBinding
  <2>2. CASE worker[w].at = "free"
    BY <1>1, <2>2 DEF TurnKeepsBinding
  <2>3. QED
    BY <2>1, <2>2
<1>7. QED
  BY <1>1, <1>4, <1>5, <1>6 DEF TableInv, Bound

\* The table, what it was given and its resets stay as they are.
LEMMA FrameKeepsTable ==
  ASSUME GInv, TableInv, OutP!OutboundInv, [Next]_vars,
         UNCHANGED <<accepted, everAccepted, disconnects>>,
         stage' \in {"context", "handling", "accepted"} =>
           stage \in {"context", "handling", "accepted"} /\ watched' = watched,
         \A w \in Workers : TurnKeepsBinding(w)'
  PROVE  TableInv'
<1>1. /\ everAccepted' # {} => saved' # None
      /\ \A o \in everAccepted' : o <= saved' + 1
  BY AcceptedBehind
<1>2. Increasing(accepted)'
  BY DEF TableInv, Increasing
<1>3. stage' \in {"context", "handling", "accepted"} => Bound(watched)'
  BY DEF TableInv, Bound
<1>4. QED
  BY <1>1, <1>2, <1>3 DEF TableInv

LEMMA SameTurnKeepsBinding ==
  ASSUME TableInv, UNCHANGED <<accepted, everAccepted, disconnects>>,
         NEW w \in Workers, NEW v \in Workers, worker[v].at # "free",
         worker'[w].event = worker[v].event,
         worker'[w].since = worker[v].since,
         worker'[w].at = "dropped" =>
           worker[v].at = "dropped" \/ ~Bound(worker[v].event)
  PROVE  TurnKeepsBinding(w)'
<1>1. PICK e, since : e = worker[v].event /\ since = worker[v].since
  OBVIOUS
<1>2. /\ Bound(e)' <=> Bound(e)
      /\ Lost(e, since)' <=> Lost(e, since)
  BY DEF Bound, Lost, Later
<1>3. /\ since <= disconnects
      /\ Bound(e) \/ Lost(e, since)
      /\ worker[v].at = "dropped" => Lost(e, since)
  BY <1>1 DEF TableInv, TurnKeepsBinding
<1>4. QED
  BY <1>1, <1>2, <1>3, KeepsBinding

\* An answer is suppressed for want of the binding, or is a failure envelope.
LEMMA SuppressedUnbound ==
  ASSUME GInv, NEW w \in Workers, NEW content \in Contents, NEW meta \in Metadata,
         worker[w].at # "free", meta.notify, ~Out!IsOperationalOutput(content),
         Out!ClassifyOutbound(content, worker[w].event, meta,
           Out!AcceptedFollowReply(ThreadOf[worker[w].event], worker[w].event))
           = "suppress"
  PROVE  ~Bound(worker[w].event)
<1>1. worker[w].event # None
  BY TurnEvent, InboxAssumption
<1>2. ~Out!AcceptedFollowReply(ThreadOf[worker[w].event], worker[w].event)
  BY DEF Out!ClassifyOutbound, Out!MayPublish
<1>3. QED
  BY <1>1, <1>2 DEF Out!AcceptedFollowReply, Out!Range, Bound

\* Where a turn stands changes, and dropping its answer needs a reason.
LEMMA ToldKeepsBinding ==
  ASSUME GInv, TableInv, UNCHANGED <<accepted, everAccepted, disconnects>>,
         NEW w \in Workers, worker[w].at # "free",
         NEW at, at = "dropped" => ~Bound(worker[w].event),
         NEW draft,
         \/ worker' = [worker EXCEPT ![w].at = at]
         \/ worker' = [worker EXCEPT ![w].at = at, ![w].draft = draft]
  PROVE  \A v \in Workers : TurnKeepsBinding(v)'
<1> SUFFICES ASSUME NEW v \in Workers PROVE TurnKeepsBinding(v)'
  OBVIOUS
<1>0. worker \in [Workers -> TurnType]
  BY DEF GInv, TurnInv
<1>1. CASE v = w
  <2>1. /\ worker'[w].event = worker[w].event
        /\ worker'[w].since = worker[w].since
        /\ worker'[w].at = at
    BY <1>0 DEF TurnType
  <2>2. QED
    BY <1>1, <2>1, SameTurnKeepsBinding
<1>2. CASE v # w
  <2>1. worker'[v] = worker[v]
    BY <1>0, <1>2
  <2>2. QED
    BY <2>1, SameTurnKeepsBinding DEF TurnKeepsBinding
<1>3. QED
  BY <1>1, <1>2

LEMMA TurnKeepsTable ==
  ASSUME GInv, TableInv, OutP!OutboundInv, [Next]_vars,
         NEW w \in Workers, Turn(w)
  PROVE  TableInv'
<1>0. worker \in [Workers -> TurnType]
  BY DEF GInv, TurnInv
<1>1. CASE StartTurn(w)
  <2>1. UNCHANGED <<accepted, everAccepted, disconnects>>
    BY <1>1 DEF StartTurn, outVars
  <2>2. stage = "handling" /\ watched' = watched
    BY <1>1 DEF StartTurn, HermesAccepts
  <2>3. ASSUME NEW v \in Workers PROVE TurnKeepsBinding(v)'
    <3>1. CASE v = w
      <4>1. worker'[w].event = watched /\ worker'[w].since = disconnects
            /\ worker'[w].at = "working"
        BY <1>0, <1>1 DEF StartTurn
      <4>2. disconnects <= disconnects' /\ disconnects \in Nat
        BY <2>1 DEF GInv, TurnInv
      <4>3. PICK o : o = watched
        OBVIOUS
      <4>4. Bound(o)'
        BY <2>1, <2>2, <4>3 DEF TableInv, Bound
      <4>5. QED
        BY <2>1, <3>1, <4>1, <4>2, <4>3, <4>4, KeepsBinding
    <3>2. CASE v # w
      <4>1. worker'[v] = worker[v]
        BY <1>0, <1>1, <3>2 DEF StartTurn
      <4>2. QED
        BY <2>1, <4>1, SameTurnKeepsBinding DEF TurnKeepsBinding
    <3>3. QED
      BY <3>1, <3>2
  <2>4. QED
    BY <2>1, <2>2, <2>3, FrameKeepsTable
<1>2. ASSUME NEW v \in Workers, Retry(w, v) PROVE TableInv'
  <2>1. UNCHANGED <<accepted, everAccepted, disconnects, stage, watched>>
    BY <1>2 DEF Retry, outVars, inVars, vars, connVars
  <2>2. /\ worker[w].at = "sent" /\ w # v
        /\ worker' = [worker EXCEPT ![w].at = "gone",
             ![v] = [worker[w] EXCEPT !.at = IF worker[w].draft = 0 THEN "working"
                                             ELSE "streaming"]]
    BY <1>2 DEF Retry
  <2>3. ASSUME NEW u \in Workers PROVE TurnKeepsBinding(u)'
    <3>1. CASE u \in {w, v}
      <4>1. /\ worker'[u].event = worker[w].event
            /\ worker'[u].since = worker[w].since
            /\ worker'[u].at # "dropped"
        BY <1>0, <2>2, <3>1 DEF TurnType
      <4>2. QED
        BY <2>1, <2>2, <4>1, SameTurnKeepsBinding
    <3>2. CASE u \notin {w, v}
      <4>1. worker'[u] = worker[u]
        BY <1>0, <2>2, <3>2
      <4>2. QED
        BY <2>1, <4>1, SameTurnKeepsBinding DEF TurnKeepsBinding
    <3>3. QED
      BY <3>1, <3>2
  <2>4. QED
    BY <2>1, <2>3, FrameKeepsTable
<1>3. ASSUME \/ RefusePreview(w)
             \/ \E content \in Contents :
                  \/ FinalizePreview(w, content)
                  \/ \E meta \in Metadata :
                       \/ SendFinal(w, content, meta)
                       \/ DropFinal(w, content, meta)
                       \/ SendPreview(w, content, meta)
      PROVE  TableInv'
  <2>1. /\ UNCHANGED <<accepted, everAccepted, disconnects, stage, watched>>
        /\ worker[w].at # "free"
    BY <1>3 DEF RefusePreview, FinalizePreview, SendFinal, DropFinal,
       SendPreview, outVars, inVars, vars, connVars, Out!EditFinalize,
       Out!SendPublish, Out!SendBuffer, Out!adapterVars, Out!historyVars
  <2>2. \/ \E at \in {"sent", "withheld", "refused"} :
             worker' = [worker EXCEPT ![w].at = at]
        \/ /\ worker' = [worker EXCEPT ![w].at = "dropped"]
           /\ ~Bound(worker[w].event)
        \/ \E draft : worker' = [worker EXCEPT ![w].at = "streaming",
                                               ![w].draft = draft]
    <3>1. CASE RefusePreview(w)
      BY <3>1 DEF RefusePreview, Told
    <3>2. ASSUME NEW content \in Contents, FinalizePreview(w, content)
          PROVE  worker' = [worker EXCEPT ![w].at = "sent"]
      BY <3>2 DEF FinalizePreview, Told
    <3>3. ASSUME NEW content \in Contents, NEW meta \in Metadata,
                 SendFinal(w, content, meta)
          PROVE  worker' = [worker EXCEPT ![w].at = "sent"]
      BY <3>3 DEF SendFinal, Told
    <3>4. ASSUME NEW content \in Contents, NEW meta \in Metadata,
                 DropFinal(w, content, meta)
          PROVE  \/ worker' = [worker EXCEPT ![w].at = "withheld"]
                 \/ /\ worker' = [worker EXCEPT ![w].at = "dropped"]
                    /\ ~Bound(worker[w].event)
      <4>1. CASE Out!IsOperationalOutput(content)
        BY <3>4, <4>1 DEF DropFinal, Told
      <4>2. CASE ~Out!IsOperationalOutput(content)
        BY <3>4, <4>2, SuppressedUnbound DEF DropFinal, Told
      <4>3. QED
        BY <4>1, <4>2
    <3>5. ASSUME NEW content \in Contents, NEW meta \in Metadata,
                 SendPreview(w, content, meta)
          PROVE  worker' = [worker EXCEPT ![w].at = "streaming",
                                          ![w].draft = draftSeq + 1]
      BY <3>5 DEF SendPreview
    <3>6. QED
      BY <1>3, <3>1, <3>2, <3>3, <3>4, <3>5
  <2>3. \A v \in Workers : TurnKeepsBinding(v)'
    BY <2>1, <2>2, ToldKeepsBinding
  <2>4. QED
    BY <2>1, <2>3, FrameKeepsTable
<1>4. QED
  BY <1>1, <1>2, <1>3 DEF Turn

LEMMA NextTable ==
  GInv /\ OutP!OutboundInv /\ TableInv /\ OutP!OutboundInv'
    /\ [GatewayNext]_gatewayVars => TableInv'
<1> SUFFICES ASSUME GInv, OutP!OutboundInv, TableInv, OutP!OutboundInv',
                    [GatewayNext]_gatewayVars
             PROVE  TableInv'
  OBVIOUS
<1>1. [Next]_vars
  BY InboundStep
<1>2. ASSUME UNCHANGED <<accepted, everAccepted, disconnects, worker>>,
             stage' \in {"context", "handling", "accepted"} =>
               stage \in {"context", "handling", "accepted"}
               /\ watched' = watched
      PROVE  TableInv'
  <2>1. \A w \in Workers : TurnKeepsBinding(w)'
    BY <1>2, SameTurnKeepsBinding DEF TurnKeepsBinding
  <2>2. QED
    BY <1>1, <1>2, <2>1, FrameKeepsTable
<1>3. CASE InboundAlone
  <2>1. UNCHANGED <<accepted, everAccepted, disconnects, worker>>
    BY <1>3 DEF InboundAlone, outVars
  <2>2. stage' \in {"context", "handling", "accepted"} =>
          stage \in {"context", "handling", "accepted"} /\ watched' = watched
    BY <1>3 DEF InboundAlone, Receive, connVars, Connect, Resume, StartAtZero,
       StartScan, ScanPage, ScanEnds, ScanCut, Follow, TakeNotice, LineTooLong,
       ProjectSkips, ContextReady, CommitHandled, Fails, ScanExceeded,
       ConnectFails, ProjectFails, BridgeFails, HandleFails, WatcherFails, Fatal
  <2>3. QED
    BY <1>2, <2>1, <2>2
<1>4. CASE OutboundAlone \/ UNCHANGED gatewayVars
  <2>1. UNCHANGED <<accepted, everAccepted, disconnects, worker, stage, watched>>
    BY <1>4 DEF OutboundAlone, gatewayVars, inVars, vars, connVars, outVars,
       Out!Tick, Out!Publish, Out!Cancel, Out!ReuseRecent, Out!StartPost,
       Out!PostSucceeds, Out!PostFails, Out!adapterVars, Out!historyVars
  <2>2. QED
    BY <1>2, <2>1
<1>5. ASSUME NEW r \in inflight, Sign(r) PROVE TableInv'
  <2>1. UNCHANGED <<accepted, everAccepted, disconnects, worker, stage, watched>>
    BY <1>5 DEF Sign, Out!DaemonPosts, Out!adapterVars, Out!historyVars, connVars
  <2>2. QED
    BY <1>2, <2>1
<1>6. QED
  BY <1>1, <1>3, <1>4, <1>5, AcceptKeepsTable, ResetKeepsTable, TurnKeepsTable
     DEF GatewayNext

LEMMA InitTable == GatewayInit => TableInv
BY DEF GatewayInit, Init, Out!Init, TableInv, TurnKeepsBinding, Increasing

-----------------------------------------------------------------------------
(* The table of previews                                                   *)

\* A turn may be without its preview: the tables were reset since the turn
\* began, or as many later previews were opened as the table holds.
Excused(since, draft) == since < disconnects \/ draftSeq - draft >= MaxDrafts

\* A preview belongs to the turn that opened it, or to the last retry of that.
Owner(w) == worker[w].draft # 0 /\ worker[w].at \in {"streaming", "sent"}

\* A turn that has not delivered has its preview, unless it is excused.  Its
\* call, while it runs, publishes that preview and no other.
KeepsDraft(w) ==
  /\ worker[w].since <= disconnects
  /\ worker[w].draft <= draftSeq
  /\ worker[w].at = "working" => worker[w].draft = 0
  /\ worker[w].at = "streaming" => worker[w].draft # 0
  /\ pc[w] \in {"waiting", "posting"} =>
       worker[w].at = "sent" /\ job[w].draft = worker[w].draft
  /\ Owner(w) /\ (worker[w].at = "streaming" \/ pc[w] # "acked") =>
       worker[w].draft \in DOMAIN drafts
         \/ Excused(worker[w].since, worker[w].draft)
  /\ worker[w].at = "refused" => Excused(worker[w].since, worker[w].draft)

Apart(w, v) ==
  w # v /\ Owner(w) /\ Owner(v) => worker[w].draft # worker[v].draft

\* No delivery takes another turn's preview out of the table.
DraftInv ==
  /\ \A w \in Workers : KeepsDraft(w)
  /\ \A w, v \in Workers : Apart(w, v)

LEMMA DraftType ==
  ASSUME GInv, OutP!OutboundInv
  PROVE  /\ worker \in [Workers -> TurnType] /\ draftSeq \in Nat
         /\ disconnects \in Nat /\ DOMAIN drafts \subseteq 1..draftSeq
         /\ DOMAIN pc = Workers /\ DOMAIN job = Workers
         /\ MaxDrafts \in Nat \ {0}
         /\ \A w \in Workers : worker[w].draft \in Nat /\ worker[w].since \in Nat
BY GatewayAssumption
   DEF GInv, TurnInv, TurnType, AnswerInv, OutP!OutboundInv, OutP!TypeOK

\* The oldest of MaxDrafts previews has MaxDrafts - 1 later ones.
LEMMA EvictedIsOld ==
  ASSUME NEW n \in Nat, NEW D \in SUBSET (1..n), NEW d \in D,
         \A e \in D : d <= e, MaxDrafts \in Nat, Cardinality(D) >= MaxDrafts
  PROVE  n + 1 - d >= MaxDrafts
<1>1. d \in Nat /\ n + 1 - d \in Nat /\ d <= n
  OBVIOUS
<1>2. IsFiniteSet(d..n) /\ Cardinality(d..n) = n + 1 - d
  <2>1. d \in Int /\ n \in Int /\ ~(d > n) /\ n - d + 1 = n + 1 - d
    BY <1>1
  <2>2. QED
    BY <2>1, FS_Interval
<1>3. D \in SUBSET (d..n)
  OBVIOUS
<1>4. Cardinality(D) <= Cardinality(d..n)
  BY <1>2, <1>3, FS_Subset
<1>5. Cardinality(D) \in Nat
  BY <1>2, <1>3, FS_Subset, FS_CardinalityType
<1>6. QED
  BY <1>1, <1>2, <1>4, <1>5

\* Calls go on, but the previews stay.
LEMMA DraftsStay ==
  ASSUME DraftInv, UNCHANGED <<worker, draftSeq, disconnects, job>>,
         DOMAIN drafts' = DOMAIN drafts,
         \A w \in Workers :
            \/ pc'[w] = pc[w]
            \/ /\ pc[w] \in {"waiting", "posting"}
               /\ pc'[w] \in {"posting", "failed", "cancelled"}
  PROVE  DraftInv'
<1>1. ASSUME NEW w \in Workers PROVE KeepsDraft(w)'
  BY <1>1 DEF DraftInv, KeepsDraft, Owner, Excused
<1>2. \A w, v \in Workers : Apart(w, v)'
  BY DEF DraftInv, Apart, Owner
<1>3. QED
  BY <1>1, <1>2 DEF DraftInv

\* A delivery takes its own preview out of the table.
LEMMA DeliveredDraft ==
  ASSUME GInv, OutP!OutboundInv, DraftInv, NEW t \in Workers,
         Out!ReuseRecent(t) \/ Out!PostSucceeds(t), UNCHANGED worker
  PROVE  DraftInv'
<1>1. /\ pc[t] \in {"waiting", "posting"} /\ pc' = [pc EXCEPT ![t] = "acked"]
      /\ UNCHANGED <<draftSeq, disconnects, job>> /\ Out!DropPublished(t)
  BY DEF Out!ReuseRecent, Out!PostSucceeds, Out!historyVars
<1>2. DOMAIN drafts' = DOMAIN drafts \ {job[t].draft}
  BY <1>1, DraftType DEF Out!DropPublished, Out!Without, Out!Restrict
<1>3. worker[t].at = "sent" /\ job[t].draft = worker[t].draft
  BY <1>1 DEF DraftInv, KeepsDraft
<1>4. ASSUME NEW w \in Workers PROVE KeepsDraft(w)'
  <2>1. CASE w = t
    BY <1>1, <1>3, <2>1, DraftType DEF DraftInv, KeepsDraft, Owner, Excused
  <2>2. CASE w # t
    <3>1. pc'[w] = pc[w]
      BY <1>1, <2>2, DraftType
    <3>2. Owner(w) => worker[w].draft # job[t].draft
      BY <1>3, <2>2 DEF DraftInv, Apart, Owner
    <3>3. QED
      BY <1>1, <1>2, <3>1, <3>2 DEF DraftInv, KeepsDraft, Owner, Excused
  <2>3. QED
    BY <2>1, <2>2
<1>5. \A w, v \in Workers : Apart(w, v)'
  BY DEF DraftInv, Apart, Owner
<1>6. QED
  BY <1>4, <1>5 DEF DraftInv

\* One turn moves; it may give its preview up, but takes no other.
LEMMA OneTurnMoves ==
  ASSUME DraftInv, UNCHANGED <<draftSeq, disconnects>>,
         DOMAIN drafts' = DOMAIN drafts, NEW w \in Workers,
         \A v \in Workers \ {w} :
            worker'[v] = worker[v] /\ pc'[v] = pc[v] /\ job'[v] = job[v],
         KeepsDraft(w)',
         Owner(w)' => Owner(w) /\ worker'[w].draft = worker[w].draft
  PROVE  DraftInv'
<1>1. ASSUME NEW v \in Workers PROVE KeepsDraft(v)'
  BY <1>1 DEF DraftInv, KeepsDraft, Owner, Excused
<1>2. ASSUME NEW u \in Workers, NEW v \in Workers PROVE Apart(u, v)'
  <2>1. \A x \in Workers :
          Owner(x)' => Owner(x) /\ worker'[x].draft = worker[x].draft
    BY DEF Owner
  <2>2. QED
    BY <2>1 DEF DraftInv, Apart
<1>3. QED
  BY <1>1, <1>2 DEF DraftInv

\* A reset excuses every turn that has begun.
LEMMA ResetExcuses ==
  ASSUME GInv, OutP!OutboundInv, DraftInv, Disconnect \/ Crash
  PROVE  DraftInv'
<1>1. /\ disconnects' = disconnects + 1 /\ UNCHANGED <<draftSeq, job>>
      /\ DOMAIN pc' = Workers
  BY DraftType DEF Disconnect, Crash, Out!Disconnect, Out!taskVars
<1>2. ASSUME NEW w \in Workers
      PROVE  /\ worker'[w].draft = worker[w].draft
             /\ worker'[w].since = worker[w].since
             /\ \/ worker'[w].at = worker[w].at
                \/ /\ worker'[w].at = "gone"
                   /\ worker[w].at \in {"working", "streaming"}
             /\ pc'[w] \in {"waiting", "posting"} =>
                  pc[w] \in {"waiting", "posting"}
  <2>1. worker[w] \in TurnType
    BY DraftType
  <2>2. CASE Disconnect
    BY <2>2 DEF Disconnect, Out!Disconnect, Out!taskVars
  <2>3. CASE Crash
    <3>1. worker'[w] = IF worker[w].at \in {"working", "streaming"}
                       THEN [worker[w] EXCEPT !.at = "gone"] ELSE worker[w]
      BY <2>3 DEF Crash
    <3>2. pc'[w] = IF pc[w] \in {"waiting", "posting"} THEN "cancelled"
                   ELSE pc[w]
      BY <2>3 DEF Crash
    <3>3. QED
      BY <2>1, <3>1, <3>2 DEF TurnType
  <2>4. QED
    BY <2>2, <2>3
<1>3. ASSUME NEW w \in Workers PROVE KeepsDraft(w)'
  <2>1. worker'[w].since < disconnects'
    BY <1>1, <1>2, DraftType DEF DraftInv, KeepsDraft
  <2>2. /\ worker'[w].since <= disconnects'
        /\ Excused(worker[w].since, worker[w].draft)'
    BY <1>1, <1>2, <2>1, DraftType DEF Excused
  <2>3. pc[w] \in {"waiting", "posting"} =>
          worker[w].at = "sent" /\ job[w].draft = worker[w].draft
    BY DEF DraftInv, KeepsDraft
  <2>4. /\ worker[w].draft <= draftSeq
        /\ worker[w].at = "working" => worker[w].draft = 0
        /\ worker[w].at = "streaming" => worker[w].draft # 0
        /\ pc[w] \in {"waiting", "posting"} =>
             worker'[w].at = worker[w].at
    BY <1>2, <2>3 DEF DraftInv, KeepsDraft
  <2>5. QED
    BY <1>1, <1>2, <2>2, <2>3, <2>4 DEF KeepsDraft
<1>4. ASSUME NEW w \in Workers, NEW v \in Workers PROVE Apart(w, v)'
  <2>1. \A x \in Workers : Owner(x)' => Owner(x)
    BY <1>2 DEF Owner
  <2>2. QED
    BY <1>2, <2>1 DEF DraftInv, Apart
<1>5. QED
  BY <1>3, <1>4 DEF DraftInv

\* A preview opens; the oldest of a full table goes.
LEMMA PreviewOpens ==
  ASSUME GInv, OutP!OutboundInv, DraftInv, NEW w \in Workers,
         NEW content \in Contents, NEW meta \in Metadata,
         SendPreview(w, content, meta)
  PROVE  DraftInv'
<1>1. PICK n \in Nat : n = draftSeq + 1
  BY DraftType
<1>2. /\ worker[w].at = "working" /\ UNCHANGED <<pc, job, disconnects>>
      /\ draftSeq' = n
      /\ worker' = [worker EXCEPT ![w].at = "streaming", ![w].draft = n]
  BY <1>1 DEF SendPreview, Out!SendBuffer, Out!taskVars, Out!historyVars
<1>3. /\ n \in DOMAIN drafts'
      /\ \A d \in DOMAIN drafts :
           \/ d \in DOMAIN drafts'
           \/ /\ Cardinality(DOMAIN drafts) >= MaxDrafts
              /\ \A e \in DOMAIN drafts : ~(e < d)
  BY <1>1, SameCardinality DEF SendPreview, Out!SendBuffer
<1>4. \A d \in DOMAIN drafts : d \in DOMAIN drafts' \/ n - d >= MaxDrafts
  <2>1. ASSUME NEW d \in DOMAIN drafts, d \notin DOMAIN drafts'
        PROVE  draftSeq + 1 - d >= MaxDrafts
    <3>1. DOMAIN drafts \in SUBSET (1..draftSeq)
      BY DraftType
    <3>2. \A e \in DOMAIN drafts : d <= e
      BY <1>3, <2>1, <3>1, DraftType
    <3>3. Cardinality(DOMAIN drafts) >= MaxDrafts
      BY <1>3, <2>1
    <3>4. QED
      BY <3>1, <3>2, <3>3, DraftType, EvictedIsOld
  <2>2. QED
    BY <1>1, <2>1, DraftType
<1>5. \A v \in Workers \ {w} : worker'[v] = worker[v]
  BY <1>2, DraftType DEF TurnType
<1>6. worker'[w].at = "streaming" /\ worker'[w].draft = n
      /\ worker'[w].since = worker[w].since
  BY <1>2, DraftType DEF TurnType
<1>7. ASSUME NEW v \in Workers PROVE KeepsDraft(v)'
  <2>1. CASE v = w
    <3>1. pc[w] \notin {"waiting", "posting"} /\ worker[w].since <= disconnects
      BY <1>2 DEF DraftInv, KeepsDraft
    <3>2. n # 0 /\ n <= n
      BY <1>1, DraftType
    <3>3. QED
      BY <1>2, <1>3, <1>6, <2>1, <3>1, <3>2 DEF KeepsDraft
  <2>2. CASE v # w
    <3>1. worker'[v] = worker[v]
      BY <1>5, <2>2
    <3>2. KeepsDraft(v)
      BY DEF DraftInv
    <3>3. worker[v].draft <= draftSeq'
      BY <1>1, <1>2, <3>2, DraftType DEF KeepsDraft
    <3>4. Excused(worker[v].since, worker[v].draft) =>
            Excused(worker[v].since, worker[v].draft)'
      <4>1. PICK d \in Nat : d = worker[v].draft
        BY DraftType
      <4>2. draftSeq - d >= MaxDrafts => n - d >= MaxDrafts
        BY <1>1, DraftType
      <4>3. QED
        BY <1>2, <3>1, <4>1, <4>2 DEF Excused
    <3>5. worker[v].draft \in DOMAIN drafts =>
            worker[v].draft \in DOMAIN drafts'
              \/ Excused(worker[v].since, worker[v].draft)'
      BY <1>2, <1>4, <3>1 DEF Excused
    <3>6. QED
      BY <1>2, <3>1, <3>2, <3>3, <3>4, <3>5 DEF KeepsDraft, Owner
  <2>3. QED
    BY <2>1, <2>2
<1>8. ASSUME NEW u \in Workers, NEW v \in Workers PROVE Apart(u, v)'
  <2>1. \A x \in Workers \ {w} : worker'[x].draft # n
    BY <1>1, <1>5, DraftType DEF DraftInv, KeepsDraft
  <2>2. CASE u # w /\ v # w
    BY <1>5, <2>2 DEF DraftInv, Apart, Owner
  <2>3. CASE u = w \/ v = w
    BY <1>6, <2>1, <2>3 DEF Apart
  <2>4. QED
    BY <2>2, <2>3
<1>9. QED
  BY <1>7, <1>8 DEF DraftInv

\* A retry takes the preview over from the turn that failed.
LEMMA RetryTakesOver ==
  ASSUME GInv, OutP!OutboundInv, DraftInv, NEW w \in Workers, NEW v \in Workers,
         Retry(w, v)
  PROVE  DraftInv'
<1>1. /\ worker[w].at = "sent" /\ pc[w] = "failed" /\ w # v
      /\ worker[v].at = "free"
      /\ UNCHANGED <<pc, job, drafts, draftSeq, disconnects>>
  BY DEF Retry, outVars
<1>2. /\ worker'[w] = [worker[w] EXCEPT !.at = "gone"]
      /\ worker'[v] = [worker[w] EXCEPT !.at = IF worker[w].draft = 0
                                               THEN "working" ELSE "streaming"]
      /\ \A u \in Workers \ {w, v} : worker'[u] = worker[u]
  BY <1>1, DraftType DEF Retry, TurnType
<1>3. /\ worker'[w].at = "gone" /\ worker'[w].draft = worker[w].draft
      /\ worker'[w].since = worker[w].since
      /\ worker'[v].draft = worker[w].draft /\ worker'[v].since = worker[w].since
      /\ worker'[v].at = IF worker[w].draft = 0 THEN "working" ELSE "streaming"
  BY <1>2, DraftType DEF TurnType
<1>4. KeepsDraft(w) /\ KeepsDraft(v)
  BY DEF DraftInv
<1>5. KeepsDraft(w)' /\ KeepsDraft(v)'
  BY <1>1, <1>3, <1>4 DEF KeepsDraft, Owner, Excused
<1>6. ASSUME NEW u \in Workers PROVE KeepsDraft(u)'
  <2>1. CASE u \in {w, v}
    BY <1>5, <2>1
  <2>2. CASE u \notin {w, v}
    <3>1. worker'[u] = worker[u] /\ KeepsDraft(u)
      BY <1>2, <2>2 DEF DraftInv
    <3>2. QED
      BY <1>1, <3>1 DEF KeepsDraft, Owner, Excused
  <2>3. QED
    BY <2>1, <2>2
<1>7. ASSUME NEW u \in Workers, NEW x \in Workers PROVE Apart(u, x)'
  <2>1. PICK d : d = worker[w].draft
    OBVIOUS
  <2>2. \A y \in Workers \ {w, v} : /\ Owner(y)' <=> Owner(y)
                                   /\ worker'[y].draft = worker[y].draft
    BY <1>2 DEF Owner
  <2>3. ~Owner(w)' /\ worker'[v].draft = d
    BY <1>3, <2>1 DEF Owner
  <2>4. ASSUME NEW y \in Workers \ {w, v}, Owner(y), d # 0
        PROVE  worker[y].draft # d
    BY <1>1, <2>1, <2>4 DEF DraftInv, Apart, Owner
  <2>5. Owner(v)' => d # 0
    BY <2>3 DEF Owner
  <2>6. CASE u \notin {w, v} /\ x \notin {w, v}
    BY <2>2, <2>6 DEF DraftInv, Apart
  <2>7. CASE u \in {w, v} \/ x \in {w, v}
    BY <2>2, <2>3, <2>4, <2>5, <2>7 DEF Apart
  <2>8. QED
    BY <2>6, <2>7
<1>8. QED
  BY <1>6, <1>7 DEF DraftInv

LEMMA TurnKeepsDrafts ==
  ASSUME GInv, OutP!OutboundInv, DraftInv, NEW w \in Workers, Turn(w)
  PROVE  DraftInv'
<1>0. KeepsDraft(w) /\ worker[w] \in TurnType
  BY DraftType DEF DraftInv
<1>1. CASE StartTurn(w)
  <2>1. /\ worker[w].at = "free"
        /\ UNCHANGED <<pc, job, drafts, draftSeq, disconnects>>
        /\ \A v \in Workers \ {w} : worker'[v] = worker[v]
        /\ worker'[w].at = "working" /\ worker'[w].draft = 0
        /\ worker'[w].since = disconnects
    BY <1>1, DraftType DEF StartTurn, outVars
  <2>2. KeepsDraft(w)'
    BY <1>0, <2>1, DraftType DEF KeepsDraft, Owner
  <2>3. QED
    BY <2>1, <2>2, OneTurnMoves DEF Owner
<1>2. CASE RefusePreview(w) \/ \E content \in Contents, meta \in Metadata :
                                  DropFinal(w, content, meta)
  <2>1. PICK at \in {"refused", "withheld", "dropped"} :
          /\ worker' = [worker EXCEPT ![w].at = at]
          /\ UNCHANGED <<pc, job, drafts, draftSeq, disconnects>>
          /\ worker[w].at \in {"streaming", "working"}
          /\ at = "refused" => worker[w].at = "streaming"
                               /\ worker[w].draft \notin DOMAIN drafts
    BY <1>2 DEF RefusePreview, DropFinal, Told, outVars
  <2>2. /\ worker'[w].at = at /\ worker'[w].draft = worker[w].draft
        /\ worker'[w].since = worker[w].since
        /\ \A v \in Workers \ {w} : worker'[v] = worker[v]
    BY <2>1, DraftType DEF TurnType
  <2>3. KeepsDraft(w)'
    BY <1>0, <2>1, <2>2 DEF KeepsDraft, Owner, Excused
  <2>4. QED
    BY <2>1, <2>2, <2>3, OneTurnMoves DEF Owner
<1>3. ASSUME NEW content \in Contents, NEW meta \in Metadata,
             SendFinal(w, content, meta)
      PROVE  DraftInv'
  <2>1. PICK j : /\ j.draft = 0 /\ job' = [job EXCEPT ![w] = j]
                 /\ pc' = [pc EXCEPT ![w] = "waiting"]
                 /\ worker' = [worker EXCEPT ![w].at = "sent"]
                 /\ worker[w].at = "working"
                 /\ UNCHANGED <<drafts, draftSeq, disconnects>>
    BY <1>3 DEF SendFinal, Told, Out!SendPublish, Out!Enqueue, Out!adapterVars,
       Out!historyVars
  <2>2. /\ worker'[w].at = "sent" /\ worker'[w].draft = worker[w].draft
        /\ worker'[w].since = worker[w].since
        /\ \A v \in Workers \ {w} :
             worker'[v] = worker[v] /\ pc'[v] = pc[v] /\ job'[v] = job[v]
        /\ pc'[w] = "waiting" /\ job'[w] = j
    BY <2>1, DraftType DEF TurnType
  <2>3. worker[w].draft = 0
    BY <1>0, <2>1 DEF KeepsDraft
  <2>4. KeepsDraft(w)'
    BY <1>0, <2>1, <2>2, <2>3 DEF KeepsDraft, Owner
  <2>5. QED
    BY <2>1, <2>2, <2>3, <2>4, OneTurnMoves DEF Owner
<1>4. ASSUME NEW content \in Contents, FinalizePreview(w, content)
      PROVE  DraftInv'
  <2>1. PICK j : /\ j.draft = worker[w].draft /\ job' = [job EXCEPT ![w] = j]
                 /\ pc' = [pc EXCEPT ![w] = "waiting"]
                 /\ worker' = [worker EXCEPT ![w].at = "sent"]
                 /\ worker[w].at = "streaming"
                 /\ UNCHANGED <<draftSeq, disconnects>>
                 /\ DOMAIN drafts' = DOMAIN drafts
    BY <1>4 DEF FinalizePreview, Told, Out!EditFinalize, Out!Enqueue
  <2>2. /\ worker'[w].at = "sent" /\ worker'[w].draft = worker[w].draft
        /\ worker'[w].since = worker[w].since
        /\ \A v \in Workers \ {w} :
             worker'[v] = worker[v] /\ pc'[v] = pc[v] /\ job'[v] = job[v]
        /\ pc'[w] = "waiting" /\ job'[w] = j
    BY <2>1, DraftType DEF TurnType
  <2>3. KeepsDraft(w)'
    BY <1>0, <2>1, <2>2 DEF KeepsDraft, Owner, Excused
  <2>4. QED
    BY <2>1, <2>2, <2>3, OneTurnMoves DEF Owner
<1>5. QED
  BY <1>1, <1>2, <1>3, <1>4, PreviewOpens, RetryTakesOver DEF Turn

LEMMA NextDrafts ==
  GInv /\ OutP!OutboundInv /\ DraftInv /\ [GatewayNext]_gatewayVars => DraftInv'
<1> SUFFICES ASSUME GInv, OutP!OutboundInv, DraftInv, [GatewayNext]_gatewayVars
             PROVE  DraftInv'
  OBVIOUS
<1>1. CASE InboundAlone \/ AcceptNotice \/ UNCHANGED gatewayVars
           \/ \E r \in inflight : Sign(r)
  <2>1. UNCHANGED <<worker, draftSeq, disconnects, job, drafts, pc>>
    BY <1>1 DEF InboundAlone, AcceptNotice, Sign, gatewayVars, outVars,
       Out!RememberAcceptedReply, Out!taskVars, Out!DaemonPosts,
       Out!adapterVars, Out!historyVars
  <2>2. QED
    BY <2>1, DraftsStay
<1>2. CASE OutboundAlone
  <2>1. UNCHANGED worker
    BY <1>2 DEF OutboundAlone
  <2>2. CASE Out!Tick
    BY <2>1, <2>2, DraftsStay DEF Out!Tick, Out!adapterVars, Out!taskVars,
       Out!historyVars
  <2>3. ASSUME NEW w \in Workers,
               Out!Cancel(w) \/ Out!StartPost(w) \/ Out!PostFails(w)
        PROVE  DraftInv'
    <3>1. /\ UNCHANGED <<draftSeq, disconnects, job, drafts>>
          /\ pc[w] \in {"waiting", "posting"}
          /\ \E to \in {"posting", "failed", "cancelled"} :
               pc' = [pc EXCEPT ![w] = to]
      BY <2>3 DEF Out!Cancel, Out!StartPost, Out!PostFails, Out!adapterVars,
         Out!historyVars
    <3>2. \A v \in Workers :
            \/ pc'[v] = pc[v]
            \/ /\ pc[v] \in {"waiting", "posting"}
               /\ pc'[v] \in {"posting", "failed", "cancelled"}
      BY <3>1, DraftType
    <3>3. QED
      BY <2>1, <3>1, <3>2, DraftsStay
  <2>4. QED
    BY <1>2, <2>1, <2>2, <2>3, DeliveredDraft DEF OutboundAlone, Out!Publish
<1>3. QED
  BY <1>1, <1>2, ResetExcuses, TurnKeepsDrafts DEF GatewayNext

LEMMA InitDrafts == GatewayInit => DraftInv
BY GatewayAssumption
   DEF GatewayInit, Out!Init, DraftInv, KeepsDraft, Owner, Apart

-----------------------------------------------------------------------------
(* Theorems                                                                *)

\* What is proved of the inbound half holds of the whole adapter.
LEMMA InboundHalf == GatewaySpec => Spec
<1>1. GatewayInit => Init
  BY DEF GatewayInit
<1>2. GInv /\ [GatewayNext]_gatewayVars => [Next]_vars
  BY InboundStep
<1>3. QED
  BY <1>1, <1>2, InitGInv, NextGInv, PTL DEF GatewaySpec, Spec

\* Nothing owed to Hermes is lost beside workers that answer.
THEOREM NothingIsLostBesideAnswers == GatewaySpec => []NoNoticeLost
BY InboundHalf, NothingIsLost

\* So is the order of the deliveries: the whole adapter implements the feed.
THEOREM FollowsTheFeed == GatewaySpec => FeedSpec
BY InboundHalf, ImplementsFeed

\* Everything in the log answers an event that Hermes accepted and that is not
\* the adapter's own post.
THEOREM NeverAnswersItself == GatewaySpec => []NoReplyLoop
<1>1. GInv => NoReplyLoop
  BY DEF GInv, EventInv, AnswerInv, Answers, NoReplyLoop
<1>2. QED
  BY <1>1, InitGInv, NextGInv, PTL DEF GatewaySpec

\* Whichever process signs, the whole adapter only ever adds to the log one
\* licensed answer that is new to it: crashes, redelivered events and turns that
\* are made again included.
THEOREM ImplementsLog == GatewaySpec => LogSpec
BY InitGInv, NextGInv, InitOutbound, NextOutbound, PTL
   DEF GatewaySpec, LogSpec, Log!Spec

\* What the outbound half promises of the log and of its acknowledgements holds
\* across crashes and processes too: nothing unlicensed is signed, an answer is
\* signed once, and what was reported as delivered stays posted.
THEOREM PromisesOutliveCrashes ==
  GatewaySpec =>
    [](OutP!FailClosed /\ OutP!AnswerSignedOnce /\ OutP!AckedIsPosted)
<1>1. OutP!OutboundInv =>
        OutP!FailClosed /\ OutP!AnswerSignedOnce /\ OutP!AckedIsPosted
  BY OutboundAssumption, OutP!OutboundPromises
<1>2. QED
  BY <1>1, InitGInv, NextGInv, InitOutbound, NextOutbound, PTL DEF GatewaySpec

\* No failure, redelivery, retry or crash costs an event its licence while a
\* turn works on it: only a reset of the tables does, or MaxReplies later events.
THEOREM SwallowedOnlyAfterReset == GatewaySpec => []DroppedOnlyAfterReset
<1>1. TableInv => DroppedOnlyAfterReset
  BY DEF TableInv, TurnKeepsBinding, Lost, Later, DroppedOnlyAfterReset
<1>2. QED
  BY <1>1, InitGInv, NextGInv, InitOutbound, NextOutbound, InitTable, NextTable,
     PTL DEF GatewaySpec

\* The draft of a turn outlives failed deliveries, retries and other turns'
\* deliveries: only a reset or MaxDrafts later previews take it away.
THEOREM RefusedOnlyWhenEvicted == GatewaySpec => []RefusedOnlyAfterEviction
<1>1. DraftInv => RefusedOnlyAfterEviction
  BY DEF DraftInv, KeepsDraft, Excused, RefusedOnlyAfterEviction
<1>2. QED
  BY <1>1, InitGInv, NextGInv, InitOutbound, NextOutbound, InitDrafts, NextDrafts,
     PTL DEF GatewaySpec

=============================================================================
