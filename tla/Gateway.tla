------------------------------ MODULE Gateway ------------------------------
(***************************************************************************)
(* One MicroMeetAdapter as a whole: the inbound half (Inbox) and the       *)
(* outbound half (Publication) over the same notices, with the Hermes      *)
(* workers between them.  The notice at cursor c is the inbound post c.    *)
(*                                                                         *)
(* The halves share the table of accepted replies, which _accept_notice    *)
(* fills and send reads, and disconnect(), which ends the watch loop and   *)
(* clears the tables while workers go on.  A post that the daemon signs    *)
(* comes back as a notice of the adapter's own.  A crash takes the memory  *)
(* of both halves; the cursor, the log and requests under way survive.     *)
(*                                                                         *)
(* A worker is one Hermes turn about one event and, with the same name,    *)
(* its call that publishes the answer; it answers in one final send or by  *)
(* a preview that it finalizes.                                            *)
(***************************************************************************)
EXTENDS Inbox

CONSTANTS
  Operational, ThreadOf, Contents, Empty, SuppliedKeys, Metadata,
  Workers,         \* Hermes turns, each used once
  MaxDrafts, MaxReplies, MaxRecent, Window,
  MaxDraftSeq, MaxTime

\* What Publication assumes of its constants, and that the adapter's own posts
\* are among the notices that may arrive.
ASSUME GatewayAssumption ==
  /\ None \notin Workers \cup SuppliedKeys
  /\ Empty \notin Operational
  /\ ThreadOf \in [1..MaxInbox -> Threads]
  /\ Metadata \subseteq
       [micromeet_publish : BOOLEAN, notify : BOOLEAN, expect_edits : BOOLEAN,
        idempotency_key : SuppliedKeys \cup {None},
        reply_to_message_id : 1..MaxInbox \cup {None}]
  /\ {MaxDrafts, MaxReplies, MaxRecent, Window} \subseteq Nat \ {0}
  /\ {MaxDraftSeq, MaxTime} \subseteq Nat
  /\ [kind : {"post"}, own : {TRUE}, defect : {"none"}, thread : Threads]
       \subseteq Arriving

VARIABLES
  accepted, drafts, draftSeq, recent, lock, pc, job, began, ack, inflight,
  posts, now, everAccepted, finalized, disconnects,
  worker           \* what each Hermes turn is doing, and about which event

Out == INSTANCE Publication
         WITH Objects <- 1..MaxInbox, Tasks <- Workers, MaxDisconnects <- MaxStops

inVars == vars
outVars ==
  <<accepted, drafts, draftSeq, recent, lock, pc, job, began, ack, inflight,
    posts, now, everAccepted, finalized, disconnects>>
gatewayVars == <<inVars, outVars, worker>>

GatewayInit ==
  /\ Init
  /\ Out!Init
  /\ worker = [w \in Workers |->
                 [at |-> "free", event |-> None, since |-> 0, draft |-> 0]]

-----------------------------------------------------------------------------
(* The two halves together                                                 *)

\* The binding is stored when the post is projected, before Hermes sees it.
AcceptNotice ==
  /\ ProjectSucceeds
  /\ Out!RememberAcceptedReply(watched)
  /\ UNCHANGED worker

\* handle_message starts a turn; since = the resets it has seen so far.
StartTurn(w) ==
  /\ HermesAccepts
  /\ worker[w].at = "free"
  /\ worker' = [worker EXCEPT ![w] =
       [at |-> "working", event |-> watched, since |-> disconnects, draft |-> 0]]
  /\ UNCHANGED outVars

Disconnect == Stop /\ Out!Disconnect /\ UNCHANGED worker

\* Turns and calls are gone; a request that was handed to mm is not.  Drafts
\* of the next process go on with new numbers.
Crash ==
  /\ Stop
  /\ disconnects' = disconnects + 1
  /\ accepted' = <<>>
  /\ drafts' = [d \in {} |-> None] /\ recent' = [f \in {} |-> None]
  /\ lock' = None
  /\ pc' = [w \in Workers |->
              IF pc[w] \in {"waiting", "posting"} THEN "cancelled" ELSE pc[w]]
  /\ worker' = [w \in Workers |->
       IF worker[w].at \in {"working", "streaming"}
       THEN [worker[w] EXCEPT !.at = "gone"] ELSE worker[w]]
  /\ UNCHANGED <<draftSeq, job, began, ack, inflight, posts, now,
                 everAccepted, finalized>>

\* The daemon signs a request and announces the post to its own follower.
Sign(r) ==
  /\ Out!DaemonPosts(r)
  /\ inbox' = IF posts' = posts \/ Len(inbox) = MaxInbox THEN inbox
              ELSE Append(inbox, [kind |-> "post", own |-> TRUE,
                                  defect |-> "none", thread |-> r.chat])
  /\ UNCHANGED <<saved, connVars, historyVars, boundVars, worker>>

-----------------------------------------------------------------------------
(* Hermes' answers                                                         *)

Told(w, outcome) == worker' = [worker EXCEPT ![w].at = outcome]

\* The last words of a turn: send with the final-response marker.
SendFinal(w, content, meta) ==
  /\ worker[w].at = "working"
  /\ meta.notify
  /\ Out!SendPublish(w, ThreadOf[worker[w].event], content, worker[w].event,
                     meta)
  /\ Told(w, "sent")
  /\ UNCHANGED inVars

\* The same call is suppressed, which the result calls a success: rightly for a
\* failure envelope, and for want of the event's binding.
DropFinal(w, content, meta) ==
  LET o == worker[w].event IN
  /\ content # Empty
  /\ worker[w].at = "working"
  /\ meta.notify
  /\ Out!ClassifyOutbound(content, o, meta,
                          Out!AcceptedFollowReply(ThreadOf[o], o)) = "suppress"
  /\ Told(w, IF Out!IsOperationalOutput(content) THEN "withheld" ELSE "dropped")
  /\ UNCHANGED <<inVars, outVars>>

SendPreview(w, content, meta) ==
  /\ worker[w].at = "working"
  /\ Out!SendBuffer(ThreadOf[worker[w].event], content, worker[w].event, meta)
  /\ worker' = [worker EXCEPT ![w].at = "streaming", ![w].draft = draftSeq + 1]
  /\ UNCHANGED inVars

FinalizePreview(w, content) ==
  /\ worker[w].at = "streaming"
  /\ Out!EditFinalize(w, ThreadOf[worker[w].event], worker[w].draft, content)
  /\ Told(w, "sent")
  /\ UNCHANGED inVars

\* The draft was evicted or cleared: the edit reports an error.
RefusePreview(w) ==
  /\ worker[w].at = "streaming"
  /\ worker[w].draft \notin DOMAIN drafts
  /\ Told(w, "refused")
  /\ UNCHANGED <<inVars, outVars>>

\* A failed delivery is made again by a turn of its own: a final send as such, a
\* preview, which a failure leaves in its place, by finalizing it once more.
Retry(w, v) ==
  /\ worker[w].at = "sent" /\ pc[w] = "failed"
  /\ worker[v].at = "free"
  /\ worker' = [worker EXCEPT
       ![w].at = "gone",
       ![v] = [worker[w] EXCEPT !.at = IF worker[w].draft = 0 THEN "working"
                                       ELSE "streaming"]]
  /\ UNCHANGED <<inVars, outVars>>

-----------------------------------------------------------------------------

InboundAlone ==
  /\ \/ Receive \/ Connect \/ TakeNotice \/ LineTooLong \/ ProjectSkips
     \/ ContextReady \/ CommitHandled \/ Fails
  /\ UNCHANGED <<outVars, worker>>

OutboundAlone ==
  /\ Out!Tick \/ \E w \in Workers : Out!Publish(w) \/ Out!Cancel(w)
  /\ UNCHANGED <<inVars, worker>>

Turn(w) ==
  \/ StartTurn(w)
  \/ \E content \in Contents :
        \/ FinalizePreview(w, content)
        \/ \E meta \in Metadata :
              \/ SendFinal(w, content, meta) \/ DropFinal(w, content, meta)
              \/ SendPreview(w, content, meta)
  \/ RefusePreview(w)
  \/ \E v \in Workers : Retry(w, v)

GatewayNext ==
  \/ InboundAlone \/ OutboundAlone
  \/ AcceptNotice
  \/ Disconnect \/ Crash
  \/ \E r \in inflight : Sign(r)
  \/ \E w \in Workers : Turn(w)

GatewaySpec == GatewayInit /\ [][GatewayNext]_gatewayVars

-----------------------------------------------------------------------------
(* Properties                                                              *)

\* A turn's final answer is swallowed with a success result only if the tables
\* were reset since the turn began, or MaxReplies later events were accepted:
\* no failure, redelivery or retry in between costs an event its licence.
DroppedOnlyAfterReset ==
  \A w \in Workers : worker[w].at = "dropped" =>
    \/ worker[w].since < disconnects
    \/ Cardinality({o \in everAccepted : o > worker[w].event}) >= MaxReplies

\* The finished text of a turn's preview is refused only if the tables were reset
\* since the turn began or MaxDrafts previews were opened after it: a delivery
\* that failed, and is made again, finds its draft in place.
RefusedOnlyAfterEviction ==
  \A w \in Workers : worker[w].at = "refused" =>
    \/ worker[w].since < disconnects
    \/ draftSeq - worker[w].draft >= MaxDrafts

\* The adapter never answers itself, although its own posts come back.
NoReplyLoop == \A p \in posts : p.reply \in handled /\ ~inbox[p.reply].own

\* The whole adapter implements the log of licensed posts, crashes included: an
\* event that is delivered again and answered again with the same text has one
\* post in the log, whichever process signed it.
Log == INSTANCE SignedLog
LogSpec == Log!Spec

=============================================================================
