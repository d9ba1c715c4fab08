---------------------------- MODULE Publication ----------------------------
(***************************************************************************)
(* The outbound half of MicroMeetAdapter (adapter.py): Hermes calls send   *)
(* and edit_message from concurrent coroutines; previews are buffered as   *)
(* drafts, finished answers are posted through "mm post" under one asyncio *)
(* lock, and a short memory of recent deliveries reuses an equal post.     *)
(*                                                                         *)
(* A task is one Hermes call that reaches _publish.  It suspends at two    *)
(* places only, the lock and the "mm post" child process; everything       *)
(* between two suspensions is one action.  The MicroMeet daemon behind the *)
(* child process is external: it appends a request to the public log       *)
(* unless its idempotency key is already there, possibly after the child   *)
(* was killed by its timeout or the waiting coroutine was cancelled.       *)
(*                                                                         *)
(* Calls that only return a SendResult (a send of the empty text, a        *)
(* suppressed send, an edit of an unknown draft or from another chat, a    *)
(* non-final edit of an unchanged text) change no state: they are          *)
(* stuttering steps.                                                       *)
(***************************************************************************)
EXTENDS Outbound, Integers, Sequences, FiniteSets, Functions

CONSTANTS
  Threads,         \* MicroMeet threads, which are the Hermes chats
  Objects,         \* inbound posts Hermes may reply to
  ThreadOf,        \* ThreadOf[o]: the thread that inbound post o belongs to
  Contents,        \* the texts Hermes sends
  Empty,           \* the empty text: send refuses it, an edit may carry it
  SuppliedKeys,    \* idempotency keys Hermes may put into the metadata
  Metadata,        \* the metadata records Hermes attaches to a send
  Tasks,           \* Hermes calls that reach _publish, each used once
  MaxDrafts,       \* MAX_PENDING_DRAFTS (64)
  MaxReplies,      \* MAX_ACCEPTED_REPLIES (256)
  MaxRecent,       \* capacity of _recent_deliveries (64)
  Window,          \* the five seconds of the cache and of the retry bucket
  MaxDraftSeq,     \* bound: previews Hermes opens
  MaxTime,         \* bound: clock ticks
  MaxDisconnects   \* bound: disconnect() calls

ASSUME PublicationAssumption ==
  /\ ThreadOf \in [Objects -> Threads]
  /\ None \notin Objects \cup Tasks \cup SuppliedKeys
  /\ Empty \notin Operational
  /\ Metadata \subseteq
       [micromeet_publish : BOOLEAN, notify : BOOLEAN, expect_edits : BOOLEAN,
        idempotency_key : SuppliedKeys \cup {None},
        reply_to_message_id : Objects \cup {None}]
  /\ {MaxDrafts, MaxReplies, MaxRecent, Window} \subseteq Nat \ {0}
  /\ {MaxDraftSeq, MaxTime, MaxDisconnects} \subseteq Nat

VARIABLES
  accepted,      \* _accepted_replies: its objects, in insertion order
  drafts,        \* _drafts: draft number -> [chat, content, reply, meta]
  draftSeq,      \* _draft_sequence
  recent,        \* _recent_deliveries: <<chat, content>> -> [at, key]
  lock,          \* the task that holds _delivery_lock, or None
  pc,            \* where each task is
  job,           \* the arguments of its _publish call, or None
  began,         \* when its "mm post" started, None if it never ran one
  ack,           \* the post its successful SendResult names, or None
  inflight,      \* requests handed to mm that it has not acted upon
  posts,         \* the signed public log
  now,           \* the clock
  everAccepted,  \* history: every follow event accepted so far
  finalized,     \* history: <<draft, content>> that Hermes finalized
  disconnects    \* number of disconnect() calls so far

adapterVars == <<accepted, drafts, draftSeq, recent>>
taskVars == <<lock, pc, job, began, ack>>
mmVars == <<inflight, posts>>
historyVars == <<everAccepted, finalized, disconnects>>
vars == <<adapterVars, taskVars, mmVars, now, historyVars>>

Draft == [chat : Threads, content : Contents,
          reply : Objects \cup {None}, meta : Metadata]

\* draft is 0 for a _publish that send makes; asked is the time of the call.
Job == [chat : Threads, content : Contents, reply : Objects \cup {None},
        meta : Metadata, draft : Nat, asked : Nat]

\* The text whose digest is the key: two of them are equal exactly when the
\* digests are.  The bucket is empty when there is a stable reply target.
Digest == [chat : Threads, content : Contents,
           stable : Objects \cup {None}, bucket : Nat \cup {None}]

Key == SuppliedKeys \cup Digest

Request == [chat : Threads, content : Contents, reply : Objects \cup {None},
            meta : Metadata, draft : Nat, key : Key]

Returned == {"acked", "failed", "cancelled"}

TypeOK ==
  /\ accepted \in Seq(Objects) /\ Len(accepted) <= MaxReplies
  /\ draftSeq \in Nat
  /\ DOMAIN drafts \subseteq 1..draftSeq
  /\ drafts \in [DOMAIN drafts -> Draft]
  /\ DOMAIN recent \subseteq Threads \X Contents
  /\ recent \in [DOMAIN recent -> [at : Nat, key : Key]]
  /\ lock \in Tasks \cup {None}
  /\ pc \in [Tasks -> {"idle", "waiting", "posting"} \cup Returned]
  /\ job \in [Tasks -> Job \cup {None}]
  /\ began \in [Tasks -> Nat \cup {None}]
  /\ ack \in [Tasks -> Key \cup {None}]
  /\ \A t \in Tasks : pc[t] # "idle" => job[t] \in Job
  /\ \A t \in Tasks : pc[t] = "posting" => began[t] \in Nat
  /\ inflight \subseteq Request
  /\ posts \subseteq Request
  /\ now \in Nat
  /\ everAccepted \subseteq Objects
  /\ finalized \subseteq Nat \X Contents
  /\ disconnects \in Nat

\* The clock starts anywhere in a retry bucket.
Init ==
  /\ accepted = <<>>
  /\ drafts = [d \in {} |-> None]
  /\ draftSeq = 0
  /\ recent = [f \in {} |-> None]
  /\ lock = None
  /\ pc = [t \in Tasks |-> "idle"]
  /\ job = [t \in Tasks |-> None]
  /\ began = [t \in Tasks |-> None]
  /\ ack = [t \in Tasks |-> None]
  /\ inflight = {}
  /\ posts = {}
  /\ now \in 0..(Window - 1)
  /\ everAccepted = {}
  /\ finalized = {}
  /\ disconnects = 0

-----------------------------------------------------------------------------
(* Helpers                                                                 *)

Without(f, x) == Restrict(f, DOMAIN f \ {x})

\* Mutant: a full table forgets the binding it was just given.
RememberedFirst(o) ==
  IF o \in Range(accepted) \/ Len(accepted) = MaxReplies
  THEN accepted
  ELSE Append(accepted, o)

\* dict assignment keeps the place of a key that is already there; the loop
\* that pops the oldest entry runs at most once.
Remembered(o) ==
  LET grown == IF o \in Range(accepted) THEN accepted ELSE Append(accepted, o)
  IN  IF Len(grown) > MaxReplies THEN Tail(grown) ELSE grown

\* Mutant: an accepted object is a licence in every thread.
AcceptedInAnyThread(chat, reply) ==
  /\ reply # None
  /\ reply \in Range(accepted)

AcceptedFollowReply(chat, reply) ==
  /\ reply # None
  /\ reply \in Range(accepted)
  /\ ThreadOf[reply] = chat

\* reply_to or metadata["reply_to_message_id"].
StableReply(j) ==
  IF j.reply # None THEN j.reply ELSE j.meta.reply_to_message_id

\* Mutant: no digest when Hermes supplies no key.
SuppliedKeyOnly(j, time) == j.meta.idempotency_key

\* Mutant: the retry bucket is always part of the digest.
BucketedKey(j, time) ==
  IF j.meta.idempotency_key # None THEN j.meta.idempotency_key
  ELSE [chat |-> j.chat, content |-> j.content, stable |-> StableReply(j),
        bucket |-> time \div Window]

\* _delivery_key.
DeliveryKey(j, time) ==
  IF j.meta.idempotency_key # None THEN j.meta.idempotency_key
  ELSE [chat |-> j.chat, content |-> j.content, stable |-> StableReply(j),
        bucket |-> IF StableReply(j) # None THEN None ELSE time \div Window]

Fingerprint(j) == <<j.chat, j.content>>

\* Mutant: "<" for "<=".
CacheHitBefore(f) ==
  /\ f \in DOMAIN recent
  /\ now - recent[f].at < Window

CacheHit(f) ==
  /\ f \in DOMAIN recent
  /\ now - recent[f].at <= Window

\* The cache after one more delivery: past its capacity one entry with the
\* smallest time goes, which is never the new one.
CacheWith(f, entry) ==
  LET grown == [g \in DOMAIN recent \cup {f} |->
                  IF g = f THEN entry ELSE recent[g]]
      others == DOMAIN recent \ {f}
      oldest == {g \in others : \A h \in others : recent[g].at <= recent[h].at}
  IN  IF Cardinality(DOMAIN grown) <= MaxRecent
      THEN {grown}
      ELSE {Without(grown, g) : g \in oldest}

\* What "mm post" is told to post, when it is started at time for the call j.
RequestAt(j, time) ==
  [chat |-> j.chat, content |-> j.content, reply |-> j.reply, meta |-> j.meta,
   draft |-> j.draft, key |-> DeliveryKey(j, time)]

RequestOf(t) == RequestAt(job[t], began[t])
KeyOf(t) == DeliveryKey(job[t], began[t])

\* edit_message drops the draft it published; send has none to drop.
DropPublished(t) ==
  drafts' = IF job[t].draft = 0 THEN drafts ELSE Without(drafts, job[t].draft)

-----------------------------------------------------------------------------
(* Hermes calls                                                            *)

\* The inbound half accepted a follow event.
RememberAcceptedReply(o) ==
  /\ accepted' = Remembered(o)
  /\ everAccepted' = everAccepted \cup {o}
  /\ UNCHANGED <<drafts, draftSeq, recent, taskVars, mmVars, now, finalized,
                 disconnects>>

Enqueue(t, j) ==
  /\ pc[t] = "idle"
  /\ pc' = [pc EXCEPT ![t] = "waiting"]
  /\ job' = [job EXCEPT ![t] = j]
  /\ UNCHANGED <<lock, began, ack>>

SendPublish(t, chat, content, reply, meta) ==
  /\ content # Empty
  /\ ClassifyOutbound(content, reply, meta, AcceptedFollowReply(chat, reply))
       = "publish"
  /\ Enqueue(t, [chat |-> chat, content |-> content, reply |-> reply,
                 meta |-> meta, draft |-> 0, asked |-> now])
  /\ UNCHANGED <<adapterVars, mmVars, now, historyVars>>

\* A preview.  A full table first loses its oldest draft; numbers only grow,
\* so the oldest is the smallest.
SendBuffer(chat, content, reply, meta) ==
  /\ content # Empty
  /\ draftSeq < MaxDraftSeq
  /\ ClassifyOutbound(content, reply, meta, AcceptedFollowReply(chat, reply))
       = "buffer"
  /\ draftSeq' = draftSeq + 1
  /\ LET kept == IF Cardinality(DOMAIN drafts) >= MaxDrafts
                 THEN {d \in DOMAIN drafts : \E e \in DOMAIN drafts : e < d}
                 ELSE DOMAIN drafts
     IN  drafts' = [d \in kept \cup {draftSeq + 1} |->
                      IF d = draftSeq + 1
                      THEN [chat |-> chat, content |-> content,
                            reply |-> reply, meta |-> meta]
                      ELSE drafts[d]]
  /\ UNCHANGED <<accepted, recent, taskVars, mmVars, now, historyVars>>

\* edit_message(finalize=False).
EditPreview(chat, d, content) ==
  /\ d \in DOMAIN drafts
  /\ drafts[d].chat = chat
  /\ drafts' = [drafts EXCEPT ![d].content = content]
  /\ UNCHANGED <<accepted, draftSeq, recent, taskVars, mmVars, now,
                 historyVars>>

\* edit_message(finalize=True) with a failure envelope.
EditDiscard(chat, d, content) ==
  /\ d \in DOMAIN drafts
  /\ drafts[d].chat = chat
  /\ IsOperationalOutput(content)
  /\ drafts' = Without(drafts, d)
  /\ UNCHANGED <<accepted, draftSeq, recent, taskVars, mmVars, now,
                 historyVars>>

\* edit_message(finalize=True) with an answer: the draft keeps the final text
\* until the publication succeeds.
EditFinalize(t, chat, d, content) ==
  /\ d \in DOMAIN drafts
  /\ drafts[d].chat = chat
  /\ ~IsOperationalOutput(content)
  /\ drafts' = [drafts EXCEPT ![d].content = content]
  /\ Enqueue(t, [chat |-> drafts[d].chat, content |-> content,
                 reply |-> drafts[d].reply, meta |-> drafts[d].meta,
                 draft |-> d, asked |-> now])
  /\ finalized' = finalized \cup {<<d, content>>}
  /\ UNCHANGED <<accepted, draftSeq, recent, mmVars, now, everAccepted,
                 disconnects>>

-----------------------------------------------------------------------------
(* _publish_serialized                                                     *)

\* The lock is taken and a fresh enough delivery of the same text is reused;
\* the lock is released before the task suspends again.
ReuseRecent(t) ==
  LET f == Fingerprint(job[t]) IN
  /\ pc[t] = "waiting"
  /\ lock = None
  /\ CacheHit(f)
  /\ pc' = [pc EXCEPT ![t] = "acked"]
  /\ ack' = [ack EXCEPT ![t] = recent[f].key]
  /\ DropPublished(t)
  /\ UNCHANGED <<accepted, draftSeq, recent, lock, job, began, mmVars, now,
                 historyVars>>

\* The lock is taken, the time and the key are fixed and "mm post" starts.
StartPost(t) ==
  /\ pc[t] = "waiting"
  /\ lock = None
  /\ ~CacheHit(Fingerprint(job[t]))
  /\ lock' = t
  /\ pc' = [pc EXCEPT ![t] = "posting"]
  /\ began' = [began EXCEPT ![t] = now]
  /\ inflight' = inflight \cup {RequestAt(job[t], now)}
  /\ UNCHANGED <<adapterVars, job, ack, posts, now, historyVars>>

\* "mm post" reports success: its request is in the log, or an equal key was.
PostSucceeds(t) ==
  /\ pc[t] = "posting"
  /\ RequestOf(t) \notin inflight
  /\ \E p \in posts : p.key = KeyOf(t)
  /\ recent' \in CacheWith(Fingerprint(job[t]),
                           [at |-> began[t], key |-> KeyOf(t)])
  /\ lock' = None
  /\ pc' = [pc EXCEPT ![t] = "acked"]
  /\ ack' = [ack EXCEPT ![t] = KeyOf(t)]
  /\ DropPublished(t)
  /\ UNCHANGED <<accepted, draftSeq, job, began, mmVars, now, historyVars>>

\* Mutant: the response's "ok" is not looked at.
ErrorIsDelivered(t) ==
  /\ pc[t] = "posting"
  /\ lock' = None
  /\ pc' = [pc EXCEPT ![t] = "acked"]
  /\ ack' = [ack EXCEPT ![t] = KeyOf(t)]
  /\ UNCHANGED <<adapterVars, job, began, mmVars, now, historyVars>>

\* Mutant: the draft is dropped whatever became of its publication.
FailureDropsDraft(t) ==
  /\ pc[t] = "posting"
  /\ lock' = None
  /\ pc' = [pc EXCEPT ![t] = "failed"]
  /\ inflight' \in {inflight, inflight \ {RequestOf(t)}}
  /\ DropPublished(t)
  /\ UNCHANGED <<accepted, draftSeq, recent, job, began, ack, posts, now,
                 historyVars>>

\* "mm post" reports an error or hits its timeout.  The request may be gone,
\* may have been acted upon, or may still reach the daemon later.  A draft
\* stays, so that Hermes can finalize it again.
PostFails(t) ==
  /\ pc[t] = "posting"
  /\ lock' = None
  /\ pc' = [pc EXCEPT ![t] = "failed"]
  /\ inflight' \in {inflight, inflight \ {RequestOf(t)}}
  /\ UNCHANGED <<adapterVars, job, began, ack, posts, now, historyVars>>

\* Mutant: a lock that is not released on cancellation.
CancelKeepsLock(t) ==
  /\ pc[t] \in {"waiting", "posting"}
  /\ pc' = [pc EXCEPT ![t] = "cancelled"]
  /\ UNCHANGED <<adapterVars, lock, job, began, ack, mmVars, now, historyVars>>

\* Hermes cancels the coroutine at one of its two suspension points: the lock
\* is released but the child process runs on in its thread.
Cancel(t) ==
  /\ pc[t] \in {"waiting", "posting"}
  /\ pc' = [pc EXCEPT ![t] = "cancelled"]
  /\ lock' = IF lock = t THEN None ELSE lock
  /\ UNCHANGED <<adapterVars, job, began, ack, mmVars, now, historyVars>>

\* disconnect() forgets the in-memory tables, whatever is being published.
Disconnect ==
  /\ disconnects < MaxDisconnects
  /\ disconnects' = disconnects + 1
  /\ accepted' = <<>>
  /\ drafts' = [d \in {} |-> None]
  /\ recent' = [f \in {} |-> None]
  /\ UNCHANGED <<draftSeq, taskVars, mmVars, now, everAccepted, finalized>>

-----------------------------------------------------------------------------
(* The environment                                                         *)

\* The daemon acts on a request: a known idempotency key adds nothing.
DaemonPosts(r) ==
  /\ r \in inflight
  /\ inflight' = inflight \ {r}
  /\ posts' = IF \E p \in posts : p.key = r.key THEN posts ELSE posts \cup {r}
  /\ UNCHANGED <<adapterVars, taskVars, now, historyVars>>

\* Time passes while tasks are suspended; taking a free lock takes no time.
Tick ==
  /\ now < MaxTime
  /\ lock # None \/ \A t \in Tasks : pc[t] # "waiting"
  /\ now' = now + 1
  /\ UNCHANGED <<adapterVars, taskVars, mmVars, historyVars>>

Hermes ==
  \/ \E o \in Objects : RememberAcceptedReply(o)
  \/ \E t \in Tasks, chat \in Threads, content \in Contents,
        reply \in Objects \cup {None}, meta \in Metadata :
        SendPublish(t, chat, content, reply, meta)
  \/ \E chat \in Threads, content \in Contents,
        reply \in Objects \cup {None}, meta \in Metadata :
        SendBuffer(chat, content, reply, meta)
  \/ \E chat \in Threads, d \in DOMAIN drafts, content \in Contents :
        \/ EditPreview(chat, d, content)
        \/ EditDiscard(chat, d, content)
        \/ \E t \in Tasks : EditFinalize(t, chat, d, content)

Publish(t) == ReuseRecent(t) \/ StartPost(t) \/ PostSucceeds(t) \/ PostFails(t)

Next ==
  \/ Hermes
  \/ \E t \in Tasks : Publish(t) \/ Cancel(t)
  \/ Disconnect
  \/ \E r \in inflight : DaemonPosts(r)
  \/ Tick

Spec == Init /\ [][Next]_vars

\* The event loop runs a waiter once the lock is free, and a child process
\* returns or is killed by command_timeout.  Hermes, the daemon and the clock
\* owe nothing.
FairSpec == Spec /\ \A t \in Tasks : WF_vars(Publish(t))

-----------------------------------------------------------------------------
(* Properties                                                              *)

\* The whole outbound half implements the log of licensed posts: previews,
\* retries, timeouts, evictions and cancellations are invisible in it, and every
\* step either leaves it alone or signs one licensed answer that is new to it.
Log == INSTANCE SignedLog
LogSpec == Log!Spec

\* Fail closed: whatever previews, edits, retries, evictions and disconnects
\* came in between, nothing unlicensed is handed to "mm post" or is in the
\* public log (outbound.py's policy and both callers of _publish).
FailClosed == \A r \in inflight \cup posts : Log!Licensed(r)

\* An answer to one event is signed once per text, however often it is sent
\* again after a timeout, a cancellation or a forgotten cache: its digest must
\* not depend on the time (_delivery_key with a stable reply target).
AnswerSignedOnce ==
  \A p, q \in posts : Log!SameAnswer(p, q) => p = q

\* The key names a signed post, of that text in that thread.
Posted(key, f) ==
  \E p \in posts :
    /\ p.key = key
    /\ key \notin SuppliedKeys => Fingerprint(p) = f

\* A delivery reported as successful is in the log, in the right thread and
\* with the right text, also when it is another call's post that is reused.
\* A key that Hermes supplied itself may name any text.
AckedIsPosted ==
  \A t \in Tasks : pc[t] = "acked" => Posted(ack[t], Fingerprint(job[t]))

NothingForgotten ==
  /\ disconnects = 0
  /\ IsFiniteSet(Threads \X Contents)
  /\ Cardinality(Threads \X Contents) <= MaxRecent

\* While the cache forgets nothing, no two successful deliveries of one text
\* to one thread both ran "mm post" within the window, whichever tasks waited
\* for the lock in between.
CloseDeliveriesReuse ==
  NothingForgotten =>
    \A t, u \in Tasks :
      /\ t # u
      /\ pc[t] = "acked" /\ pc[u] = "acked"
      /\ began[t] # None /\ began[u] # None
      /\ Fingerprint(job[t]) = Fingerprint(job[u])
      => began[t] - began[u] > Window \/ began[u] - began[t] > Window

\* The documented promise: identical deliveries requested within five seconds
\* of each other share the first signed post (adapter.md, "Identical finalized
\* deliveries in the same thread within five seconds reuse the first signed
\* post").  The code measures the age of the cached post from before "mm post"
\* runs, so a slow first post is stale when the second task gets the lock.
IdenticalDeliveriesReuse ==
  NothingForgotten =>
    \A t, u \in Tasks :
      /\ pc[t] = "acked" /\ pc[u] = "acked"
      /\ job[u] = [job[t] EXCEPT !.asked = job[u].asked]
      /\ job[u].asked - job[t].asked \in 0..Window
      => ack[t] = ack[u]

\* Every _publish returns: the lock is handed on after a success, an error, a
\* timeout and a cancellation.
PublishReturns ==
  \A t \in Tasks : pc[t] = "waiting" ~> pc[t] \in Returned

=============================================================================
