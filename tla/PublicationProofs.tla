------------------------- MODULE PublicationProofs -------------------------
(***************************************************************************)
(* Theorems about Publication for every value of its constants.            *)
(***************************************************************************)
EXTENDS Publication, SequenceTheorems, FiniteSetTheorems, TLAPS

-----------------------------------------------------------------------------
(* Type correctness                                                        *)

\* Ticks are counted in whole buckets.
LEMMA BucketInNat ==
  ASSUME NEW m \in Nat, NEW n \in Nat \ {0}
  PROVE  m \div n \in Nat
  BY SMT

\* A call turns into a well-formed key and request.
LEMMA RequestType ==
  ASSUME NEW j \in Job, NEW time \in Nat
  PROVE  /\ DeliveryKey(j, time) \in Key
         /\ RequestAt(j, time) \in Request
<1>1. time \div Window \in Nat
  BY BucketInNat, PublicationAssumption
<1>2. /\ j.meta.idempotency_key \in SuppliedKeys \cup {None}
      /\ j.meta.reply_to_message_id \in Objects \cup {None}
      /\ j.chat \in Threads /\ j.content \in Contents /\ j.meta \in Metadata
      /\ j.reply \in Objects \cup {None} /\ j.draft \in Nat
  BY PublicationAssumption DEF Job
<1>3. StableReply(j) \in Objects \cup {None}
  BY <1>2 DEF StableReply
<1>4. DeliveryKey(j, time) \in Key
  BY <1>1, <1>2, <1>3 DEF DeliveryKey, Key, Digest
<1>5. QED
  BY <1>2, <1>4 DEF RequestAt, Request

\* Remembering an accepted event keeps a bounded sequence, of old and new.
LEMMA RememberedType ==
  ASSUME accepted \in Seq(Objects), Len(accepted) <= MaxReplies,
         NEW o \in Objects
  PROVE  /\ Remembered(o) \in Seq(Objects)
         /\ Len(Remembered(o)) <= MaxReplies
         /\ Range(Remembered(o)) \subseteq Range(accepted) \cup {o}
<1>0. MaxReplies \in Nat \ {0}
  BY PublicationAssumption
<1> DEFINE grown == IF o \in Range(accepted) THEN accepted
                    ELSE Append(accepted, o)
<1>1. /\ grown \in Seq(Objects) /\ Len(grown) \in Nat
      /\ Len(grown) <= MaxReplies + 1
      /\ Range(grown) \subseteq Range(accepted) \cup {o}
  BY <1>0 DEF Range
<1>2. CASE Len(grown) > MaxReplies
  <2>1. grown # <<>>
    BY <1>0, <1>1, <1>2
  <2>2. /\ Tail(grown) \in Seq(Objects)
        /\ Len(Tail(grown)) = Len(grown) - 1
        /\ \A i \in 1..Len(Tail(grown)) : Tail(grown)[i] = grown[i + 1]
    BY <1>1, <2>1
  <2>3. Range(Tail(grown)) \subseteq Range(grown)
    BY <1>1, <2>2 DEF Range
  <2>4. QED
    BY <1>0, <1>1, <1>2, <2>2, <2>3 DEF Remembered
<1>3. CASE ~(Len(grown) > MaxReplies)
  BY <1>0, <1>1, <1>3 DEF Remembered
<1>4. QED
  BY <1>2, <1>3

\* Posting leaves a cache of deliveries, whose new entry is the one made.
LEMMA CacheWithType ==
  ASSUME TypeOK, NEW f \in Threads \X Contents,
         NEW entry \in [at : Nat, key : Key], NEW cache \in CacheWith(f, entry)
  PROVE  /\ DOMAIN cache \subseteq DOMAIN recent \cup {f}
         /\ cache \in [DOMAIN cache -> [at : Nat, key : Key]]
         /\ \A g \in DOMAIN cache :
              cache[g] = IF g = f THEN entry ELSE recent[g]
<1> DEFINE grown == [g \in DOMAIN recent \cup {f} |->
                       IF g = f THEN entry ELSE recent[g]]
<1>1. \/ cache = grown
      \/ \E g \in DOMAIN recent : cache = Restrict(grown, DOMAIN grown \ {g})
  BY DEF CacheWith, Without
<1>2. grown \in [DOMAIN recent \cup {f} -> [at : Nat, key : Key]]
  BY DEF TypeOK
<1>3. CASE cache = grown
  BY <1>2, <1>3
<1>4. CASE \E g \in DOMAIN recent : cache = Restrict(grown, DOMAIN grown \ {g})
  BY <1>2, <1>4 DEF Restrict
<1>5. QED
  BY <1>1, <1>3, <1>4

\* Dropping a published draft leaves a table of drafts.
LEMMA DropPublishedType ==
  ASSUME TypeOK, NEW t \in Tasks, DropPublished(t)
  PROVE  /\ DOMAIN drafts' \subseteq DOMAIN drafts
         /\ drafts' \in [DOMAIN drafts' -> Draft]
         /\ \A d \in DOMAIN drafts' : drafts'[d] = drafts[d]
  BY DEF TypeOK, DropPublished, Without, Restrict

\* The call that a waiting, posting or finished task makes.
LEMMA EnqueueType ==
  ASSUME TypeOK, NEW t \in Tasks, NEW j \in Job, Enqueue(t, j)
  PROVE  /\ lock' \in Tasks \cup {None}
         /\ pc' \in [Tasks -> {"idle", "waiting", "posting"} \cup Returned]
         /\ job' \in [Tasks -> Job \cup {None}]
         /\ began' \in [Tasks -> Nat \cup {None}]
         /\ ack' \in [Tasks -> Key \cup {None}]
         /\ \A u \in Tasks : pc'[u] # "idle" => job'[u] \in Job
         /\ \A u \in Tasks : pc'[u] = "posting" => began'[u] \in Nat
  BY DEF TypeOK, Enqueue

LEMMA InitTypeOK == Init => TypeOK
<1>1. Window - 1 \in Nat /\ MaxReplies \in Nat
  BY PublicationAssumption
<1>2. QED
  BY <1>1 DEF Init, TypeOK

LEMMA NextTypeOK == TypeOK /\ [Next]_vars => TypeOK'
<1> SUFFICES ASSUME TypeOK, [Next]_vars PROVE TypeOK'
  OBVIOUS
<1>1. ASSUME NEW o \in Objects, RememberAcceptedReply(o) PROVE TypeOK'
  BY <1>1, RememberedType
     DEF TypeOK, RememberAcceptedReply, taskVars, mmVars, Returned
<1>2. ASSUME NEW t \in Tasks, NEW chat \in Threads, NEW content \in Contents,
             NEW reply \in Objects \cup {None}, NEW meta \in Metadata,
             SendPublish(t, chat, content, reply, meta)
      PROVE  TypeOK'
  <2> DEFINE j == [chat |-> chat, content |-> content, reply |-> reply,
                   meta |-> meta, draft |-> 0, asked |-> now]
  <2>1. j \in Job
    BY DEF Job, TypeOK
  <2>2. Enqueue(t, j)
    BY <1>2 DEF SendPublish
  <2> HIDE DEF j
  <2>3. QED
    BY <1>2, <2>1, <2>2, EnqueueType
       DEF TypeOK, SendPublish, adapterVars, mmVars, historyVars
<1>3. ASSUME NEW chat \in Threads, NEW content \in Contents,
             NEW reply \in Objects \cup {None}, NEW meta \in Metadata,
             SendBuffer(chat, content, reply, meta)
      PROVE  TypeOK'
  <2>1. /\ draftSeq' = draftSeq + 1 /\ draftSeq \in Nat
        /\ DOMAIN drafts' \subseteq DOMAIN drafts \cup {draftSeq + 1}
        /\ drafts' \in [DOMAIN drafts' -> Draft]
    BY <1>3 DEF SendBuffer, TypeOK, Draft
  <2>2. DOMAIN drafts' \subseteq 1..draftSeq'
    BY <2>1 DEF TypeOK
  <2>3. QED
    BY <1>3, <2>1, <2>2
       DEF TypeOK, SendBuffer, taskVars, mmVars, historyVars, Returned
<1>4. ASSUME NEW chat \in Threads, NEW d \in DOMAIN drafts,
             NEW content \in Contents, EditPreview(chat, d, content)
      PROVE  TypeOK'
  <2>1. /\ DOMAIN drafts' = DOMAIN drafts
        /\ drafts' \in [DOMAIN drafts' -> Draft]
    <3>1. drafts' = [drafts EXCEPT ![d].content = content]
      BY <1>4 DEF EditPreview
    <3>2. drafts \in [DOMAIN drafts -> Draft]
      BY DEF TypeOK
    <3>3. QED
      BY ONLY <3>1, <3>2, d \in DOMAIN drafts, content \in Contents DEF Draft
  <2>2. QED
    BY <1>4, <2>1
       DEF TypeOK, EditPreview, taskVars, mmVars, historyVars, Returned
<1>5. ASSUME NEW chat \in Threads, NEW d \in DOMAIN drafts,
             NEW content \in Contents, EditDiscard(chat, d, content)
      PROVE  TypeOK'
  <2>1. /\ DOMAIN drafts' \subseteq DOMAIN drafts
        /\ drafts' \in [DOMAIN drafts' -> Draft]
    BY <1>5 DEF EditDiscard, TypeOK, Without, Restrict
  <2>2. QED
    BY <1>5, <2>1
       DEF TypeOK, EditDiscard, taskVars, mmVars, historyVars, Returned
<1>6. ASSUME NEW chat \in Threads, NEW d \in DOMAIN drafts,
             NEW content \in Contents, NEW t \in Tasks,
             EditFinalize(t, chat, d, content)
      PROVE  TypeOK'
  <2> DEFINE j == [chat |-> drafts[d].chat, content |-> content,
                   reply |-> drafts[d].reply, meta |-> drafts[d].meta,
                   draft |-> d, asked |-> now]
  <2>1. drafts[d] \in Draft /\ d \in Nat
    BY DEF TypeOK
  <2>2. j \in Job
    BY <2>1 DEF Job, Draft, TypeOK
  <2>3. Enqueue(t, j)
    BY <1>6 DEF EditFinalize
  <2>4. /\ DOMAIN drafts' = DOMAIN drafts
        /\ drafts' \in [DOMAIN drafts' -> Draft]
    <3>1. drafts' = [drafts EXCEPT ![d].content = content]
      BY <1>6 DEF EditFinalize
    <3>2. drafts \in [DOMAIN drafts -> Draft]
      BY DEF TypeOK
    <3>3. QED
      BY ONLY <3>1, <3>2, d \in DOMAIN drafts, content \in Contents DEF Draft
  <2>5. finalized' \subseteq Nat \X Contents
    BY <1>6, <2>1 DEF EditFinalize, TypeOK
  <2> HIDE DEF j
  <2>6. QED
    BY <1>6, <2>2, <2>3, <2>4, <2>5, EnqueueType
       DEF TypeOK, EditFinalize, mmVars
<1>7. ASSUME NEW t \in Tasks, ReuseRecent(t) PROVE TypeOK'
  <2>1. ack' \in [Tasks -> Key \cup {None}]
    BY <1>7 DEF TypeOK, ReuseRecent, CacheHit
  <2>2. DropPublished(t)
    BY <1>7 DEF ReuseRecent
  <2>3. QED
    BY <1>7, <2>1, <2>2, DropPublishedType
       DEF TypeOK, ReuseRecent, mmVars, historyVars, Returned
<1>8. ASSUME NEW t \in Tasks, StartPost(t) PROVE TypeOK'
  <2>1. job[t] \in Job
    BY <1>8 DEF StartPost, TypeOK
  <2>2. RequestAt(job[t], now) \in Request
    BY <2>1, RequestType DEF TypeOK
  <2>3. QED
    BY <1>8, <2>2 DEF TypeOK, StartPost, adapterVars, historyVars, Returned
<1>9. ASSUME NEW t \in Tasks, PostSucceeds(t) PROVE TypeOK'
  <2>1. job[t] \in Job /\ began[t] \in Nat
    BY <1>9 DEF PostSucceeds, TypeOK
  <2>2. KeyOf(t) \in Key /\ Fingerprint(job[t]) \in Threads \X Contents
    BY <2>1, RequestType DEF KeyOf, Fingerprint, Job
  <2>3. [at |-> began[t], key |-> KeyOf(t)] \in [at : Nat, key : Key]
    BY <2>1, <2>2
  <2>4. /\ DOMAIN recent' \subseteq Threads \X Contents
        /\ recent' \in [DOMAIN recent' -> [at : Nat, key : Key]]
    BY <1>9, <2>2, <2>3, CacheWithType DEF PostSucceeds, TypeOK
  <2>5. DropPublished(t)
    BY <1>9 DEF PostSucceeds
  <2>6. QED
    BY <1>9, <2>2, <2>4, <2>5, DropPublishedType
       DEF TypeOK, PostSucceeds, mmVars, historyVars, Returned
<1>10. ASSUME NEW t \in Tasks, PostFails(t) PROVE TypeOK'
  BY <1>10 DEF TypeOK, PostFails, adapterVars, historyVars, Returned
<1>11. ASSUME NEW t \in Tasks, Cancel(t) PROVE TypeOK'
  BY <1>11 DEF TypeOK, Cancel, adapterVars, mmVars, historyVars, Returned
<1>12. ASSUME Disconnect PROVE TypeOK'
  <2>1. Len(<<>>) <= MaxReplies /\ disconnects' \in Nat
    BY <1>12, PublicationAssumption DEF Disconnect, TypeOK
  <2>2. QED
    BY <1>12, <2>1 DEF TypeOK, Disconnect, taskVars, mmVars, Returned
<1>13. ASSUME NEW r \in inflight, DaemonPosts(r) PROVE TypeOK'
  BY <1>13 DEF TypeOK, DaemonPosts, adapterVars, taskVars, historyVars
<1>14. ASSUME Tick PROVE TypeOK'
  BY <1>14 DEF TypeOK, Tick, adapterVars, taskVars, mmVars, historyVars
<1>15. CASE UNCHANGED vars
  BY <1>15 DEF TypeOK, vars, adapterVars, taskVars, mmVars, historyVars
<1>16. QED
  BY <1>1, <1>2, <1>3, <1>4, <1>5, <1>6, <1>7, <1>8, <1>9, <1>10, <1>11,
     <1>12, <1>13, <1>14, <1>15 DEF Next, Hermes, Publish

\* The adapter's tables keep their bounds and their types.
THEOREM TypeCorrect == Spec => []TypeOK
  BY InitTypeOK, NextTypeOK, PTL DEF Spec

-----------------------------------------------------------------------------
(* Fail closed                                                             *)

\* A licence can only be checked where it is granted: what is remembered was
\* accepted, a draft answers an accepted post of its thread, and a call that
\* waits for the lock already has its licence.
LicenceInv ==
  /\ Range(accepted) \subseteq everAccepted
  /\ \A d \in DOMAIN drafts :
        drafts[d].reply \in everAccepted /\ ThreadOf[drafts[d].reply] = drafts[d].chat
  /\ \A t \in Tasks : pc[t] # "idle" => Log!Licensed(job[t])
  /\ FailClosed

\* More accepted events and more finalized texts revoke no licence.
LEMMA LicensedMonotone ==
  ASSUME NEW r, Log!Licensed(r), everAccepted \subseteq everAccepted',
         finalized \subseteq finalized'
  PROVE  Log!Licensed(r)'
  BY DEF Log!Licensed

\* A request has the licence of the call it was made for.
LEMMA LicensedRequest ==
  ASSUME NEW j \in Job, NEW time, Log!Licensed(j)
  PROVE  Log!Licensed(RequestAt(j, time))
  BY DEF Log!Licensed, RequestAt

LEMMA AcceptedReplyIsRemembered ==
  ASSUME NEW chat, NEW reply, AcceptedFollowReply(chat, reply), LicenceInv
  PROVE  reply \in everAccepted /\ ThreadOf[reply] = chat
  BY DEF AcceptedFollowReply, LicenceInv

\* Enqueueing a licensed call keeps the part about calls.
LEMMA EnqueueLicensed ==
  ASSUME TypeOK, LicenceInv, NEW t \in Tasks, NEW j \in Job, Enqueue(t, j),
         Log!Licensed(j)', everAccepted \subseteq everAccepted',
         finalized \subseteq finalized'
  PROVE  \A u \in Tasks : pc'[u] # "idle" => Log!Licensed(job[u])'
<1> TAKE u \in Tasks
<1> HAVE pc'[u] # "idle"
<1>1. CASE u = t
  <2>1. job'[u] = j
    BY <1>1 DEF Enqueue, TypeOK
  <2>2. QED
    BY <2>1 DEF Log!Licensed
<1>2. CASE u # t
  <2>1. job'[u] = job[u] /\ pc[u] # "idle"
    BY <1>2 DEF Enqueue, TypeOK
  <2>2. Log!Licensed(job[u])
    BY <2>1 DEF LicenceInv
  <2>3. QED
    BY <2>1, <2>2 DEF Log!Licensed
<1>3. QED
  BY <1>1, <1>2

\* Everything a licence depends on is left alone.
LicenceFrame ==
  /\ UNCHANGED <<accepted, everAccepted, finalized>>
  /\ DOMAIN drafts' \subseteq DOMAIN drafts
  /\ \A d \in DOMAIN drafts' :
        drafts'[d].reply = drafts[d].reply /\ drafts'[d].chat = drafts[d].chat

\* A step that moves tasks on, drops drafts and signs nothing new.
LEMMA TaskStepKeepsLicences ==
  ASSUME LicenceInv, LicenceFrame, UNCHANGED job,
         \A t \in Tasks : pc'[t] # "idle" => pc[t] # "idle",
         \A r \in inflight' \cup posts' :
            r \in inflight \cup posts \/ Log!Licensed(r)
  PROVE  LicenceInv'
<1>1. \A d \in DOMAIN drafts' :
        drafts'[d].reply \in everAccepted /\ ThreadOf[drafts'[d].reply] = drafts'[d].chat
  BY DEF LicenceInv, LicenceFrame
<1>2. \A t \in Tasks : pc'[t] # "idle" => Log!Licensed(job[t])
  BY DEF LicenceInv
<1>3. \A r \in inflight' \cup posts' : Log!Licensed(r)
  BY DEF LicenceInv, FailClosed
<1>4. QED
  BY <1>1, <1>2, <1>3 DEF LicenceInv, LicenceFrame, FailClosed, Log!Licensed

LEMMA NextLicence == TypeOK /\ LicenceInv /\ [Next]_vars => LicenceInv'
<1> SUFFICES ASSUME TypeOK, LicenceInv, [Next]_vars PROVE LicenceInv'
  OBVIOUS
<1>1. ASSUME NEW o \in Objects, RememberAcceptedReply(o) PROVE LicenceInv'
  <2>1. Range(accepted') \subseteq everAccepted'
    BY <1>1, RememberedType DEF RememberAcceptedReply, LicenceInv, TypeOK
  <2>2. QED
    BY <1>1, <2>1 DEF RememberAcceptedReply, LicenceInv, FailClosed, Log!Licensed,
                      taskVars, mmVars
<1>2. ASSUME NEW t \in Tasks, NEW chat \in Threads, NEW content \in Contents,
             NEW reply \in Objects \cup {None}, NEW meta \in Metadata,
             SendPublish(t, chat, content, reply, meta)
      PROVE  LicenceInv'
  <2>1. PICK j \in Job :
          j = [chat |-> chat, content |-> content, reply |-> reply,
               meta |-> meta, draft |-> 0, asked |-> now]
    BY DEF Job, TypeOK
  <2>2. Log!Licensed(j)
    BY <1>2, <2>1, AcceptedReplyIsRemembered
       DEF SendPublish, ClassifyOutbound, MayPublish, MayBuffer,
           IsOperationalOutput, Log!Licensed
  <2>3. Enqueue(t, j) /\ UNCHANGED <<adapterVars, mmVars, historyVars>>
    BY <1>2, <2>1 DEF SendPublish
  <2>4. Log!Licensed(j)'
    BY <2>2, <2>3 DEF Log!Licensed, historyVars
  <2>5. \A u \in Tasks : pc'[u] # "idle" => Log!Licensed(job[u])'
    BY <2>1, <2>3, <2>4, EnqueueLicensed DEF historyVars
  <2>6. QED
    BY <2>3, <2>5 DEF LicenceInv, FailClosed, Log!Licensed, adapterVars, mmVars,
                      historyVars
<1>3. ASSUME NEW chat \in Threads, NEW content \in Contents,
             NEW reply \in Objects \cup {None}, NEW meta \in Metadata,
             SendBuffer(chat, content, reply, meta)
      PROVE  LicenceInv'
  <2>1. reply \in everAccepted /\ ThreadOf[reply] = chat
    BY <1>3, AcceptedReplyIsRemembered
       DEF SendBuffer, ClassifyOutbound, MayPublish, MayBuffer
  <2>2. \A d \in DOMAIN drafts' :
          \/ drafts'[d].reply = reply /\ drafts'[d].chat = chat
          \/ d \in DOMAIN drafts /\ drafts'[d] = drafts[d]
    BY <1>3 DEF SendBuffer
  <2>3. QED
    BY <1>3, <2>1, <2>2
       DEF SendBuffer, LicenceInv, FailClosed, Log!Licensed, taskVars, mmVars,
           historyVars
<1>4. ASSUME NEW chat \in Threads, NEW d \in DOMAIN drafts,
             NEW content \in Contents, EditPreview(chat, d, content)
      PROVE  LicenceInv'
  <2>1. LicenceFrame
    BY <1>4 DEF LicenceFrame, EditPreview, TypeOK, Draft, historyVars
  <2>2. QED
    BY <1>4, <2>1, TaskStepKeepsLicences DEF EditPreview, taskVars, mmVars
<1>5. ASSUME NEW chat \in Threads, NEW d \in DOMAIN drafts,
             NEW content \in Contents, EditDiscard(chat, d, content)
      PROVE  LicenceInv'
  <2>1. LicenceFrame
    BY <1>5 DEF LicenceFrame, EditDiscard, Without, Restrict, historyVars
  <2>2. QED
    BY <1>5, <2>1, TaskStepKeepsLicences DEF EditDiscard, taskVars, mmVars
<1>6. ASSUME NEW chat \in Threads, NEW d \in DOMAIN drafts,
             NEW content \in Contents, NEW t \in Tasks,
             EditFinalize(t, chat, d, content)
      PROVE  LicenceInv'
  <2>1. drafts[d] \in Draft /\ d \in Nat
    BY DEF TypeOK
  <2>2. PICK j \in Job :
          j = [chat |-> drafts[d].chat, content |-> content,
               reply |-> drafts[d].reply, meta |-> drafts[d].meta,
               draft |-> d, asked |-> now]
    BY <2>1 DEF Job, Draft, TypeOK
  <2>3. Log!Licensed(j)'
    BY <1>6, <2>2
       DEF EditFinalize, LicenceInv, IsOperationalOutput, Log!Licensed
  <2>4. Enqueue(t, j) /\ UNCHANGED <<accepted, mmVars, everAccepted>>
    BY <1>6, <2>2 DEF EditFinalize
  <2>5. finalized \subseteq finalized'
    BY <1>6 DEF EditFinalize
  <2>6. \A u \in Tasks : pc'[u] # "idle" => Log!Licensed(job[u])'
    BY <2>2, <2>3, <2>4, <2>5, EnqueueLicensed
  <2>7. DOMAIN drafts' = DOMAIN drafts
        /\ \A e \in DOMAIN drafts : /\ drafts'[e].reply = drafts[e].reply
                                    /\ drafts'[e].chat = drafts[e].chat
    BY <1>6 DEF EditFinalize, TypeOK, Draft
  <2>8. QED
    BY <2>4, <2>5, <2>6, <2>7
       DEF LicenceInv, FailClosed, Log!Licensed, mmVars
<1>7. ASSUME NEW t \in Tasks, ReuseRecent(t) PROVE LicenceInv'
  <2>1. DropPublished(t)
    BY <1>7 DEF ReuseRecent
  <2>2. LicenceFrame
    BY <1>7, <2>1, DropPublishedType DEF LicenceFrame, ReuseRecent, historyVars
  <2>3. QED
    BY <1>7, <2>2, TaskStepKeepsLicences DEF ReuseRecent, TypeOK, mmVars
<1>8. ASSUME NEW t \in Tasks, StartPost(t) PROVE LicenceInv'
  <2>1. job[t] \in Job /\ Log!Licensed(job[t])
    BY <1>8 DEF StartPost, TypeOK, LicenceInv
  <2>2. Log!Licensed(RequestAt(job[t], now))
    BY <2>1, LicensedRequest
  <2>3. LicenceFrame
    BY <1>8 DEF LicenceFrame, StartPost, adapterVars, historyVars
  <2>4. QED
    BY <1>8, <2>2, <2>3, TaskStepKeepsLicences DEF StartPost, TypeOK
<1>9. ASSUME NEW t \in Tasks, PostSucceeds(t) PROVE LicenceInv'
  <2>1. DropPublished(t)
    BY <1>9 DEF PostSucceeds
  <2>2. LicenceFrame
    BY <1>9, <2>1, DropPublishedType DEF LicenceFrame, PostSucceeds, historyVars
  <2>3. QED
    BY <1>9, <2>2, TaskStepKeepsLicences DEF PostSucceeds, TypeOK, mmVars
<1>10. ASSUME NEW t \in Tasks, PostFails(t) PROVE LicenceInv'
  <2>1. LicenceFrame
    BY <1>10 DEF LicenceFrame, PostFails, adapterVars, historyVars
  <2>2. QED
    BY <1>10, <2>1, TaskStepKeepsLicences DEF PostFails, TypeOK
<1>11. ASSUME NEW t \in Tasks, Cancel(t) PROVE LicenceInv'
  <2>1. LicenceFrame
    BY <1>11 DEF LicenceFrame, Cancel, adapterVars, historyVars
  <2>2. QED
    BY <1>11, <2>1, TaskStepKeepsLicences DEF Cancel, TypeOK, mmVars
<1>12. ASSUME Disconnect PROVE LicenceInv'
  <2>1. Range(accepted') = {} /\ DOMAIN drafts' = {}
    BY <1>12 DEF Disconnect, Range
  <2>2. QED
    BY <1>12, <2>1
       DEF Disconnect, LicenceInv, FailClosed, Log!Licensed, taskVars, mmVars
<1>13. ASSUME NEW r \in inflight, DaemonPosts(r) PROVE LicenceInv'
  <2>1. LicenceFrame
    BY <1>13 DEF LicenceFrame, DaemonPosts, adapterVars, historyVars
  <2>2. QED
    BY <1>13, <2>1, TaskStepKeepsLicences DEF DaemonPosts, taskVars
<1>14. ASSUME Tick PROVE LicenceInv'
  <2>1. LicenceFrame
    BY <1>14 DEF LicenceFrame, Tick, adapterVars, historyVars
  <2>2. QED
    BY <1>14, <2>1, TaskStepKeepsLicences DEF Tick, taskVars, mmVars
<1>15. CASE UNCHANGED vars
  <2>1. LicenceFrame
    BY <1>15 DEF LicenceFrame, vars, adapterVars, historyVars
  <2>2. QED
    BY <1>15, <2>1, TaskStepKeepsLicences DEF vars, taskVars, mmVars
<1>16. QED
  BY <1>1, <1>2, <1>3, <1>4, <1>5, <1>6, <1>7, <1>8, <1>9, <1>10, <1>11,
     <1>12, <1>13, <1>14, <1>15 DEF Next, Hermes, Publish

LEMMA InitLicence == Init => LicenceInv
  BY DEF Init, LicenceInv, FailClosed, Range

\* The publication boundary is fail closed: no interleaving of sends, edits,
\* retries, cancellations, evictions and disconnects signs an unlicensed text.
THEOREM PublicationFailsClosed == Spec => []FailClosed
<1>1. LicenceInv => FailClosed
  BY DEF LicenceInv
<1>2. QED
  BY <1>1, InitTypeOK, NextTypeOK, InitLicence, NextLicence, PTL DEF Spec

-----------------------------------------------------------------------------
(* Keys                                                                    *)

\* A digest says what it is the digest of, and is free of time when there is
\* something to reply to.
KeyMatches(r) ==
  r.key \notin SuppliedKeys =>
    /\ r.key \in Digest
    /\ r.key.chat = r.chat /\ r.key.content = r.content
    /\ r.key.stable = StableReply(r)
    /\ StableReply(r) # None => r.key.bucket = None

\* The log has one post per key, and what the cache and the finished calls
\* name is in it.
KeyInv ==
  /\ \A r \in inflight \cup posts : KeyMatches(r)
  /\ \A p, q \in posts : p.key = q.key => p = q
  /\ \A f \in DOMAIN recent : Posted(recent[f].key, f)
  /\ AckedIsPosted

LEMMA RequestKeyMatches ==
  ASSUME NEW j \in Job, NEW time \in Nat
  PROVE  KeyMatches(RequestAt(j, time))
<1>1. DeliveryKey(j, time) \in Key
  BY RequestType
<1>2. CASE j.meta.idempotency_key # None
  <2>1. j.meta.idempotency_key \in SuppliedKeys
    BY <1>2, PublicationAssumption DEF Job
  <2>2. QED
    BY <1>2, <2>1 DEF KeyMatches, RequestAt, DeliveryKey
<1>3. CASE j.meta.idempotency_key = None
  <2>1. RequestAt(j, time).key \notin SuppliedKeys =>
          RequestAt(j, time).key \in Digest
    BY <1>1 DEF RequestAt, Key
  <2>2. QED
    BY <1>3, <2>1 DEF KeyMatches, RequestAt, DeliveryKey, StableReply
<1>4. QED
  BY <1>2, <1>3

\* A call that shares its digest with a post shares thread and text with it.
LEMMA SameDigestSameText ==
  ASSUME NEW j \in Job, NEW time \in Nat, NEW p, KeyMatches(p),
         p.key = DeliveryKey(j, time), p.key \notin SuppliedKeys
  PROVE  Fingerprint(p) = Fingerprint(j)
<1>1. j.meta.idempotency_key = None
  BY PublicationAssumption DEF Job, DeliveryKey
<1>2. QED
  BY <1>1 DEF KeyMatches, DeliveryKey, Fingerprint

LEMMA PostedMonotone ==
  ASSUME NEW key, NEW f, Posted(key, f), posts \subseteq posts'
  PROVE  Posted(key, f)'
  BY DEF Posted

\* A step that leaves requests, log, cache and outcomes alone.
LEMMA FrameKeepsKeys ==
  ASSUME TypeOK, KeyInv, UNCHANGED <<recent, ack, mmVars>>,
         \A t \in Tasks : pc'[t] = "acked" => pc[t] = "acked" /\ job'[t] = job[t]
  PROVE  KeyInv'
<1>1. \A t \in Tasks : pc'[t] = "acked" => Posted(ack[t], Fingerprint(job'[t]))
  BY DEF KeyInv, AckedIsPosted
<1>2. QED
  BY <1>1 DEF KeyInv, AckedIsPosted, Posted, KeyMatches, mmVars

LEMMA NextKeys == TypeOK /\ KeyInv /\ [Next]_vars => KeyInv'
<1> SUFFICES ASSUME TypeOK, KeyInv, [Next]_vars PROVE KeyInv'
  OBVIOUS
<1>1. CASE Hermes
  <2>1. ASSUME NEW t \in Tasks, NEW j, Enqueue(t, j), UNCHANGED <<recent, mmVars>>
        PROVE  KeyInv'
    <3>1. /\ UNCHANGED ack
          /\ \A u \in Tasks :
               pc'[u] = "acked" => pc[u] = "acked" /\ job'[u] = job[u]
      BY <2>1 DEF Enqueue, TypeOK
    <3>2. QED
      BY <2>1, <3>1, FrameKeepsKeys
  <2>2. ASSUME UNCHANGED <<recent, taskVars, mmVars>> PROVE KeyInv'
    BY <2>2, FrameKeepsKeys DEF taskVars
  <2>3. CASE \E o \in Objects : RememberAcceptedReply(o)
    BY <2>2, <2>3 DEF RememberAcceptedReply
  <2>4. CASE \E t \in Tasks, chat \in Threads, content \in Contents,
                reply \in Objects \cup {None}, meta \in Metadata :
                SendPublish(t, chat, content, reply, meta)
    <3>1. PICK t \in Tasks, chat \in Threads, content \in Contents,
               reply \in Objects \cup {None}, meta \in Metadata :
               SendPublish(t, chat, content, reply, meta)
      BY <2>4
    <3>2. PICK j : Enqueue(t, j)
      BY <3>1 DEF SendPublish
    <3>3. QED
      BY <2>1, <3>1, <3>2 DEF SendPublish, adapterVars
  <2>5. CASE \E chat \in Threads, content \in Contents,
                reply \in Objects \cup {None}, meta \in Metadata :
                SendBuffer(chat, content, reply, meta)
    BY <2>2, <2>5 DEF SendBuffer
  <2>6. ASSUME NEW chat \in Threads, NEW d \in DOMAIN drafts,
               NEW content \in Contents,
               EditPreview(chat, d, content) \/ EditDiscard(chat, d, content)
        PROVE  KeyInv'
    BY <2>2, <2>6 DEF EditPreview, EditDiscard
  <2>7. ASSUME NEW chat \in Threads, NEW d \in DOMAIN drafts,
               NEW content \in Contents, NEW t \in Tasks,
               EditFinalize(t, chat, d, content)
        PROVE  KeyInv'
    <3>1. PICK j : Enqueue(t, j)
      BY <2>7 DEF EditFinalize
    <3>2. QED
      BY <2>1, <2>7, <3>1 DEF EditFinalize
  <2>8. QED
    BY <1>1, <2>3, <2>4, <2>5, <2>6, <2>7 DEF Hermes
<1>2. ASSUME NEW t \in Tasks, ReuseRecent(t) PROVE KeyInv'
  <2>1. /\ Fingerprint(job[t]) \in DOMAIN recent
        /\ ack'[t] = recent[Fingerprint(job[t])].key
    BY <1>2 DEF ReuseRecent, CacheHit, TypeOK
  <2>2. \A u \in Tasks : pc'[u] = "acked" => Posted(ack'[u], Fingerprint(job[u]))
    BY <1>2, <2>1 DEF ReuseRecent, KeyInv, AckedIsPosted, TypeOK
  <2>3. UNCHANGED <<recent, job, inflight, posts>>
    BY <1>2 DEF ReuseRecent, mmVars
  <2>4. QED
    BY <2>2, <2>3 DEF KeyInv, AckedIsPosted, Posted, KeyMatches
<1>3. ASSUME NEW t \in Tasks, StartPost(t) PROVE KeyInv'
  <2>1. KeyMatches(RequestAt(job[t], now))
    BY <1>3, RequestKeyMatches DEF StartPost, TypeOK
  <2>2. \A r \in inflight' \cup posts' : KeyMatches(r)
    BY <1>3, <2>1 DEF StartPost, KeyInv
  <2>3. /\ UNCHANGED <<recent, job, ack, posts>>
        /\ \A u \in Tasks : pc'[u] = "acked" => pc[u] = "acked"
    BY <1>3 DEF StartPost, adapterVars, TypeOK
  <2>4. QED
    BY <2>2, <2>3 DEF KeyInv, AckedIsPosted, Posted, KeyMatches
<1>4. ASSUME NEW t \in Tasks, PostSucceeds(t) PROVE KeyInv'
  <2>1. job[t] \in Job /\ began[t] \in Nat
    BY <1>4 DEF PostSucceeds, TypeOK
  <2>2. PICK p \in posts : p.key = KeyOf(t)
    BY <1>4 DEF PostSucceeds
  <2>3. Posted(KeyOf(t), Fingerprint(job[t]))
    BY <2>1, <2>2, SameDigestSameText DEF KeyOf, Posted, KeyInv
  <2>4. KeyOf(t) \in Key /\ Fingerprint(job[t]) \in Threads \X Contents
    BY <2>1, RequestType DEF KeyOf, Fingerprint, Job
  <2>5. \A g \in DOMAIN recent' : Posted(recent'[g].key, g)
    <3> DEFINE entry == [at |-> began[t], key |-> KeyOf(t)]
    <3>1. entry \in [at : Nat, key : Key]
      BY <2>1, <2>4
    <3>2. recent' \in CacheWith(Fingerprint(job[t]), entry)
      BY <1>4 DEF PostSucceeds
    <3> HIDE DEF entry
    <3>3. /\ DOMAIN recent' \subseteq DOMAIN recent \cup {Fingerprint(job[t])}
          /\ \A g \in DOMAIN recent' :
               recent'[g] = IF g = Fingerprint(job[t]) THEN entry ELSE recent[g]
      BY <2>4, <3>1, <3>2, CacheWithType
    <3>4. entry.key = KeyOf(t)
      BY DEF entry
    <3>5. QED
      BY <2>3, <3>3, <3>4 DEF KeyInv
  <2>6. \A u \in Tasks : pc'[u] = "acked" => Posted(ack'[u], Fingerprint(job[u]))
    BY <1>4, <2>3 DEF PostSucceeds, KeyInv, AckedIsPosted, TypeOK
  <2>7. UNCHANGED <<job, inflight, posts>>
    BY <1>4 DEF PostSucceeds, mmVars
  <2>8. QED
    BY <2>5, <2>6, <2>7 DEF KeyInv, AckedIsPosted, Posted, KeyMatches
<1>5. ASSUME NEW t \in Tasks, PostFails(t) PROVE KeyInv'
  <2>1. /\ inflight' \subseteq inflight /\ UNCHANGED <<recent, job, ack, posts>>
        /\ \A u \in Tasks : pc'[u] = "acked" => pc[u] = "acked"
    BY <1>5 DEF PostFails, adapterVars, TypeOK
  <2>2. QED
    BY <2>1 DEF KeyInv, AckedIsPosted, Posted, KeyMatches
<1>6. ASSUME NEW t \in Tasks, Cancel(t) PROVE KeyInv'
  <2>1. /\ UNCHANGED <<recent, ack, mmVars>>
        /\ \A u \in Tasks :
             pc'[u] = "acked" => pc[u] = "acked" /\ job'[u] = job[u]
    BY <1>6 DEF Cancel, adapterVars, TypeOK
  <2>2. QED
    BY <2>1, FrameKeepsKeys
<1>7. CASE Disconnect
  <2>1. DOMAIN recent' = {} /\ UNCHANGED <<pc, job, ack, inflight, posts>>
    BY <1>7 DEF Disconnect, taskVars, mmVars
  <2>2. QED
    BY <2>1 DEF KeyInv, AckedIsPosted, Posted, KeyMatches
<1>8. ASSUME NEW r \in inflight, DaemonPosts(r) PROVE KeyInv'
  <2>1. UNCHANGED <<recent, pc, job, ack>>
    BY <1>8 DEF DaemonPosts, adapterVars, taskVars
  <2>2. posts \subseteq posts'
    BY <1>8 DEF DaemonPosts
  <2>3. \A s \in inflight' \cup posts' : KeyMatches(s)
    BY <1>8 DEF DaemonPosts, KeyInv
  <2>4. \A p, q \in posts' : p.key = q.key => p = q
    BY <1>8 DEF DaemonPosts, KeyInv
  <2>5. /\ \A f \in DOMAIN recent : Posted(recent[f].key, f)'
        /\ \A t \in Tasks :
             pc[t] = "acked" => Posted(ack[t], Fingerprint(job[t]))'
    BY <2>1, <2>2, PostedMonotone DEF KeyInv, AckedIsPosted, Posted
  <2>6. QED
    BY <2>1, <2>3, <2>4, <2>5 DEF KeyInv, AckedIsPosted, Posted, KeyMatches
<1>9. CASE Tick
  <2>1. UNCHANGED <<recent, pc, job, ack, mmVars>>
    BY <1>9 DEF Tick, adapterVars, taskVars
  <2>2. QED
    BY <2>1, FrameKeepsKeys
<1>10. CASE UNCHANGED vars
  <2>1. UNCHANGED <<recent, pc, job, ack, mmVars>>
    BY <1>10 DEF vars, adapterVars, taskVars
  <2>2. QED
    BY <2>1, FrameKeepsKeys
<1>11. QED
  BY <1>1, <1>2, <1>3, <1>4, <1>5, <1>6, <1>7, <1>8, <1>9, <1>10
     DEF Next, Publish

LEMMA InitKeys == Init => KeyInv
  BY DEF Init, KeyInv, AckedIsPosted

\* Two requests for the same answer have the same key.
LEMMA SameAnswerSameKey ==
  ASSUME NEW p, NEW q, KeyMatches(p), KeyMatches(q), Log!SameAnswer(p, q)
  PROVE  p.key = q.key
<1>1. p.key \in Digest /\ q.key \in Digest
  BY DEF KeyMatches, Log!SameAnswer
<1>2. StableReply(p) = Log!Answered(p) /\ StableReply(q) = Log!Answered(q)
  BY DEF StableReply, Log!Answered
<1>3. /\ p.key.chat = q.key.chat /\ p.key.content = q.key.content
      /\ p.key.stable = q.key.stable /\ p.key.bucket = q.key.bucket
  BY <1>2 DEF KeyMatches, Log!SameAnswer
<1>4. QED
  BY <1>1, <1>3 DEF Digest

\* An answer to one event is signed once per text, whatever is retried.
THEOREM AnswersAreSignedOnce == Spec => []AnswerSignedOnce
<1>1. KeyInv => AnswerSignedOnce
  BY SameAnswerSameKey DEF KeyInv, AnswerSignedOnce
<1>2. QED
  BY <1>1, InitTypeOK, NextTypeOK, InitKeys, NextKeys, PTL DEF Spec

\* What a call reports as delivered is in the public log, text and thread.
THEOREM AckedDeliveriesArePosted == Spec => []AckedIsPosted
<1>1. KeyInv => AckedIsPosted
  BY DEF KeyInv
<1>2. QED
  BY <1>1, InitTypeOK, NextTypeOK, InitKeys, NextKeys, PTL DEF Spec

-----------------------------------------------------------------------------
(* The public log                                                          *)

\* A step leaves the log alone, or adds one request that was in flight and
\* whose key the log does not have.
LEMMA PostsStep ==
  ASSUME [Next]_vars
  PROVE  \/ posts' = posts
         \/ /\ UNCHANGED <<everAccepted, finalized>>
            /\ \E r \in inflight : /\ posts' = posts \cup {r}
                                  /\ \A p \in posts : p.key # r.key
<1>1. CASE Hermes
  <2>1. (\E o \in Objects : RememberAcceptedReply(o)) => UNCHANGED posts
    BY DEF RememberAcceptedReply, mmVars
  <2>2. (\E t \in Tasks, chat \in Threads, content \in Contents,
           reply \in Objects \cup {None}, meta \in Metadata :
           SendPublish(t, chat, content, reply, meta)) => UNCHANGED posts
    BY DEF SendPublish, mmVars
  <2>3. (\E chat \in Threads, content \in Contents,
           reply \in Objects \cup {None}, meta \in Metadata :
           SendBuffer(chat, content, reply, meta)) => UNCHANGED posts
    BY DEF SendBuffer, mmVars
  <2>4. (\E chat \in Threads, d \in DOMAIN drafts, content \in Contents :
           \/ EditPreview(chat, d, content)
           \/ EditDiscard(chat, d, content)
           \/ \E t \in Tasks : EditFinalize(t, chat, d, content))
          => UNCHANGED posts
    BY DEF EditPreview, EditDiscard, EditFinalize, mmVars
  <2>5. QED
    BY <1>1, <2>1, <2>2, <2>3, <2>4 DEF Hermes
<1>2. CASE \E t \in Tasks : Publish(t) \/ Cancel(t)
  BY <1>2 DEF Publish, ReuseRecent, StartPost, PostSucceeds, PostFails, Cancel,
              mmVars
<1>3. CASE Disconnect \/ Tick \/ UNCHANGED vars
  BY <1>3 DEF Disconnect, Tick, vars, mmVars
<1>4. CASE \E r \in inflight : DaemonPosts(r)
  BY <1>4 DEF DaemonPosts, historyVars
<1>5. QED
  BY <1>1, <1>2, <1>3, <1>4 DEF Next

\* Accepted events and finalized texts are never taken back.
LEMMA PermitsGrow ==
  ASSUME [Next]_vars
  PROVE  everAccepted \subseteq everAccepted' /\ finalized \subseteq finalized'
<1>1. CASE Hermes
  BY <1>1 DEF Hermes, RememberAcceptedReply, SendPublish, SendBuffer,
              EditPreview, EditDiscard, EditFinalize, historyVars
<1>2. CASE \E t \in Tasks : Publish(t) \/ Cancel(t)
  BY <1>2 DEF Publish, ReuseRecent, StartPost, PostSucceeds, PostFails, Cancel,
              historyVars
<1>3. CASE Disconnect \/ Tick \/ UNCHANGED vars
  BY <1>3 DEF Disconnect, Tick, vars, historyVars
<1>4. CASE \E r \in inflight : DaemonPosts(r)
  BY <1>4 DEF DaemonPosts, historyVars
<1>5. QED
  BY <1>1, <1>2, <1>3, <1>4 DEF Next

\* The invariants of the outbound half that its log rests on.
OutboundInv == TypeOK /\ LicenceInv /\ KeyInv

LEMMA InitOutbound == Init => OutboundInv /\ Log!Init
<1>1. Init => Log!Init
  BY DEF Init, Log!Init
<1>2. QED
  BY <1>1, InitTypeOK, InitLicence, InitKeys DEF OutboundInv

LEMMA NextOutbound == OutboundInv /\ [Next]_vars => OutboundInv'
BY NextTypeOK, NextLicence, NextKeys DEF OutboundInv

\* What the theorems above say of Spec, of any state with the invariant.
LEMMA OutboundPromises ==
  OutboundInv => FailClosed /\ AnswerSignedOnce /\ AckedIsPosted
BY SameAnswerSameKey
   DEF OutboundInv, LicenceInv, KeyInv, AnswerSignedOnce

\* A step only permits more, or signs one licensed answer that is new.
LEMMA StepOfLog ==
  ASSUME OutboundInv, [Next]_vars
  PROVE  [Log!Next]_(Log!vars)
<1>1. CASE posts' = posts
  <2>1. Log!Permit
    BY <1>1, PermitsGrow DEF Log!Permit
  <2>2. QED
    BY <2>1 DEF Log!Next
<1>2. CASE posts' # posts
  <2>1. PICK r \in inflight : /\ posts' = posts \cup {r}
                              /\ \A p \in posts : p.key # r.key
    BY <1>2, PostsStep
  <2>2. UNCHANGED <<everAccepted, finalized>>
    BY <1>2, PostsStep
  <2>3. Log!Licensed(r)
    BY DEF OutboundInv, LicenceInv, FailClosed
  <2>4. \A p \in posts : ~Log!SameAnswer(p, r)
    BY <2>1, SameAnswerSameKey DEF OutboundInv, KeyInv
  <2>5. r \in posts' \ posts
    BY <1>2, <2>1
  <2>6. Log!Sign
    BY <2>1, <2>2, <2>3, <2>4, <2>5 DEF Log!Sign
  <2>7. QED
    BY <2>6 DEF Log!Next
<1>3. QED
  BY <1>1, <1>2

\* Whatever is retried, cancelled, evicted and disconnected in between, the
\* outbound half only ever signs licensed answers that are new to the log.
THEOREM ImplementsLog == Spec => LogSpec
BY InitOutbound, NextOutbound, StepOfLog, PTL DEF Spec, LogSpec, Log!Spec

\* The process dies: its tables, its lock and its calls are gone.
Forget ==
  /\ accepted' = <<>> /\ DOMAIN drafts' = {} /\ DOMAIN recent' = {}
  /\ drafts' \in [{} -> Draft]
  /\ recent' \in [{} -> [at : Nat, key : Key]]
  /\ lock' = None
  /\ pc' = [t \in Tasks |->
              IF pc[t] \in {"waiting", "posting"} THEN "cancelled" ELSE pc[t]]
  /\ disconnects' = disconnects + 1
  /\ UNCHANGED <<draftSeq, job, began, ack, mmVars, now, everAccepted,
                 finalized>>

\* What another process finds in the log is what it would have written itself.
LEMMA ForgetKeepsOutbound ==
  ASSUME OutboundInv, Forget
  PROVE  OutboundInv' /\ UNCHANGED Log!vars
<1>1. TypeOK'
  <2>1. Len(<<>>) <= MaxReplies /\ disconnects' \in Nat
    BY PublicationAssumption DEF OutboundInv, TypeOK, Forget
  <2>2. QED
    BY <2>1 DEF OutboundInv, TypeOK, Forget, mmVars, Returned
<1>2. /\ \A t \in Tasks : pc'[t] # "idle" => pc[t] # "idle"
      /\ \A t \in Tasks : pc'[t] = "acked" => pc[t] = "acked"
      /\ Range(accepted') = {}
  BY DEF Forget, Range
<1>3. LicenceInv'
  BY <1>2 DEF OutboundInv, LicenceInv, Forget, FailClosed, Log!Licensed, mmVars
<1>4. KeyInv'
  BY <1>2 DEF OutboundInv, KeyInv, Forget, AckedIsPosted, Posted, KeyMatches,
     mmVars
<1>5. UNCHANGED Log!vars
  BY DEF Forget, Log!vars, mmVars
<1>6. QED
  BY <1>1, <1>3, <1>4, <1>5 DEF OutboundInv

-----------------------------------------------------------------------------
(* Close deliveries                                                        *)

\* A successful call that ran "mm post" itself.
Ran(t) == pc[t] = "acked" /\ began[t] # None

\* The lock serializes the posts, and a call that waits has no post yet.
LockInv ==
  /\ \A t \in Tasks : pc[t] = "posting" => lock = t
  /\ \A t \in Tasks : pc[t] \in {"idle", "waiting"} => began[t] = None

Apart(t, u) == began[t] - began[u] > Window

\* A post that ran is in the cache, with its own time or a later one, and the
\* one that runs now began after the window of all that ran before.
ReuseInv ==
  NothingForgotten =>
    /\ \A u \in Tasks : Ran(u) =>
         /\ Fingerprint(job[u]) \in DOMAIN recent
         /\ began[u] <= recent[Fingerprint(job[u])].at
    /\ \A t, u \in Tasks :
         /\ Ran(u) /\ t # u /\ Fingerprint(job[t]) = Fingerprint(job[u])
         => /\ pc[t] = "posting" => Apart(t, u)
            /\ Ran(t) => Apart(t, u) \/ Apart(u, t)

LEMMA InitReuse == Init => LockInv /\ ReuseInv
  BY DEF Init, LockInv, ReuseInv, Ran

\* A step in which no call starts or finishes a post.
LEMMA FrameKeepsReuse ==
  ASSUME TypeOK, LockInv, ReuseInv, UNCHANGED <<recent, began, disconnects>>,
         \A t \in Tasks : Ran(t)' => Ran(t) /\ job'[t] = job[t],
         \A t \in Tasks : pc'[t] = "posting" =>
            pc[t] = "posting" /\ job'[t] = job[t] /\ lock' = lock,
         \A t \in Tasks : pc'[t] \in {"idle", "waiting"} =>
            pc[t] \in {"idle", "waiting"}
  PROVE  LockInv' /\ ReuseInv'
<1>1. LockInv'
  BY DEF LockInv
<1>2. ReuseInv'
  <2> SUFFICES ASSUME NothingForgotten'
               PROVE  /\ \A u \in Tasks : Ran(u)' =>
                           /\ Fingerprint(job'[u]) \in DOMAIN recent'
                           /\ began'[u] <= recent'[Fingerprint(job'[u])].at
                      /\ \A t, u \in Tasks :
                           /\ Ran(u)' /\ t # u
                           /\ Fingerprint(job'[t]) = Fingerprint(job'[u])
                           => /\ pc'[t] = "posting" => Apart(t, u)'
                              /\ Ran(t)' => Apart(t, u)' \/ Apart(u, t)'
    BY DEF ReuseInv, Fingerprint
  <2>1. NothingForgotten
    BY DEF NothingForgotten
  <2>2. QED
    BY <2>1 DEF ReuseInv, Apart
<1>3. QED
  BY <1>1, <1>2

LEMMA NextReuse ==
  TypeOK /\ LockInv /\ ReuseInv /\ [Next]_vars => LockInv' /\ ReuseInv'
<1> SUFFICES ASSUME TypeOK, LockInv, ReuseInv, [Next]_vars
             PROVE  LockInv' /\ ReuseInv'
  OBVIOUS
<1>1. ASSUME NEW t \in Tasks, NEW j, Enqueue(t, j),
             UNCHANGED <<recent, disconnects>>
      PROVE  LockInv' /\ ReuseInv'
  <2>1. UNCHANGED <<lock, began>>
    BY <1>1 DEF Enqueue
  <2>2. \A u \in Tasks : u # t => pc'[u] = pc[u] /\ job'[u] = job[u]
    BY <1>1 DEF Enqueue, TypeOK
  <2>3. pc[t] = "idle" /\ pc'[t] = "waiting"
    BY <1>1 DEF Enqueue, TypeOK
  <2>4. \A u \in Tasks : Ran(u)' => Ran(u) /\ job'[u] = job[u]
    BY <2>1, <2>2, <2>3 DEF Ran
  <2>5. QED
    BY <1>1, <2>1, <2>2, <2>3, <2>4, FrameKeepsReuse
<1>2. ASSUME UNCHANGED <<recent, taskVars, disconnects>>
      PROVE  LockInv' /\ ReuseInv'
  <2>1. UNCHANGED <<recent, began, pc, job, lock, disconnects>>
    BY <1>2 DEF taskVars
  <2>2. \A u \in Tasks : Ran(u)' => Ran(u)
    BY <2>1 DEF Ran
  <2>3. QED
    BY <2>1, <2>2, FrameKeepsReuse
<1>3. ASSUME NEW o \in Objects, RememberAcceptedReply(o)
      PROVE  LockInv' /\ ReuseInv'
  BY <1>2, <1>3 DEF RememberAcceptedReply
<1>4. ASSUME NEW t \in Tasks, NEW chat \in Threads, NEW content \in Contents,
             NEW reply \in Objects \cup {None}, NEW meta \in Metadata,
             SendPublish(t, chat, content, reply, meta)
      PROVE  LockInv' /\ ReuseInv'
  <2>1. PICK j : Enqueue(t, j)
    BY <1>4 DEF SendPublish
  <2>2. QED
    BY <1>1, <1>4, <2>1 DEF SendPublish, adapterVars, historyVars
<1>5. ASSUME NEW chat \in Threads, NEW content \in Contents,
             NEW reply \in Objects \cup {None}, NEW meta \in Metadata,
             SendBuffer(chat, content, reply, meta)
      PROVE  LockInv' /\ ReuseInv'
  BY <1>2, <1>5 DEF SendBuffer, historyVars
<1>6. ASSUME NEW chat \in Threads, NEW d \in DOMAIN drafts,
             NEW content \in Contents,
             EditPreview(chat, d, content) \/ EditDiscard(chat, d, content)
      PROVE  LockInv' /\ ReuseInv'
  BY <1>2, <1>6 DEF EditPreview, EditDiscard, historyVars
<1>7. ASSUME NEW chat \in Threads, NEW d \in DOMAIN drafts,
             NEW content \in Contents, NEW t \in Tasks,
             EditFinalize(t, chat, d, content)
      PROVE  LockInv' /\ ReuseInv'
  <2>1. PICK j : Enqueue(t, j)
    BY <1>7 DEF EditFinalize
  <2>2. QED
    BY <1>1, <1>7, <2>1 DEF EditFinalize
<1>8. ASSUME NEW t \in Tasks, ReuseRecent(t) PROVE LockInv' /\ ReuseInv'
  <2>1. began[t] = None /\ pc'[t] = "acked"
    BY <1>8 DEF ReuseRecent, LockInv, TypeOK
  <2>2. /\ UNCHANGED <<recent, began, job, lock, disconnects>>
        /\ \A u \in Tasks : u # t => pc'[u] = pc[u]
    BY <1>8 DEF ReuseRecent, TypeOK, historyVars
  <2>3. \A u \in Tasks : Ran(u)' => Ran(u)
    BY <2>1, <2>2 DEF Ran
  <2>4. QED
    BY <2>1, <2>2, <2>3, FrameKeepsReuse
<1>9. ASSUME NEW t \in Tasks, StartPost(t) PROVE LockInv' /\ ReuseInv'
  <2>1. /\ lock = None /\ lock' = t /\ pc[t] = "waiting" /\ pc'[t] = "posting"
        /\ began'[t] = now /\ ~CacheHit(Fingerprint(job[t]))
        /\ UNCHANGED <<recent, job, disconnects>>
        /\ \A u \in Tasks : u # t => pc'[u] = pc[u] /\ began'[u] = began[u]
    BY <1>9 DEF StartPost, TypeOK, adapterVars, historyVars
  <2>2. LockInv'
    BY <2>1, PublicationAssumption DEF LockInv, TypeOK
  <2>3. \A u \in Tasks : Ran(u)' => Ran(u) /\ u # t /\ began'[u] = began[u]
    BY <2>1 DEF Ran
  <2>4. NothingForgotten' => NothingForgotten
    BY <2>1 DEF NothingForgotten
  <2>5. ASSUME NothingForgotten, NEW u \in Tasks, Ran(u),
               Fingerprint(job[t]) = Fingerprint(job[u])
        PROVE  now - began[u] > Window
    <3>1. /\ Fingerprint(job[t]) \in DOMAIN recent
          /\ began[u] <= recent[Fingerprint(job[t])].at
      BY <2>5 DEF ReuseInv
    <3>2. recent[Fingerprint(job[t])].at \in Nat /\ now \in Nat
      BY <3>1 DEF TypeOK
    <3>3. began[u] \in Nat
      BY <2>5 DEF Ran, TypeOK
    <3>4. now - recent[Fingerprint(job[t])].at > Window
      BY <2>1, <3>1, <3>2, PublicationAssumption DEF CacheHit
    <3>5. Window \in Nat
      BY PublicationAssumption
    <3>6. QED
      BY <3>1, <3>2, <3>3, <3>4, <3>5
  <2>6. \A s \in Tasks : pc'[s] = "posting" => s = t
    BY <2>1, PublicationAssumption DEF LockInv
  <2>7. ReuseInv'
    <3> SUFFICES ASSUME NothingForgotten',
                        NEW u \in Tasks, Ran(u)'
                 PROVE  /\ Fingerprint(job[u]) \in DOMAIN recent'
                        /\ began'[u] <= recent'[Fingerprint(job[u])].at
                        /\ \A s \in Tasks :
                             /\ s # u
                             /\ Fingerprint(job[s]) = Fingerprint(job[u])
                             => /\ pc'[s] = "posting" => Apart(s, u)'
                                /\ Ran(s)' => Apart(s, u)' \/ Apart(u, s)'
      BY <2>1 DEF ReuseInv, Fingerprint
    <3>1. NothingForgotten /\ Ran(u) /\ u # t /\ began'[u] = began[u]
      BY <2>3, <2>4
    <3>2. /\ Fingerprint(job[u]) \in DOMAIN recent'
          /\ began'[u] <= recent'[Fingerprint(job[u])].at
      BY <2>1, <3>1 DEF ReuseInv
    <3>3. ASSUME NEW s \in Tasks, s # u,
                 Fingerprint(job[s]) = Fingerprint(job[u]), pc'[s] = "posting"
          PROVE  Apart(s, u)'
      <4>1. s = t
        BY <2>6, <3>3
      <4>2. now - began[u] > Window
        BY <2>5, <3>1, <3>3, <4>1
      <4>3. QED
        BY <2>1, <3>1, <4>1, <4>2 DEF Apart
    <3>4. ASSUME NEW s \in Tasks, s # u,
                 Fingerprint(job[s]) = Fingerprint(job[u]), Ran(s)'
          PROVE  Apart(s, u)' \/ Apart(u, s)'
      <4>1. Ran(s) /\ began'[s] = began[s]
        BY <2>3, <3>4
      <4>2. Apart(s, u) \/ Apart(u, s)
        BY <3>1, <3>4, <4>1 DEF ReuseInv
      <4>3. QED
        BY <3>1, <4>1, <4>2 DEF Apart
    <3>5. QED
      BY <3>2, <3>3, <3>4
  <2>8. QED
    BY <2>2, <2>7
<1>10. ASSUME NEW t \in Tasks, PostSucceeds(t) PROVE LockInv' /\ ReuseInv'
  <2> DEFINE f == Fingerprint(job[t])
             entry == [at |-> began[t], key |-> KeyOf(t)]
  <2>1. /\ pc[t] = "posting" /\ pc'[t] = "acked" /\ lock' = None
        /\ recent' \in CacheWith(f, entry)
        /\ UNCHANGED <<began, job, disconnects>>
        /\ \A u \in Tasks : u # t => pc'[u] = pc[u]
    BY <1>10 DEF PostSucceeds, TypeOK, historyVars
  <2>2. job[t] \in Job /\ began[t] \in Nat /\ f \in Threads \X Contents
    BY <2>1 DEF TypeOK, Fingerprint, Job
  <2>3. \A u \in Tasks : pc'[u] # "posting"
    BY <2>1 DEF LockInv
  <2>4. LockInv'
    BY <2>1, <2>3 DEF LockInv
  <2>5. \A u \in Tasks : Ran(u)' => u = t \/ Ran(u)
    BY <2>1 DEF Ran
  <2>6. ASSUME NothingForgotten
        PROVE  /\ DOMAIN recent' = DOMAIN recent \cup {f}
               /\ recent'[f].at = began[t]
               /\ \A g \in DOMAIN recent : g # f => recent'[g] = recent[g]
    <3>1. PICK grown : grown = [g \in DOMAIN recent \cup {f} |->
                                 IF g = f THEN entry ELSE recent[g]]
      OBVIOUS
    <3>2. DOMAIN grown \in SUBSET (Threads \X Contents)
      BY <2>2, <3>1 DEF TypeOK
    <3>3. Cardinality(DOMAIN grown) <= Cardinality(Threads \X Contents)
      BY <2>6, <3>2, FS_Subset DEF NothingForgotten
    <3>4. /\ Cardinality(DOMAIN grown) \in Nat
          /\ Cardinality(Threads \X Contents) \in Nat
      BY <2>6, <3>2, FS_Subset, FS_CardinalityType DEF NothingForgotten
    <3>5. Cardinality(DOMAIN grown) <= MaxRecent
      BY <2>6, <3>3, <3>4, PublicationAssumption DEF NothingForgotten
    <3>6. recent' = grown
      BY <2>1, <3>1, <3>5 DEF CacheWith
    <3>7. QED
      BY <3>1, <3>6
  <2> HIDE DEF f, entry
  <2>7. ASSUME NothingForgotten, NEW u \in Tasks, u # t, Ran(u),
               f = Fingerprint(job[u])
        PROVE  Apart(t, u) /\ began[u] <= began[t]
    <3>1. Apart(t, u)
      BY <2>1, <2>7 DEF ReuseInv, f
    <3>2. began[u] \in Nat /\ Window \in Nat
      BY <2>7, PublicationAssumption DEF Ran, TypeOK
    <3>3. QED
      BY <2>2, <3>1, <3>2 DEF Apart
  <2>8. ReuseInv'
    <3> SUFFICES ASSUME NothingForgotten', NEW u \in Tasks, Ran(u)'
                 PROVE  /\ Fingerprint(job[u]) \in DOMAIN recent'
                        /\ began[u] <= recent'[Fingerprint(job[u])].at
                        /\ \A s \in Tasks :
                             /\ s # u /\ Ran(s)'
                             /\ Fingerprint(job[s]) = Fingerprint(job[u])
                             => Apart(s, u) \/ Apart(u, s)
      BY <2>1, <2>3 DEF ReuseInv, Fingerprint, Apart
    <3>1. NothingForgotten
      BY <2>1 DEF NothingForgotten
    <3>2. CASE u = t
      <4>1. \A s \in Tasks :
              s # u /\ Ran(s)' /\ Fingerprint(job[s]) = Fingerprint(job[u])
              => Apart(u, s)
        BY <2>5, <2>7, <3>1, <3>2 DEF f
      <4>2. Fingerprint(job[u]) = f /\ began[u] <= recent'[f].at
        BY <2>2, <2>6, <3>1, <3>2 DEF f
      <4>3. QED
        BY <2>6, <3>1, <4>1, <4>2
    <3>3. CASE u # t /\ Fingerprint(job[u]) = f
      <4>1. Ran(u)
        BY <2>5, <3>3
      <4>2. Apart(t, u) /\ began[u] <= began[t]
        BY <2>7, <3>1, <3>3, <4>1
      <4>3. \A s \in Tasks :
              s # u /\ Ran(s)' /\ Fingerprint(job[s]) = Fingerprint(job[u])
              => Apart(s, u) \/ Apart(u, s)
        BY <2>5, <3>1, <4>1, <4>2 DEF ReuseInv
      <4>4. QED
        BY <2>6, <3>1, <3>3, <4>2, <4>3
    <3>4. CASE u # t /\ Fingerprint(job[u]) # f
      <4>1. Ran(u)
        BY <2>5, <3>4
      <4>2. /\ Fingerprint(job[u]) \in DOMAIN recent
            /\ began[u] <= recent[Fingerprint(job[u])].at
        BY <3>1, <4>1 DEF ReuseInv
      <4>3. \A s \in Tasks :
              s # u /\ Ran(s)' /\ Fingerprint(job[s]) = Fingerprint(job[u])
              => Apart(s, u) \/ Apart(u, s)
        BY <2>5, <3>1, <3>4, <4>1 DEF ReuseInv, f
      <4>4. QED
        BY <2>6, <3>1, <3>4, <4>2, <4>3
    <3>5. QED
      BY <3>2, <3>3, <3>4
  <2>9. QED
    BY <2>4, <2>8
<1>11. ASSUME NEW t \in Tasks, PostFails(t) \/ Cancel(t)
       PROVE  LockInv' /\ ReuseInv'
  <2>1. /\ UNCHANGED <<recent, began, job, disconnects>>
        /\ pc'[t] \in {"failed", "cancelled"}
        /\ \A u \in Tasks : u # t => pc'[u] = pc[u]
        /\ lock' = lock \/ lock = t
    BY <1>11 DEF PostFails, Cancel, TypeOK, adapterVars, historyVars, LockInv
  <2>2. \A u \in Tasks : Ran(u)' => Ran(u)
    BY <2>1 DEF Ran
  <2>3. \A u \in Tasks : pc'[u] = "posting" => pc[u] = "posting" /\ lock' = lock
    BY <2>1 DEF LockInv
  <2>4. \A u \in Tasks : pc'[u] \in {"idle", "waiting"} =>
                           pc[u] \in {"idle", "waiting"}
    BY <2>1
  <2>5. QED
    BY <2>1, <2>2, <2>3, <2>4, FrameKeepsReuse
<1>12. CASE Disconnect
  <2>1. UNCHANGED <<lock, pc, began>> /\ disconnects' # 0
    BY <1>12 DEF Disconnect, taskVars, TypeOK
  <2>2. QED
    BY <2>1 DEF LockInv, ReuseInv, NothingForgotten
<1>13. CASE (\E r \in inflight : DaemonPosts(r)) \/ Tick \/ UNCHANGED vars
  BY <1>2, <1>13 DEF DaemonPosts, Tick, vars, adapterVars, historyVars
<1>14. QED
  BY <1>3, <1>4, <1>5, <1>6, <1>7, <1>8, <1>9, <1>10, <1>11, <1>12, <1>13
     DEF Next, Hermes, Publish

\* While the cache forgets nothing, two posts of one text to one thread that
\* both ran are further apart than the window.
THEOREM CloseDeliveriesAreReused == Spec => []CloseDeliveriesReuse
<1>1. ReuseInv => CloseDeliveriesReuse
  BY DEF ReuseInv, CloseDeliveriesReuse, Ran, Apart
<1>2. QED
  BY <1>1, InitTypeOK, NextTypeOK, InitReuse, NextReuse, PTL DEF Spec

=============================================================================
