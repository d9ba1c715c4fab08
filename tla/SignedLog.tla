----------------------------- MODULE SignedLog -----------------------------
(***************************************************************************)
(* What the outbound half promises about the public log, without calls,    *)
(* drafts, locks, caches, retries or a clock: posts are only added, one at *)
(* a time; each had its licence when it was signed; and the answer to one  *)
(* event is signed once per text (adapter.md, outbound.md).                *)
(***************************************************************************)
CONSTANTS
  None,
  Operational,    \* texts that are failure envelopes
  ThreadOf,       \* the thread of each inbound post
  SuppliedKeys    \* idempotency keys that Hermes makes up itself

VARIABLES
  posts,          \* the signed public log
  everAccepted,   \* the inbound posts that Hermes was handed
  finalized       \* <<draft, text>> pairs that Hermes declared final

vars == <<posts, everAccepted, finalized>>

\* What a request needs before anyone may sign it: the explicit marker, or a
\* follow event that was accepted for this very thread and a text that is no
\* failure envelope and that Hermes declared final, by the marker of a direct
\* send or by finalizing the preview.
Licensed(r) ==
  \/ r.meta.micromeet_publish
  \/ /\ r.reply \in everAccepted
     /\ ThreadOf[r.reply] = r.chat
     /\ r.content \notin Operational
     /\ r.meta.notify \/ <<r.draft, r.content>> \in finalized

\* The event that a request answers: reply_to, or the metadata's hint.
Answered(r) == IF r.reply # None THEN r.reply ELSE r.meta.reply_to_message_id

SameAnswer(p, r) ==
  /\ <<p.chat, p.content, Answered(p)>> = <<r.chat, r.content, Answered(r)>>
  /\ Answered(r) # None
  /\ {p.key, r.key} \cap SuppliedKeys = {}

Init == posts = {} /\ everAccepted = {} /\ finalized = {}

\* Licences are never revoked.
Permit ==
  /\ everAccepted \subseteq everAccepted'
  /\ finalized \subseteq finalized'
  /\ UNCHANGED posts

Sign ==
  /\ \E r \in posts' \ posts :
       /\ posts' = posts \cup {r}
       /\ Licensed(r)
       /\ \A p \in posts : p.key # r.key /\ ~SameAnswer(p, r)
  /\ UNCHANGED <<everAccepted, finalized>>

Next == Permit \/ Sign

Spec == Init /\ [][Next]_vars

=============================================================================
