------------------------------ MODULE Outbound ------------------------------
(***************************************************************************)
(* The publication policy of outbound.py: which of its three outcomes one  *)
(* Hermes adapter send gets, before anything is signed into a public post. *)
(*                                                                         *)
(* A text is a member of some set of contents; the regular expression for  *)
(* failure envelopes is the subset Operational of the contents it matches. *)
(* Metadata is a record of the exact-boolean markers the code looks at: a  *)
(* marker is TRUE only when the code's "is True" test succeeds.            *)
(***************************************************************************)

CONSTANTS
  None,          \* Python's None: no reply target, no holder, no value
  Operational    \* texts _HERMES_OPERATIONAL_OUTPUT_RE recognises

IsOperationalOutput(content) == content \in Operational

\* The two ways to immediate publication.  The explicit marker is honoured
\* whatever the text is; the final marker needs the accepted follow event.
MayPublish(content, meta, acceptedFollowReply) ==
  \/ meta.micromeet_publish
  \/ /\ acceptedFollowReply
     /\ meta.notify
     /\ ~IsOperationalOutput(content)

\* A preview of an accepted reply, to be finalized by a later edit.
MayBuffer(reply, meta, acceptedFollowReply) ==
  /\ ~meta.micromeet_publish
  /\ acceptedFollowReply
  /\ ~meta.notify
  /\ reply # None \/ meta.expect_edits

ClassifyOutbound(content, reply, meta, acceptedFollowReply) ==
  IF MayPublish(content, meta, acceptedFollowReply) THEN "publish"
  ELSE IF MayBuffer(reply, meta, acceptedFollowReply) THEN "buffer"
  ELSE "suppress"

=============================================================================
