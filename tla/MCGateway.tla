----------------------------- MODULE MCGateway -----------------------------
(***************************************************************************)
(* Small instances of Gateway.                                             *)
(***************************************************************************)
EXTENDS Gateway, TLC

CONSTANTS a, hi, err, empty, w1, w2

Arrival(kind, own, defect) ==
  [kind |-> kind, own |-> own, defect |-> defect, thread |-> a]

MCArriving ==
  {Arrival("post", FALSE, "none"), Arrival("post", TRUE, "none"),
   Arrival("post", FALSE, "malformed"), Arrival("post", FALSE, "unverified"),
   Arrival("post", FALSE, "overlong"), Arrival("other", FALSE, "none")}

MCThreadOf == [c \in 1..MaxInbox |-> a]

\* A final answer and a preview.
MCMetadata ==
  [micromeet_publish : {FALSE}, notify : BOOLEAN, expect_edits : {FALSE},
   idempotency_key : {None}, reply_to_message_id : {None}]

TurnSymmetry == Permutations(Workers)

=============================================================================
