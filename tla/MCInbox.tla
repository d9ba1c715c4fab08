------------------------------ MODULE MCInbox ------------------------------
(***************************************************************************)
(* Small instances of Inbox.                                               *)
(***************************************************************************)
EXTENDS Inbox

CONSTANTS a, b

Arrival(kind, own, defect, thread) ==
  [kind |-> kind, own |-> own, defect |-> defect, thread |-> thread]

\* Posts with an acceptable line and with one over the stream's limit.
MCOverlong ==
  {Arrival("post", FALSE, "none", a), Arrival("post", FALSE, "overlong", a)}

\* What a sound daemon announces.
MCSound ==
  {Arrival("topic_root", FALSE, "none", a), Arrival("post", TRUE, "none", a),
   Arrival("post", FALSE, "none", a), Arrival("post", FALSE, "none", b)}

\* An own post, a peer's post, and a line over the stream's limit.
MCArriving ==
  {Arrival("post", TRUE, "none", a), Arrival("post", FALSE, "none", a),
   Arrival("post", FALSE, "overlong", b)}

=============================================================================
