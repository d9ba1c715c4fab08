------------------------------ MODULE Notices ------------------------------
(***************************************************************************)
(* What the adapter does with one notice of the MicroMeet inbox, from its  *)
(* kind, its author and the bounded thread view it is hydrated from        *)
(* (adapter.py _accept_notice, messages.py project_notice).                *)
(*                                                                         *)
(* The inbox is the append-only log of verified notices that the daemon    *)
(* keeps; the cursor of a notice is its place in it.  A post is projected  *)
(* from the newest HistoryWindow posts of its thread.                      *)
(***************************************************************************)
EXTENDS Integers, Sequences, FiniteSets

CONSTANTS
  Threads,         \* MicroMeet threads
  HistoryWindow    \* posts that "mm thread read --limit 100" returns (100)

ASSUME HistoryWindowAssumption == HistoryWindow \in Nat \ {0}

\* "post" stands for the kinds thread_root and post, "other" for the kinds
\* that are neither these nor topic_root.  A malformed notice lacks a complete
\* object or thread ID; an unverified one has a hydrated post that fails a
\* check (signature verdict, author, body, summary, attachments); the line of
\* an overlong one is beyond the stream's 64 KiB, within the cap of 1 MiB.
Notice == [kind : {"topic_root", "post", "other"}, own : BOOLEAN,
           defect : {"none", "malformed", "unverified", "overlong"},
           thread : Threads]

\* Mutant: the author is not looked at.
TopicRootsOnly(n) == n.kind = "topic_root"

\* Committed without any await: the adapter's own posts and topic roots.
SkippedAtOnce(n) == n.own \/ n.kind = "topic_root"

\* The posts of c's thread that are newer than c, own ones included.
Newer(inbox, c) ==
  {d \in c + 1 .. Len(inbox) :
     inbox[d].kind = "post" /\ inbox[d].thread = inbox[c].thread}

InWindow(inbox, c) == Cardinality(Newer(inbox, c)) < HistoryWindow

\* project_notice when the daemon answers: None, an exception, or a message.
ProjectNotice(inbox, c) ==
  IF inbox[c].kind # "post" THEN "none"
  ELSE IF inbox[c].defect = "malformed" THEN "error"
  ELSE IF ~InWindow(inbox, c) THEN "window_miss"
  ELSE IF inbox[c].defect = "unverified" THEN "error"
  ELSE "message"

\* The notices a follower is owed: not its own, a post, still in the window.
Deliverable(inbox, c) ==
  /\ ~SkippedAtOnce(inbox[c])
  /\ inbox[c].kind = "post"
  /\ InWindow(inbox, c)

=============================================================================
