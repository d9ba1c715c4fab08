----------------------------- MODULE FollowFeed -----------------------------
(***************************************************************************)
(* What the inbound half promises, without processes, crashes or awaits:   *)
(* from a starting point on, notices are settled one by one in the order   *)
(* of the inbox.  A deliverable notice is settled only after Hermes got    *)
(* it, Hermes gets only the notice that is next to be settled, and may get *)
(* it more than once (at-least-once delivery in order, adapter.md and      *)
(* cursor.md).                                                             *)
(***************************************************************************)
EXTENDS Notices

CONSTANTS
  None,
  MayReplay,       \* whether a first run may start at the first notice
  MayScan          \* whether it may start at the head it meets

VARIABLES
  inbox,     \* the notices received so far
  settled,   \* the cursor up to which all is settled, None before the start
  handled    \* the cursors of the notices that Hermes got

vars == <<inbox, settled, handled>>

Init ==
  /\ inbox = <<>>
  /\ settled = None
  /\ handled = {}

Arrive ==
  /\ \E n \in Notice : inbox' = Append(inbox, n)
  /\ UNCHANGED <<settled, handled>>

Begin ==
  /\ settled = None
  /\ \/ MayReplay /\ settled' = 0
     \/ MayScan /\ settled' \in 0..Len(inbox)
  /\ UNCHANGED <<inbox, handled>>

Handle ==
  /\ settled # None
  /\ settled < Len(inbox)
  /\ inbox[settled + 1].kind = "post"
  /\ ~inbox[settled + 1].own
  /\ inbox[settled + 1].defect \notin {"malformed", "unverified"}
  /\ handled' = handled \cup {settled + 1}
  /\ UNCHANGED <<inbox, settled>>

Settle ==
  /\ settled # None
  /\ settled < Len(inbox)
  /\ Deliverable(inbox, settled + 1) => settled + 1 \in handled
  /\ settled' = settled + 1
  /\ UNCHANGED <<inbox, handled>>

Next == Arrive \/ Begin \/ Handle \/ Settle

Spec == Init /\ [][Next]_vars

=============================================================================
