------------------------------- MODULE Inbox -------------------------------
(***************************************************************************)
(* The inbound half of MicroMeetAdapter with its durable InboxCursor:      *)
(* connect, the head scan of a first run, the watch loop and the handling  *)
(* of one notice at a time (adapter.py, cursor.py, messages.py).           *)
(*                                                                         *)
(* The watch loop suspends inside a notice at project_notice (a "mm thread *)
(* read" child), at the bridge and at handle_message.  At each of them the *)
(* process may crash, disconnect() may cancel the loop, or the step may    *)
(* fail; the saved cursor is all that survives.  Hermes has accepted an    *)
(* event before handle_message returns, so "accepted" and the commit of    *)
(* the cursor are two steps.                                               *)
(*                                                                         *)
(* The daemon, its inbox and Hermes are external.  Connections overlapping *)
(* each other are not modelled here: Hermes calls connect and disconnect   *)
(* one after the other.                                                    *)
(***************************************************************************)
EXTENDS Notices

CONSTANTS
  None,
  Arriving,         \* the notices that may arrive
  MayReplay,        \* replay_existing may be set when the adapter connects
  MayScan,          \* and it may be unset
  PageSize,         \* settings.inbox_page_size
  MaxPages,         \* pages of the head scan (1000)
  MaxInbox,         \* bound: notices that arrive
  MaxFailures,      \* bound: failed steps, each a fatal error
  MaxStops          \* bound: disconnects and crashes

ASSUME InboxAssumption ==
  /\ None \notin Nat
  /\ Arriving \subseteq Notice
  /\ MayReplay \in BOOLEAN /\ MayScan \in BOOLEAN
  /\ {PageSize, MaxPages} \subseteq Nat \ {0}
  /\ {MaxInbox, MaxFailures, MaxStops} \subseteq Nat

VARIABLES
  inbox,      \* the daemon's notices
  saved,      \* the durable "inbox_cursor", None when it was never set
  conn,       \* "down", "scanning", "watching" or "fatal"
  scan,       \* _latest: its cursor
  pages,      \* _latest: pages read
  watched,    \* the cursor of the last notice the watcher gave the loop
  stage,      \* where _accept_notice is suspended, "idle" between notices
  handled,    \* history: cursors of the notices that Hermes accepted
  repeats,    \* history: times Hermes accepted a notice again
  headAt,     \* history: length of the inbox when the current scan began
  base,       \* history: where the first run started, None before
  origin,     \* history: what named that place, a replay, the head of the
              \* inbox, or a page that cut the scan short; "none" before
  failures,   \* number of failed steps
  stops       \* number of disconnects and crashes

connVars == <<conn, scan, pages, watched, stage>>
historyVars == <<handled, repeats, headAt, base, origin>>
boundVars == <<failures, stops>>
vars == <<inbox, saved, connVars, historyVars, boundVars>>

TypeOK ==
  /\ inbox \in Seq(Notice)
  /\ saved \in Nat \cup {None}
  /\ conn \in {"down", "scanning", "watching", "fatal"}
  /\ scan \in Nat /\ pages \in Nat /\ watched \in Nat
  /\ stage \in {"idle", "projecting", "context", "handling", "accepted"}
  /\ stage # "idle" => conn = "watching" /\ watched \in 1..Len(inbox)
  /\ handled \subseteq 1..Len(inbox)
  /\ repeats \in Nat /\ headAt \in 0..Len(inbox)
  /\ base \in Nat \cup {None}
  /\ origin \in {"none", "replay", "head", "cut"}
  /\ failures \in Nat /\ stops \in Nat

Init ==
  /\ inbox = <<>>
  /\ saved = None
  /\ conn = "down"
  /\ scan = 0 /\ pages = 0 /\ watched = 0
  /\ stage = "idle"
  /\ handled = {}
  /\ repeats = 0 /\ headAt = 0
  /\ base = None /\ origin = "none"
  /\ failures = 0 /\ stops = 0

-----------------------------------------------------------------------------
(* Helpers                                                                 *)

\* InboxCursor.commit.
CommitCursor(c) == saved' = c

\* The end of InboxCursor.starting in a first run.
FirstCommit(c, from) ==
  /\ CommitCursor(c)
  /\ base' = c
  /\ origin' = from

\* Mutant: the notice in hand survives the failure.
FatalKeepsNotice ==
  /\ failures < MaxFailures
  /\ failures' = failures + 1
  /\ conn' = "fatal"
  /\ stage' = stage

\* _set_fatal_error after a failed step; the watcher is stopped and a notice
\* in hand is dropped.
Fatal ==
  /\ failures < MaxFailures
  /\ failures' = failures + 1
  /\ conn' = "fatal"
  /\ stage' = "idle"

\* One page of "mm inbox --cursor scan --limit PageSize": its last cursor.
PageEnd ==
  IF scan + PageSize <= Len(inbox) THEN scan + PageSize ELSE Len(inbox)

Follow(c) ==
  /\ conn' = "watching"
  /\ watched' = c
  /\ stage' = "idle"

-----------------------------------------------------------------------------
(* The environment                                                         *)

Receive ==
  /\ Len(inbox) < MaxInbox
  /\ \E n \in Arriving : inbox' = Append(inbox, n)
  /\ UNCHANGED <<saved, connVars, historyVars, boundVars>>

\* disconnect(), which cancels the watch loop where it is suspended, or a
\* crash: what is in memory is lost.
Stop ==
  /\ stops < MaxStops
  /\ conn # "down"
  /\ stops' = stops + 1
  /\ conn' = "down"
  /\ stage' = "idle"
  /\ UNCHANGED <<inbox, saved, scan, pages, watched, historyVars, failures>>

-----------------------------------------------------------------------------
(* connect() and InboxCursor.starting                                      *)

Disconnected == conn \in {"down", "fatal"}

\* Mutant: the watcher is started without the saved cursor.
ResumeAtZero ==
  /\ Disconnected
  /\ saved # None
  /\ Follow(0)
  /\ UNCHANGED <<inbox, saved, scan, pages, historyVars, boundVars>>

\* A saved cursor always wins.
Resume ==
  /\ Disconnected
  /\ saved # None
  /\ Follow(saved)
  /\ UNCHANGED <<inbox, saved, scan, pages, historyVars, boundVars>>

\* A first run that replays everything commits 0 before it watches.
StartAtZero ==
  /\ Disconnected
  /\ saved = None
  /\ MayReplay
  /\ FirstCommit(0, "replay")
  /\ Follow(0)
  /\ UNCHANGED <<inbox, scan, pages, handled, repeats, headAt, boundVars>>

StartScan ==
  /\ Disconnected
  /\ saved = None
  /\ MayScan
  /\ conn' = "scanning"
  /\ scan' = 0 /\ pages' = 0
  /\ headAt' = Len(inbox)
  /\ UNCHANGED <<inbox, saved, watched, stage, handled, repeats, base, origin,
                 boundVars>>

\* A page with notices moves the scan on.
ScanPage ==
  /\ conn = "scanning"
  /\ pages < MaxPages
  /\ scan < Len(inbox)
  /\ scan' = PageEnd
  /\ pages' = pages + 1
  /\ UNCHANGED <<inbox, saved, conn, watched, stage, historyVars, boundVars>>

\* Mutant: the scan takes the end of its first page for the head.
ScanEndsAfterOnePage ==
  /\ conn = "scanning"
  /\ pages > 0 \/ scan >= Len(inbox)
  /\ FirstCommit(scan, "head")
  /\ Follow(scan)
  /\ UNCHANGED <<inbox, scan, pages, handled, repeats, headAt, boundVars>>

\* An empty page: the scan is at the head, which is committed and watched.
ScanEnds ==
  /\ conn = "scanning"
  /\ pages < MaxPages
  /\ scan >= Len(inbox)
  /\ FirstCommit(scan, "head")
  /\ Follow(scan)
  /\ UNCHANGED <<inbox, scan, pages, handled, repeats, headAt, boundVars>>

\* A page with notices whose next_cursor is missing or does not advance ends the
\* scan as well: what was read so far counts as the head.
ScanCut ==
  /\ conn = "scanning"
  /\ pages < MaxPages
  /\ scan < Len(inbox)
  /\ FirstCommit(scan, "cut")
  /\ Follow(scan)
  /\ UNCHANGED <<inbox, scan, pages, handled, repeats, headAt, boundVars>>

\* The page bound: connect() reports a failure and Hermes may try again.
ScanExceeded ==
  /\ conn = "scanning"
  /\ pages >= MaxPages
  /\ Fatal
  /\ UNCHANGED <<inbox, saved, scan, pages, watched, historyVars, stops>>

\* connect() fails: the status check, a page, or the start of the watcher,
\* which may come after the first cursor was committed.
ConnectFails ==
  /\ \/ Disconnected /\ UNCHANGED <<saved, base, origin>>
     \/ /\ Disconnected /\ saved = None /\ MayReplay
        /\ FirstCommit(0, "replay")
     \/ conn = "scanning" /\ UNCHANGED <<saved, base, origin>>
     \/ /\ conn = "scanning" /\ pages < MaxPages
        /\ FirstCommit(scan, IF scan < Len(inbox) THEN "cut" ELSE "head")
  /\ Fatal
  /\ UNCHANGED <<inbox, scan, pages, watched, handled, repeats, headAt, stops>>

-----------------------------------------------------------------------------
(* The watch loop                                                          *)

\* Mutant: every cursor is committed as soon as its notice arrives.
CommitOnArrival ==
  /\ conn = "watching"
  /\ stage = "idle"
  /\ watched < Len(inbox)
  /\ watched' = watched + 1
  /\ CommitCursor(watched + 1)
  /\ stage' = IF SkippedAtOnce(inbox[watched + 1]) THEN "idle" ELSE "projecting"
  /\ UNCHANGED <<inbox, conn, scan, pages, historyVars, boundVars>>

\* The watcher hands over the next notice; _accept_notice runs to its first
\* await.
TakeNotice ==
  /\ conn = "watching"
  /\ stage = "idle"
  /\ watched < Len(inbox)
  /\ inbox[watched + 1].defect # "overlong"
  /\ watched' = watched + 1
  /\ IF SkippedAtOnce(inbox[watched + 1])
     THEN CommitCursor(watched + 1) /\ stage' = "idle"
     ELSE saved' = saved /\ stage' = "projecting"
  /\ UNCHANGED <<inbox, conn, scan, pages, historyVars, boundVars>>

\* readline() raises ValueError for a line beyond the stream's limit.  What
\* the inbox holds decides about it: it is none of the bounded failures.
LineTooLong ==
  /\ conn = "watching"
  /\ stage = "idle"
  /\ watched < Len(inbox)
  /\ inbox[watched + 1].defect = "overlong"
  /\ conn' = "fatal"
  /\ UNCHANGED <<inbox, saved, scan, pages, watched, stage, historyVars,
                 boundVars>>

\* Mutant: HistoryWindowMiss is not caught.
ProjectSkipsNoMiss ==
  /\ stage = "projecting"
  /\ ProjectNotice(inbox, watched) = "none"
  /\ CommitCursor(watched)
  /\ stage' = "idle"
  /\ UNCHANGED <<inbox, conn, scan, pages, watched, historyVars, boundVars>>

\* Neither a post nor in the window: an intentional skip.
ProjectSkips ==
  /\ stage = "projecting"
  /\ ProjectNotice(inbox, watched) \in {"none", "window_miss"}
  /\ CommitCursor(watched)
  /\ stage' = "idle"
  /\ UNCHANGED <<inbox, conn, scan, pages, watched, historyVars, boundVars>>

ProjectSucceeds ==
  /\ stage = "projecting"
  /\ ProjectNotice(inbox, watched) = "message"
  /\ stage' = "context"
  /\ UNCHANGED <<inbox, saved, conn, scan, pages, watched, historyVars,
                 boundVars>>

\* A notice that fails a check, or a daemon that fails to answer, ends the
\* watch loop.
ProjectFails ==
  /\ stage = "projecting"
  /\ inbox[watched].kind = "post"
  /\ Fatal
  /\ UNCHANGED <<inbox, saved, scan, pages, watched, historyVars, stops>>

\* The bridge has context or none.
ContextReady ==
  /\ stage = "context"
  /\ stage' = "handling"
  /\ UNCHANGED <<inbox, saved, conn, scan, pages, watched, historyVars,
                 boundVars>>

\* inbound_context reads the binding outside its try block: an error of the
\* bridge's own database ends the watch loop.
BridgeFails ==
  /\ stage = "context"
  /\ Fatal
  /\ UNCHANGED <<inbox, saved, scan, pages, watched, historyVars, stops>>

\* Hermes takes the event.
HermesAccepts ==
  /\ stage = "handling"
  /\ stage' = "accepted"
  /\ handled' = handled \cup {watched}
  /\ repeats' = IF watched \in handled THEN repeats + 1 ELSE repeats
  /\ UNCHANGED <<inbox, saved, conn, scan, pages, watched, headAt, base, origin,
                 boundVars>>

\* Mutant: the cursor is committed in a finally clause.
HandleFailsCommits ==
  /\ stage \in {"handling", "accepted"}
  /\ CommitCursor(watched)
  /\ Fatal
  /\ UNCHANGED <<inbox, scan, pages, watched, historyVars, stops>>

\* handle_message raises, before or after Hermes took the event.
HandleFails ==
  /\ stage \in {"handling", "accepted"}
  /\ Fatal
  /\ UNCHANGED <<inbox, saved, scan, pages, watched, historyVars, stops>>

\* Mutant: the commit of a handled notice is one behind.
CommitOneBehind ==
  /\ stage = "accepted"
  /\ CommitCursor(watched - 1)
  /\ stage' = "idle"
  /\ UNCHANGED <<inbox, conn, scan, pages, watched, historyVars, boundVars>>

\* Mutant: a handled notice is not committed.
NoCommit ==
  /\ stage = "accepted"
  /\ stage' = "idle"
  /\ UNCHANGED <<inbox, saved, conn, scan, pages, watched, historyVars,
                 boundVars>>

\* handle_message returns.
CommitHandled ==
  /\ stage = "accepted"
  /\ CommitCursor(watched)
  /\ stage' = "idle"
  /\ UNCHANGED <<inbox, conn, scan, pages, watched, historyVars, boundVars>>

\* The watcher exits, or emits a line that is no notice.
WatcherFails ==
  /\ conn = "watching"
  /\ stage = "idle"
  /\ Fatal
  /\ UNCHANGED <<inbox, saved, scan, pages, watched, historyVars, stops>>

-----------------------------------------------------------------------------

Connect ==
  \/ Resume \/ StartAtZero
  \/ StartScan \/ ScanPage \/ ScanEnds \/ ScanCut

Watch ==
  \/ TakeNotice \/ LineTooLong
  \/ ProjectSkips \/ ProjectSucceeds
  \/ ContextReady
  \/ HermesAccepts \/ CommitHandled

Fails ==
  \/ ScanExceeded \/ ConnectFails \/ ProjectFails \/ BridgeFails
  \/ HandleFails \/ WatcherFails

Next == Receive \/ Stop \/ Connect \/ Watch \/ Fails

Spec == Init /\ [][Next]_vars

\* Hermes reconnects after a retryable fatal error and a restart; the loop's
\* children answer or are killed by their timeout.
FairSpec == Spec /\ WF_vars(Connect) /\ WF_vars(Watch)

-----------------------------------------------------------------------------
(* Properties                                                              *)

\* The cursor is committed only after a notice was handled or intentionally
\* skipped: every notice behind the saved cursor that a follower is still owed
\* reached Hermes, whatever crashed, failed or was cancelled in between.
NoNoticeLost ==
  saved # None =>
    \A c \in base + 1 .. saved : Deliverable(inbox, c) => c \in handled

\* At most one event is exposed to redelivery: of all that Hermes accepted, at
\* most one is beyond the saved cursor (accept and commit alternate).
OneUncommitted ==
  \A c, d \in handled : saved < c /\ saved < d => c = d

\* Hermes sees an event again only because the first delivery was interrupted
\* between its acceptance and the commit.
RepeatsNeedInterruption == repeats <= failures + stops

\* The first run starts inside the inbox: at its beginning with replay_existing,
\* and else, if the pages were sound, behind all that was there when the successful
\* scan began, however many pages, arrivals and failed attempts that took.  A page
\* without a usable next_cursor makes it start earlier (_latest).
HeadStart ==
  base # None =>
    /\ base <= Len(inbox)
    /\ origin = "replay" => base = 0
    /\ origin = "head" => headAt <= base

\* The saved cursor never goes back, across restarts and failed connects.
CursorNeverBack ==
  [][saved # None => saved' # None /\ saved <= saved']_vars

\* The detailed loop implements the ordered at-least-once feed.
Feed == INSTANCE FollowFeed WITH settled <- saved
FeedSpec == Feed!Spec

\* What a follower that started at base is owed.
Owed(c) ==
  /\ base # None
  /\ c \in base + 1 .. Len(inbox)
  /\ Deliverable(inbox, c)

\* No notice up to c fails a check or ends the loop.
SoundUpTo(c) == \A d \in base + 1 .. c : inbox[d].defect = "none"

\* Once failures and restarts cease, every notice a follower is owed reaches
\* Hermes or falls out of the bounded thread history, unless an unsound one
\* blocks the inbox before it.
EventuallyHandled ==
  \A c \in 1..MaxInbox :
    Owed(c) /\ SoundUpTo(c) ~> c \in handled \/ ~Owed(c)

\* "Each line is capped at 1 MiB" (service.md): a notice whose line is within
\* the cap is delivered like any other.
CappedLinesAreHandled ==
  \A c \in 1..MaxInbox :
    Owed(c) /\ inbox[c].defect = "overlong" ~> c \in handled \/ ~Owed(c)

\* "The bridge fails open for ordinary Hermes operation" (bridge.md): a notice
\* that waits for its bridge context goes on to Hermes unless the adapter is
\* stopped.  The code's lookup of the binding raises through the watch loop.
BridgeFailsOpen ==
  [][stage = "context" /\ stage' = "idle" => conn' = "down"]_vars

=============================================================================
