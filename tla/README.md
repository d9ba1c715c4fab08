# A TLA+ model of hermes-micromeet

The plugin connects a Hermes agent to MicroMeet, a public peer-to-peer forum
of signed posts.  Everything it does with the forum goes through one binary,
`mm`: short commands, a daemon and a long-running inbox watcher.  This
directory holds TLA+ modules of the plugin's stateful parts, TLC
configurations that check them on small instances, and TLAPS proofs that hold
for every value of the constants.

## 1. The system

| Component | Source | State | Operations |
| --- | --- | --- | --- |
| Outbound policy | `outbound.py` | none | `classify_outbound`, `is_operational_output` |
| Adapter, outbound half | `adapter.py` | `_accepted_replies` (256), `_drafts` (64), `_draft_sequence`, `_recent_deliveries` (64), `_delivery_lock` | `send`, `edit_message`, `_publish`, `disconnect` |
| Adapter, inbound half | `adapter.py` | `_watch_task`, `_stopping`, `_running`, `_own_author_id` | `connect`, `disconnect`, `_watch_loop`, `_accept_notice` |
| Inbox cursor | `cursor.py` | durable `inbox_cursor` in Hermes' plugin state | `starting`, `commit`, `_latest` |
| Notice projection | `messages.py` | none | `project_notice` |
| Context bridge | `bridge.py` | SQLite tables `bindings` and `handoffs` (512 rows) | hooks `post_tool_call`, `post_llm_call`, `pre_llm_call`; `inbound_context` |
| Service supervision | `service.py` | `_watch_process`, `_daemon_process`, stderr tasks | `ensure_status`, `start_watcher`, `notices`, `stop` |
| Process boundary, settings | `runner.py` | immutable settings | `MmClient.run`, setting precedence |
| Tools | `tools.py` | none | ten argument builders around `mm` |
| Registration | `__init__.py` | none | `register` |

How they interact.  The watcher's notices are projected, framed and given to
Hermes' `handle_message`; the object of an accepted notice becomes a licence to
reply.  Hermes answers by `send` and `edit_message` from its own coroutines,
which share the tables and one asyncio lock and run `mm post` in a thread.  The
bridge is called from three hooks, from several processes, and once per notice
from the watch loop.  Adapter and bridge share no memory, only the thread and object
identifiers.

What is hard: coroutines that suspend between reading and writing the tables;
a child process that outlives its timeout or its cancelled caller; a retry of
what was already signed; a cursor that is saved one step after the delivery it
stands for; notices that arrive during the first scan; answers that outlive the
connection their event came by; several processes that claim rows of one file;
calls cancelled while a child is starting or being stopped; tables that evict at
their limit.

What makes each part correct: nothing unlicensed is signed, and an answer is
signed once (publication); no owed notice is skipped, at most one is repeated
(inbox); both still hold when they run together, and the adapter never answers
itself (gateway); a result reaches a session that acted on its thread, once, in
order and within its budget, and a worker is told the most relevant of the session
(bridge); the plugin loses the handle of no child it has not told to terminate,
but of a daemon that it displaces by another, and a connected adapter is
listening (service).
`PROJECT.json` lists the hazards with the properties that cover them.

## 2. Modules

```
Outbound    <- Publication <- MCPublication      Publication <- PublicationProofs
SignedLog      (abstract; Publication!LogSpec and Gateway!LogSpec refer to it)
Notices     <- Inbox       <- MCInbox            Inbox       <- InboxProofs
Notices     <- FollowFeed  (abstract; Inbox!FeedSpec says Inbox implements it)
Inbox, Publication <- Gateway <- MCGateway       Gateway     <- GatewayProofs
Handoffs, Places <- Bridge <- MCBridge           Bridge      <- BridgeProofs
Places      <- Excerpts    <- MCExcerpts         Excerpts    <- ExcerptsProofs
               Service     <- MCService          Service     <- ServiceProofs
Places      <- DataLemmas  (lemmas about data)   Handoffs    <- HandoffsProofs
DataLemmas  <- HandoffsProofs <- BridgeProofs;  DataLemmas <- ExcerptsProofs
InboxProofs, DataLemmas, PublicationProofs (instantiated) <- GatewayProofs
```

**Outbound**: the policy of one send.  A text is a member of a set; the regular
expression for failure envelopes is the subset `Operational`.

**Publication**: the outbound half.  A task is a Hermes call that reaches
`_publish`; `pc` says whether it waits for the lock, has its `mm post` running, or
has returned.  Code between two suspension points is one action: `SendPublish`,
`SendBuffer`, `EditPreview`, `EditDiscard`, `EditFinalize` are the calls up to
their first suspension, `ReuseRecent` and `StartPost` run from getting the lock to
the return or the child's start, `PostSucceeds` and `PostFails` from the child's
end to the return (with the caller's removal of the draft).  `Cancel` is the
cancellation of the coroutine.  `DaemonPosts` is external: the daemon appends a
request unless its idempotency key is in the log. A request stays in `inflight`
after a timeout or a cancellation, so the daemon may act late.  The log is a set;
two equal requests in flight are one.  `send` refuses the text `Empty`,
`edit_message` passes it on, although only `send` says that "MicroMeet posts
cannot be empty"; run `gateway` has it among its contents.  `monotonic()` and
`time()` are one clock that starts anywhere in a retry bucket.

**SignedLog**: the abstract promise of publication, without calls, drafts, locks
or clocks: posts are added one at a time, each licensed when it is signed, and
the answer to one event is signed once per text.

**Notices**: what becomes of a notice, from its kind, author, defects and place
in the bounded thread history.

**Inbox**: the inbound half.  `saved` is the durable cursor, the only thing that
survives `Stop` (a disconnect or a crash); `stage` is the await at which
`_accept_notice` is suspended.  `HermesAccepts` and `CommitHandled` are two steps,
so that a crash fits between.  `Resume`, `StartAtZero`, `StartScan`, `ScanPage`,
`ScanEnds`, `ScanCut`, `ScanExceeded` and `ConnectFails` are `connect` with
`InboxCursor`.  `ScanCut` is a page with notices whose `next_cursor` is missing or
does not advance: the code then commits the place it had reached, so a first run
may start before the head, which `adapter.md:16` does not say.  `origin` remembers
which of the three ways the first commit came by.  `LineTooLong` is `readline()`
meeting a line beyond the stream's limit.  Hermes is taken to call `connect` and
`disconnect` one after the other. Cursors are places in the inbox, 1, 2, 3, ...

**FollowFeed**: the abstract promise of the inbox.  Notices are settled one by
one in order, a deliverable one only after Hermes got it.

**Gateway**: one adapter as a whole.  It extends Inbox and instantiates
Publication with the inbox's cursors as the objects Hermes may reply to and
Hermes' turns as the tasks.  Joint actions are those that touch both halves:
`AcceptNotice` (projection and the licence to reply), `Disconnect`, `Crash`
(which also ends the turns, while requests handed to `mm` go on), and `Sign`,
where the daemon's signed post comes back as a notice of the adapter's own.
`worker` is what each turn does about its event: one final send or a preview
that is finalized, and a second delivery after a failed one, which finalizes the
preview again if there was one.

**Places**: the places of a finite set in an order, the sequence that a sort
gives, without recursion so that proofs may use it.

**Handoffs**: the character budget of one injection.  A text is the set of the
places of its visible characters, so that a cut which ends in blanks is shorter
after the code's `strip()`.  A row's id and thread have fixed lengths, so header,
prefix and separator are constants.

**Bridge**: the hooks as transactions.  `writer` is a turn between
`BEGIN IMMEDIATE` and its commit or rollback; transactions that touch the file
once are one step.  `LookUpBinding` and `QueueHandoff` are two transactions, as
in `on_post_llm_call`.  `rows` remembers every row ever stored (ids are
AUTOINCREMENT), `stored` is what the prune left.

**Excerpts**: `inbound_context` over the growing foreground session.  A message
is its role, the places of its visible characters and the number of words it
shares with the event; `Candidates`, `Chosen` and `SelectExcerpts` are
`_select_excerpts`, `Cut` is the cut of `_bounded_join` with its `rstrip()`, and
`BoundedJoin` counts what it leaves whole.  `Budget` is the setting after `_as_int`, whose range the bridge's constructor repeats.

**Service**: the child processes, as `connect`, `disconnect` and the watch loop
start, watch and stop them.  Each action runs from one await to the next; `pc`
names the await a call is at.  Call `c` starts at most one daemon and one
watcher, `Daemon(c)` and `Watcher(c)`, and one watch loop.  `stopper` is the
coroutine that waits in `_stop_process` for a child and owns its forced kill;
`Abandon` is that coroutine's end by cancellation.  With `Orderly` Hermes makes
one call at a time and disconnects after a call it cancelled; without it calls
overlap.  `mm status` may give any answer at any time, also daemon_unavailable
while a daemon of the plugin lives.  Then `_start_daemon` puts a
second child in the handle and the first is `Displaced`: nothing will stop it.
`service.md:5` speaks of one daemon that the service owns; NoOrphans and
DisconnectedIsQuiet name this exception, and hold otherwise.
`disconnect()` called from within the watch loop's own task is not modelled:
nothing in the repository does it.

Operators whose comment begins with "Mutant:" are wrong versions of the
definition that follows.  They are not used by any specification; substituting
one shows that the property named in `PROJECT.json` notices that bug.

## 3. Runs

| Run | Question and bounds | Result |
| --- | --- | --- |
| `retries` | Previews, edits, direct sends and retries: does anything unlicensed get signed, is an answer signed once, is what is acknowledged in the log, does it all implement SignedLog? (2 calls, 2 threads, 4 kinds of metadata, 1 accepted post, tables of 1, clock over two buckets, a disconnect) | Holds |
| `lock` | Three calls of one text, fairness: does every waiting call return, and do two ever post within the window? (clock 0..2) | Holds |
| `slow_post` | The documented reuse "within five seconds" (`adapter.md:29`) | **violated** |
| `first_run` | The first run with `replay_existing` set or not, where the cursor begins, ordered at-least-once delivery, refinement of FollowFeed and progress (4 notices: own, a peer's or an overlong line, pages of 2, window 1, 1 failure, 1 stop, fairness) | Holds |
| `bridge_error` | "The bridge fails open" (`bridge.md:45`) on the inbound path | **violated** |
| `long_line` | Lines up to the documented 1 MiB cap are handled (`service.md`) | **violated** |
| `gateway` | Both halves together, replaying (2 notices of 6 kinds, defective ones and own posts among them, 2 turns, 3 texts, one of them empty, 2 previews, tables of 1, 1 failure, 1 disconnect or crash) | Holds |
| `handoffs` | Order, budget, target, rollback and single injection of claims (3 answers, one with a long run of blanks and one that fills the budget, 2 sessions, 2 turns, a table of 2) | Holds |
| `excerpts` | Which messages a worker is told, and how much of them (sessions of up to 8 messages of 4 kinds, a window of 7, the code's sizes, 3 settings) | Holds |
| `lifecycle` | Three orderly calls, two cancelled anywhere, children that come and go, a status that may deny a living daemon, fairness | Holds |
| `returns` | Two calls that may overlap: does each return? (one cancelled, one overlong stderr line, children that ignore SIGTERM, with and without notifications) | Holds |
| `forced_kill` | "Graceful termination gets five seconds before a forced kill" (`service.md:18`) | **violated** |

Deadlock checking is off: every instance may stop, because calls are used once,
arrivals, failures and time are bounded, and Hermes need not do anything.

Four runs find disagreements between documents and code.

- `slow_post`: the age of a cached delivery counts the run time of `mm post`, so
  a second identical delivery that waited for a slow first one is posted again,
  where there is no stable reply target and the retry bucket, which is part of the
  key, has changed.  With a stable reply target the keys are equal and the daemon
  answers with the first post.
- `bridge_error`: `inbound_context` looks the binding up outside its `try`, so an
  error of the bridge's own SQLite file ends the watch loop; the notice is
  retried only after Hermes reconnects.
- `long_line`: `readline()` has its default limit of 64 KiB, so the test for 1 MiB
  is never reached; the same notice ends the loop at every reconnect.
- `forced_kill`: `disconnect()` cancels a watch loop that is itself waiting for
  its terminated watcher, and with it the wait that would have killed it.

What `gateway` shows beyond its halves: a turn's final answer is reported as a
success and dropped only when its event's licence was cleared by a disconnect or
evicted by later events (`DroppedOnlyAfterReset` names exactly these two), and
an event that a crash delivers twice has one post per text.  A finished preview
is refused only when a disconnect reset the tables or `MaxDrafts` previews were
opened after it (`RefusedOnlyAfterEviction`): a delivery that failed finds its
draft in place when it is made again.

Bounds.  `MaxDraftSeq`, `MaxTime`, `MaxDisconnects`, `MaxInbox`, `MaxFailures`,
`MaxStops`, `MaxCalls`, `MaxCancels`, `MaxLongLines`, `MaxLog` and the single use
of tasks, workers and turns keep the state finite.  They are enough for what the
properties need: a bug of the lock, the cache or the claim takes two actors
(three where one waits behind another), eviction takes one entry more than a
table of one, a lost or repeated notice takes one interruption and the notice
after it, a bucket boundary two ticks, the prune one row more than the table; a
child left behind takes a call that is interrupted and the one after it, which
the third then meets, and a displaced daemon takes a connect whose loop fails
and another connect; a wrong ranking takes one candidate more than there are
excerpts, and the moving window one message more than it holds.  The table
limits are constants, 1 to 3 here instead of 64, 256 or 512, and a window of 7
stands for one of 200; the proofs cover every limit.

Fairness.  `Publication!FairSpec` is weak fairness of each task's own step: the
event loop runs a runnable coroutine, and a child ends or is killed by
`command_timeout`.  The daemon, the clock and Hermes get none.  A task's lock
acquisition is weakly fair although others compete: each call is used once, so
competitors run out, as the FIFO queue of `asyncio.Lock` guarantees in the code.
`Inbox!FairSpec` is weak fairness of connecting and of watching: Hermes reconnects
a platform after a retryable fatal error, children answer or time out.  Failures
and stops are bounded, which is the "once they cease" of the property.
`Service!FairSpec` is weak fairness of each call's own steps (commands are killed
by their timeout), of the `Deadline` that ends the readiness poll whatever the
status says, of a loop's start, of its reaction to the end of its watcher's output
and of its clean-up, and of the kill five seconds after SIGTERM while somebody
waits for it.  Nothing makes Hermes call, a daemon become ready or a child obey.

## 4. Proofs

Checked by TLAPS for every value of the constants, under the named assumptions
(`PublicationAssumption`, `HistoryWindowAssumption`, `InboxAssumption`,
`BudgetAssumption`, `BridgeAssumption`, `ServiceAssumption`,
`GatewayAssumption`, `ExcerptsAssumption`, `DefaultHasRoom`).  They give the
constants their types and the limits their sign; these say more.  At
least two excerpts are kept, because the two newest are chosen before any is
ranked.  `DefaultHasRoom` is the arithmetic behind the default budget: header,
separators, role labels and six longest excerpts are 5801 characters, the default
is 6000.  `GatewayAssumption` says what Publication assumes of the same
constants, so that its theorems may be cited, and that the adapter's own posts
are among the notices that may arrive.  The empty text is no failure envelope,
and the header of the excerpts is not empty.

*PublicationProofs.*  `TypeCorrect`, `PublicationFailsClosed`,
`AnswersAreSignedOnce`, `AckedDeliveriesArePosted`, `CloseDeliveriesAreReused`,
`ImplementsLog`.  `FailClosed` speaks of
requests and posts only and is not inductive: a waiting call, a draft and an
accepted object carry the licence until it is used.  The strengthening says
that of all of them: what is in the table was accepted, a draft's reply was
accepted for its chat, and a call in progress is licensed, which stays true while
histories grow.  Signing once rests on
the log having one post per key and every request and post carrying the key its
own fields determine; acknowledgement adds that every cache entry names a post
with its fingerprint and that the log only grows.  The reuse of close deliveries
needs that only the holder of the lock runs `mm post` (`LockInv`) and that, while
nothing is forgotten, the cache has an entry at least as young as every
delivery that ran (`ReuseInv`).  The refinement maps the log to itself;
`DaemonPosts` is `Sign` or a stutter, accepting and finalizing are `Permit`.

*InboxProofs.*  `TypeCorrect`, `NothingIsLost`, `RedeliveryIsBounded`,
`RepeatsArePaidFor`, `FirstRunStartsAtHead`, `CursorIsMonotone`,
`ImplementsFeed`.  The inductive
invariant relates the loop to the cursor: while watching and idle
`watched = saved`, with a notice in hand `watched = saved + 1`; all of
`handled` is at or before `saved + 1`; and a notice that is deliverable
now was deliverable before (the window only moves on).  The refinement maps
`settled` to `saved`: `StartAtZero`, `ScanEnds` and `ScanCut` (and the failed
connects that committed) are `Begin`, `HermesAccepts` is `Handle`, the commits are
`Settle`, all else stutters.  `FirstRunStartsAtHead` says of each way to begin where
it begins; a scan that ended at an empty page began at the head it was shown.

*GatewayProofs.*  `NothingIsLostBesideAnswers`, `FollowsTheFeed`,
`NeverAnswersItself`, `ImplementsLog`, `PromisesOutliveCrashes`,
`SwallowedOnlyAfterReset`, `RefusedOnlyWhenEvicted`.  `GInv` is the invariant of
the inbox with what ties the halves together: every answer on its way, in a
draft, a call, a request or a post, goes to a thread and replies to an event that
Hermes accepted, and nothing that Hermes accepted is the adapter's own.  It makes
each joint action a step of Inbox alone (`Sign` is an arrival), so Inbox's
theorems carry over by citing them (lemma `InboundHalf`).

For the outbound half PublicationProofs is instantiated with Gateway's constants
(`OutP`), and every step of the whole is a step of Publication, leaves it alone,
or is a `Crash` (`OutboundStep`).  Publication has no crash; `Forget` states what
one does to it, and `ForgetKeepsOutbound` that its invariant survives and the log
stays: the tables empty, calls become cancelled ones, and what the log, the
requests and the keys say of each other does not depend on them.  A crash is
thus a stutter of SignedLog.

`DroppedOnlyAfterReset` needs `TableInv`.  Events are accepted in the order of
their cursors and none lies beyond the notice in hand, so the table of accepted
replies is in the order of the inbox, although the code only ever appends; its
oldest entry is smaller than the rest, so an eviction leaves a full table of later
events.  A turn begins while its event is bound, and what was lost stays lost
because resets and accepted events only grow.

`RefusedOnlyAfterEviction` needs `DraftInv`.  A preview belongs to one turn, or to
the turn that makes its failed delivery again (`Owner`, `Apart`), and a call takes
only its own turn's preview out of the table.  What else takes one out is a reset
or an eviction, and the oldest of `MaxDrafts` numbered previews has `MaxDrafts - 1`
later ones (`EvictedIsOld`), so it goes only to make room for the next one.

*DataLemmas, HandoffsProofs.*  Lemmas only.  The library states induction for an
operator, which the provers cannot instantiate; here the predicate is the *set*
of the numbers that satisfy it (`Induction`), and the step of a recursion is
a function (`Recursion`).  That gives what the
budget loop (`UsedIs`, `FitHandoffsIs`) and the join (`JoinedFits`) compute for
every sequence of handoffs, and that sorting a finite set lists it once, in order.
`GreatestNumber` gives the last visible character before a cut.

*BridgeProofs.*  `TypeCorrect`, `ResultsAreInjectedOnce`,
`ResultsStayInForeground`, `OnlyClaimsAreDelivered`, `ResultsAreKeptUntilFull`,
`ResultsKeepTheirOrder`, `ClaimsFitTheBudget`.  The invariant is what the
write lock protects: an open claim belongs to `writer` and its rows are stored
and pending; committed claims are disjoint and together are `delivered`; no two
stored rows are equal.  For the target: a binding, a looked-up target and a
row all come from a session that acted on the thread.  For the order: what a
claim takes of a session's pending rows is a prefix by age, so while it is open
no older row of that session is left behind (`ClaimsInOrder`), and rows that
arrive meanwhile are newer.  For the budget: the loop stops before the first
block that does not fit, the sum it kept is the length of the text that is
injected, and a cut leaves room for another block only over a run of blanks
longer than a prefix and a separator.  The types need that the prune counts: it
leaves `MaxStored` rows, or all.

*ExcerptsProofs.*  `ExcerptsAreRelevant`, `TextStaysWithinBudget`,
`DefaultNeverCuts`.  The excerpts in hand are those of the session as it stands
(`Inv`); the rest is about the functions.  The loop over the ranking keeps
`ChosenSoFar`: the newest two are in, at most `MaxExcerpts` are, and whatever was
passed over has no word in common with the event or is outranked by every chosen
one.  The sums of the join grow by one longest block at most, so six of them are
within the default budget (`JoinIs`), and the cut, wherever the last visible
character before it is, leaves room for its marker under any budget in range
(`CutIs`).

*ServiceProofs.*  `TypeCorrect` for any Hermes; for an orderly one
`NoChildIsOrphaned`, `FailuresLeaveNothing`, `DisconnectQuiets`,
`ConnectedMeansWatching`, `PollKeepsItsDaemon` and `LoopsStopTheirOwn`, from one
inductive invariant, `ServiceInv`: only the last call is active (`CallInv`); a
live loop belongs to the connected call and reads the watcher in the handle
(`LoopInv`, `WaitInv`); a working watcher is the one in its handle, and so is a
working daemon unless a later call started another (`WatcherInv`, `DaemonInv`); a
failed call has left its daemon dead or being stopped (`FailInv`); after a
disconnect both handles are empty (`QuietInv`).  `AwaitInv` adds that a call waits
for a child only while it is in `_stop_process`, so a disconnect that returned has
seen the end of every child it told to terminate.  `DisconnectQuiets` does not say
that no child runs: one that the cancelled loop had told to terminate may (run
`forced_kill`), and so may a displaced daemon.

Model-checked only: `PublishReturns`, `EventuallyHandled`, `CallsReturn` and
`DeathIsNoticed`.  They are liveness properties under fairness, out of the
prover's reach, as is ENABLED.  Every safety invariant and action property that a
passing run checks, and every refinement, is a theorem.  Inbox's other invariants
follow for the composition from `InboundHalf`, as `NoNoticeLost` and the feed
do in *GatewayProofs*, so `gateway` does not check them again.

## 5. Not modelled

- Wording of messages and logs, the fields of events and projected messages,
  file modes; `get_chat_info` reads only.
- `tools.py`: stateless builders of argument lists.  What a tool does to the
  bridge's bindings is `PostToolCall`.
- `__init__.py`: wiring that runs once.
- `runner.py`: the outcomes of `MmClient.run` are the success and failure actions
  of Publication and Inbox; integer settings are `AsInt`.  The precedence of
  environment, platform and plugin values is a chain of defaults read once.
- Overlapping `connect` calls keep their promises only of returning: two that
  overlap run two watchers and lose the handle of the first.  The code has no
  guard against that and no document promises one, so the safety properties of
  Service assume an orderly Hermes.
- Bridge and Gateway are not composed: they share no state, only identifiers,
  and the one call between them (`inbound_context`) reads.
- A thread that is bound to another session between the lookup of its binding and
  the insertion of the handoff: the result goes to the session looked up, which
  acted on the thread earlier.  `OnlyToForeground` admits every such session, and no
  document says which of two it should be.

A notice that fails a check is met again at every reconnect and blocks what is
behind it; `EventuallyHandled` therefore promises delivery only up to the first
unsound notice.  SQLite's isolation, the daemon's deduplication by idempotency
key and the order of its inbox are assumptions.
