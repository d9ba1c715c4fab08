------------------------------- MODULE Bridge -------------------------------
(***************************************************************************)
(* ContextBridge (bridge.py): the SQLite file through which background     *)
(* MicroMeet workers hand their results to foreground Hermes sessions.     *)
(*                                                                         *)
(* Three hooks share the file, from several processes and threads: a tool  *)
(* call binds a thread to the session that made it, a finished worker      *)
(* looks up the binding in one transaction and queues its result in a      *)
(* second one, and a foreground turn claims its pending results and then   *)
(* injects them.  A writer holds SQLite's one write lock from its first    *)
(* write, a claim from BEGIN IMMEDIATE, to its commit or rollback.  A call *)
(* may fail (the lock stays busy for five seconds, its process dies)       *)
(* before it has committed; a claim may be committed and never injected.   *)
(***************************************************************************)
EXTENDS Handoffs, Places

CONSTANTS
  None,
  Threads,         \* MicroMeet threads
  Objects,         \* inbound posts that workers answer
  ThreadOf,        \* ThreadOf[o]: the thread of o, from the event frame
  TextOf,          \* TextOf[o]: the answer to o
  Sessions,        \* foreground Hermes sessions
  Gateway,         \* sessions of the MicroMeet platform
  Workers,         \* background answers, each used once
  Turns,           \* foreground model turns, each used once
  MaxPerTurn,      \* MAX_HANDOFFS_PER_TURN (8)
  MaxStored        \* MAX_STORED_HANDOFFS (512)

ASSUME BridgeAssumption ==
  /\ ThreadOf \in [Objects -> Threads]
  /\ TextOf \in [Objects -> Texts]
  /\ None \notin Sessions \cup Gateway \cup Turns
  /\ Sessions \cap Gateway = {}
  /\ {MaxPerTurn, MaxStored} \subseteq Nat \ {0}

VARIABLES
  bindings,    \* table bindings: thread -> session or None
  rows,        \* every row ever put into table handoffs, by its id
  stored,      \* the ids that are still in the table
  delivered,   \* the ids whose delivered_at is set
  writer,      \* the turn inside BEGIN IMMEDIATE .. COMMIT, or None
  worker,      \* what each background answer is doing
  turn,        \* what each foreground turn is doing
  acted        \* history: <<session, thread>> acted on in the foreground

tables == <<bindings, rows, stored, delivered>>
vars == <<tables, writer, worker, turn, acted>>

Row == [object : Objects, target : Sessions]

\* A worker that found a binding keeps it while it waits for the write lock.
WorkerState ==
  [at : {"idle", "done"}] \cup [at : {"queueing"}, row : Row]

\* ids are the rows a turn claims; kept says how much of each, in their order.
TurnState ==
  [at : {"idle", "failed"}] \cup
  [at : {"claiming", "claimed", "lost", "injected"}, session : Sessions,
   ids : SUBSET Nat, kept : Seq(Nat)]

TypeOK ==
  /\ bindings \in [Threads -> Sessions \cup {None}]
  /\ rows \in Seq(Row)
  /\ delivered \subseteq 1..Len(rows)
  /\ stored \subseteq 1..Len(rows) /\ Cardinality(stored) <= MaxStored
  /\ writer \in Turns \cup {None}
  /\ worker \in [Workers -> WorkerState]
  /\ turn \in [Turns -> TurnState]
  /\ acted \subseteq Sessions \X Threads

Init ==
  /\ bindings = [th \in Threads |-> None]
  /\ rows = <<>>
  /\ stored = {}
  /\ delivered = {}
  /\ writer = None
  /\ worker = [w \in Workers |-> [at |-> "idle"]]
  /\ turn = [t \in Turns |-> [at |-> "idle"]]
  /\ acted = {}

-----------------------------------------------------------------------------
(* Helpers                                                                 *)

\* Mutant: the prune keeps one row too many.
NewestAndOne(ids) ==
  {i \in ids : Cardinality({j \in ids : j > i}) <= MaxStored}

\* Mutant: the prune keeps the oldest rows.
FirstStored(ids) == {i \in ids : Cardinality({j \in ids : j < i}) < MaxStored}

\* DELETE ... WHERE id NOT IN (the MaxStored largest ids): whether delivered
\* or not.
Newest(ids) == {i \in ids : Cardinality({j \in ids : j > i}) < MaxStored}

Pending(s) == {i \in stored \ delivered : rows[i].target = s}

\* Mutant: ORDER BY id DESC.
Latest(ids, n) == {i \in ids : Cardinality({j \in ids : j >= i}) <= n}

\* The n smallest of a set of ids.
Oldest(ids, n) == {i \in ids : Cardinality({j \in ids : j <= i}) <= n}

\* The texts of the rows with these ids, oldest first.
TextsOf(ids) ==
  LET row == Ascending(ids)
  IN  [k \in DOMAIN row |-> TextOf[rows[row[k]].object]]

-----------------------------------------------------------------------------
(* on_post_tool_call                                                       *)

\* A successful post, read or create.  A call from the MicroMeet platform
\* returns before it touches the file.
PostToolCall(s, th) ==
  /\ s \notin Gateway
  /\ writer = None
  /\ bindings' = [bindings EXCEPT ![th] = s]
  /\ acted' = acted \cup {<<s, th>>}
  /\ UNCHANGED <<rows, stored, delivered, writer, worker, turn>>

-----------------------------------------------------------------------------
(* on_post_llm_call                                                        *)

\* Mutant: the lookup does not name the event's thread.
LookUpAnyBinding(w, o, source) ==
  /\ worker[w].at = "idle"
  /\ \E th \in Threads :
       /\ bindings[th] \notin {None, source}
       /\ worker' = [worker EXCEPT ![w] =
            [at |-> "queueing", row |-> [object |-> o, target |-> bindings[th]]]]
  /\ UNCHANGED <<tables, writer, turn, acted>>

\* The first transaction: the binding of the event's thread.  Without one, or
\* bound to the very session that answered, the hook returns.
LookUpBinding(w, o, source) ==
  /\ worker[w].at = "idle"
  /\ bindings[ThreadOf[o]] \notin {None, source}
  /\ worker' = [worker EXCEPT ![w] =
       [at |-> "queueing",
        row |-> [object |-> o, target |-> bindings[ThreadOf[o]]]]]
  /\ UNCHANGED <<tables, writer, turn, acted>>

\* The second transaction: INSERT OR IGNORE under UNIQUE(object, target), then
\* the table is pruned.
QueueHandoff(w) ==
  /\ worker[w].at = "queueing"
  /\ writer = None
  /\ LET known == \E i \in stored : rows[i] = worker[w].row
     IN  /\ rows' = IF known THEN rows ELSE Append(rows, worker[w].row)
         /\ stored' = Newest(IF known THEN stored
                             ELSE stored \cup {Len(rows) + 1})
  /\ worker' = [worker EXCEPT ![w] = [at |-> "done"]]
  /\ UNCHANGED <<bindings, delivered, writer, turn, acted>>

\* The lock stays busy or the process ends: the result is lost.
QueueFails(w) ==
  /\ worker[w].at = "queueing"
  /\ worker' = [worker EXCEPT ![w] = [at |-> "done"]]
  /\ UNCHANGED <<tables, writer, turn, acted>>

-----------------------------------------------------------------------------
(* on_pre_llm_call                                                         *)

\* Mutant: a plain BEGIN, which reads beside another claim.
BeginDeferred(t, s) ==
  /\ turn[t].at = "idle"
  /\ Pending(s) # {}
  /\ LET kept == FitHandoffs(TextsOf(Oldest(Pending(s), MaxPerTurn)))
     IN  turn' = [turn EXCEPT ![t] =
           [at |-> "claiming", session |-> s,
            ids |-> Oldest(Pending(s), Len(kept)), kept |-> kept]]
  /\ writer' = t
  /\ UNCHANGED <<tables, worker, acted>>

\* BEGIN IMMEDIATE, SELECT and _fit_handoffs.  Without a pending row the
\* transaction changes nothing.
BeginTake(t, s) ==
  /\ turn[t].at = "idle"
  /\ writer = None
  /\ Pending(s) # {}
  /\ LET kept == FitHandoffs(TextsOf(Oldest(Pending(s), MaxPerTurn)))
     IN  turn' = [turn EXCEPT ![t] =
           [at |-> "claiming", session |-> s,
            ids |-> Oldest(Pending(s), Len(kept)), kept |-> kept]]
  /\ writer' = t
  /\ UNCHANGED <<tables, worker, acted>>

\* UPDATE and COMMIT.
CommitTake(t) ==
  /\ turn[t].at = "claiming"
  /\ delivered' = delivered \cup turn[t].ids
  /\ writer' = None
  /\ turn' = [turn EXCEPT ![t].at = "claimed"]
  /\ UNCHANGED <<bindings, rows, stored, worker, acted>>

\* Mutant: each UPDATE commits by itself, before the failure.
TakeFailsMarked(t) ==
  /\ turn[t].at = "claiming"
  /\ delivered' = delivered \cup turn[t].ids
  /\ writer' = None
  /\ turn' = [turn EXCEPT ![t] = [at |-> "failed"]]
  /\ UNCHANGED <<bindings, rows, stored, worker, acted>>

\* An exception or the end of the process rolls the claim back.
TakeFails(t) ==
  /\ turn[t].at = "claiming"
  /\ writer' = None
  /\ turn' = [turn EXCEPT ![t] = [at |-> "failed"]]
  /\ UNCHANGED <<tables, worker, acted>>

\* The hook returns the claimed blocks to Hermes.
Inject(t) ==
  /\ turn[t].at = "claimed"
  /\ turn' = [turn EXCEPT ![t].at = "injected"]
  /\ UNCHANGED <<tables, writer, worker, acted>>

\* The process ends between the commit and the injection.
CrashBeforeInjection(t) ==
  /\ turn[t].at = "claimed"
  /\ turn' = [turn EXCEPT ![t].at = "lost"]
  /\ UNCHANGED <<tables, writer, worker, acted>>

-----------------------------------------------------------------------------

Next ==
  \/ \E s \in Sessions \cup Gateway, th \in Threads : PostToolCall(s, th)
  \/ \E w \in Workers :
        \/ \E o \in Objects, source \in Sessions \cup Gateway :
              LookUpBinding(w, o, source)
        \/ QueueHandoff(w) \/ QueueFails(w)
  \/ \E t \in Turns :
        \/ \E s \in Sessions : BeginTake(t, s)
        \/ CommitTake(t) \/ TakeFails(t)
        \/ Inject(t) \/ CrashBeforeInjection(t)

Spec == Init /\ [][Next]_vars

-----------------------------------------------------------------------------
(* Properties                                                              *)

ClaimedBy(t) ==
  IF turn[t].at \in {"claimed", "lost", "injected"}
  THEN turn[t].ids
  ELSE {}

\* The answer to one post is injected into one session once, however many
\* processes take turns for it and however often a redelivered event is
\* answered again, until the prune has removed the first row and with it the
\* memory that it was delivered.
InjectedOnce ==
  \A t, u \in Turns : t # u =>
    \A i \in ClaimedBy(t), j \in ClaimedBy(u) :
      /\ i # j
      /\ rows[i] = rows[j] => i \notin stored \/ j \notin stored

\* A result goes only to a session that acted on that very thread in the
\* foreground, although the binding may have moved since it was looked up.
OnlyToForeground ==
  \A i \in 1..Len(rows) : <<rows[i].target, ThreadOf[rows[i].object]>> \in acted

\* A session gets its results in the order they were queued: the ones that do
\* not fit stay pending, and no later one overtakes them.
OldestFirst ==
  \A i \in delivered, j \in stored :
    j < i /\ rows[j].target = rows[i].target => j \in delivered

\* What is claimed will appear: every claim holds at least one result, and the
\* join of header and blocks stays within max_context_chars, so that it is not cut
\* again.  A result that is shortened is followed by another one only when the cut
\* fell into a run of blanks, longer than what another block takes beside its
\* content.
ClaimedFits ==
  \A t \in Turns : turn[t].at \notin {"idle", "failed"} =>
    LET kept == turn[t].kept  texts == TextsOf(turn[t].ids) IN
    /\ kept # <<>> /\ Len(kept) = Len(texts)
    /\ Joined(kept) <= MaxContextChars
    /\ \A k \in 1..Len(kept) - 1 : \A i \in texts[k] :
         i > kept[k] => i > kept[k] + Separator + Prefix

\* A claim that did not commit leaves its rows to a later turn: what is marked
\* delivered was claimed by a turn that got it.
DeliveredWasClaimed == delivered = UNION {ClaimedBy(t) : t \in Turns}

\* A result is forgotten, claimed or not, only when MaxStored newer ones have
\* been queued: the prune never takes a row out of turn.
KeptUntilFull ==
  \A i \in 1..Len(rows) \ stored : Len(rows) - i >= MaxStored

=============================================================================
