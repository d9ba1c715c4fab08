------------------------------ MODULE Excerpts ------------------------------
(***************************************************************************)
(* What a worker is told of the foreground session its thread is bound to  *)
(* (bridge.py inbound_context, _select_excerpts, _bounded_join).  The      *)
(* session grows; then an event arrives and at most MaxExcerpts of its     *)
(* newest messages are put before it, within a budget of characters that   *)
(* the plugin's settings give.                                             *)
(*                                                                         *)
(* A message is its role, the places of its text's visible characters and  *)
(* the number of words it shares with the event.  A text has no blanks at  *)
(* its ends; those a cut leaves are stripped.  Hermes' session is          *)
(* external.                                                               *)
(***************************************************************************)
EXTENDS Places, Sequences, FiniteSetsExt

CONSTANTS
  None,
  Rows,              \* the messages a session may hold
  BudgetSettings,    \* what context_bridge_max_chars may be set to
  MaxMessages,       \* MAX_MESSAGES_SCANNED (200)
  MaxExcerpts,       \* MAX_EXCERPTS (6)
  MaxExcerptChars,   \* MAX_EXCERPT_CHARS (900)
  Header,            \* length of the first block (323)
  MaxLog             \* bound: messages of the session

DefaultBudget == 6000
MinBudget == 512
MaxBudget == 16000
Separator == 2       \* the blank line between two blocks
Marker == 12         \* the length of "\n[truncated]"
Reserve == 16        \* what a cut leaves free for the marker

ASSUME ExcerptsAssumption ==
  /\ Rows \subseteq [role : {"user", "assistant", "tool"},
                     text : SUBSET (Nat \ {0}), overlap : Nat]
  /\ \A row \in Rows : row.text = {} \/ 1 \in row.text
  /\ {MaxMessages, MaxExcerpts, MaxExcerptChars, Header, MaxLog} \subseteq Nat
  /\ Header > 0 /\ Header < MinBudget - Reserve
  /\ MaxExcerpts >= 2 /\ MaxExcerptChars > 0

\* Six full excerpts, each behind its longest label, take 5,801 characters.
ASSUME DefaultHasRoom ==
  Header + MaxExcerpts * (Separator + 11 + MaxExcerptChars) <= DefaultBudget

VARIABLES
  log,        \* the bound session's messages
  setting,    \* context_bridge_max_chars
  context     \* what the event got: the chosen places in the log, how many of
              \* them are whole, the length; None before

vars == <<log, setting, context>>

Init ==
  /\ log = <<>>
  /\ setting \in BudgetSettings
  /\ context = None

-----------------------------------------------------------------------------
(* Settings                                                                *)

\* _as_int: no number is the default, a number is brought into its range.
AsInt(raw, default, minimum, maximum) ==
  CASE raw \notin Int  -> default
    [] raw \in Int /\ raw < minimum -> minimum
    [] raw \in Int /\ raw > maximum -> maximum
    [] OTHER -> raw

Budget == AsInt(setting, DefaultBudget, MinBudget, MaxBudget)

-----------------------------------------------------------------------------
(* _select_excerpts: messages are named by their places in the log         *)

\* Messages with a text among the last MaxMessages rows; tool rows count
\* among these rows but are no candidates.
Candidates ==
  {i \in 1..Len(log) : /\ i > Len(log) - MaxMessages
                       /\ log[i].role \in {"user", "assistant"}
                       /\ log[i].text # {}}

NewestTwo(candidates) ==
  {i \in candidates : Cardinality({j \in candidates : i < j}) < 2}

\* Mutant: the sort is not reversed.
RanksBehind(i, j) ==
  \/ log[i].overlap < log[j].overlap
  \/ log[i].overlap = log[j].overlap /\ i < j

\* More shared words, then the later message.
Outranks(i, j) ==
  \/ log[i].overlap > log[j].overlap
  \/ log[i].overlap = log[j].overlap /\ i > j

Ranked(places) ==
  InOrder(places, [i \in places |-> {j \in places : Outranks(j, i)}])

\* Mutant: one excerpt more.
MayTakeOneMore(chosen, i) ==
  Cardinality(chosen) <= MaxExcerpts /\ log[i].overlap > 0

\* The loop over the ranked candidates takes another one.
MayTake(chosen, i) ==
  Cardinality(chosen) < MaxExcerpts /\ log[i].overlap > 0

Chosen(candidates) ==
  LET ranked == Ranked(candidates)
      after[k \in 0..Len(ranked)] ==
        IF k = 0 THEN NewestTwo(candidates)
        ELSE LET chosen == after[k - 1] IN
             IF MayTake(chosen, ranked[k]) THEN chosen \cup {ranked[k]}
             ELSE chosen
  IN  after[Len(ranked)]

\* _select_excerpts: the chosen places in the order of the session.
SelectExcerpts == Ascending(Chosen(Candidates))

-----------------------------------------------------------------------------
(* inbound_context and _bounded_join                                       *)

RoleLabel(row) == IF row.role = "user" THEN 6 ELSE 11

\* The label and what the cut to MaxExcerptChars leaves of the text.
BlockSize(row) ==
  RoleLabel(row) + Max({i \in row.text : i <= MaxExcerptChars})

\* The lengths of the header with the first 0, 1, ... of the blocks.
JoinedSizes(places) ==
  LET sum[k \in 0..Len(places)] ==
        IF k = 0 THEN Header
        ELSE sum[k - 1] + Separator + BlockSize(log[places[k]])
  IN  sum

\* The places of the visible characters of the joined text, of the header only
\* the last one: no cut comes before it.
Visible(places) ==
  LET start(k) == JoinedSizes(places)[k - 1] + Separator
      label(k) == RoleLabel(log[places[k]])
      text(k) == {i \in log[places[k]].text : i <= MaxExcerptChars}
  IN  {Header} \cup
      UNION {{start(k) + i : i \in 1..label(k) - 1} \cup
             {start(k) + label(k) + i : i \in text(k)} : k \in 1..Len(places)}

\* Mutant: the marker is put behind a text that fills the budget.
CutAtBudget(places) == Max({i \in Visible(places) : i <= Budget})

\* The length of what the cut leaves for the marker to stand behind.
Cut(places) == Max({i \in Visible(places) : i <= Budget - Reserve})

\* The joined text of the excerpts: their places, how many are whole, its length.
BoundedJoin(places) ==
  LET sums == JoinedSizes(places)
      fits == sums[Len(places)] <= Budget
      kept == IF fits THEN sums[Len(places)] ELSE Cut(places)
  IN  [places |-> places, size |-> IF fits THEN kept ELSE kept + Marker,
       whole |-> Cardinality({k \in 1..Len(places) : sums[k] <= kept})]

InboundContext ==
  /\ context = None
  /\ Candidates # {}
  /\ context' = BoundedJoin(SelectExcerpts)
  /\ UNCHANGED <<log, setting>>

\* The foreground turn goes on.  One event is followed to its end.
Say ==
  /\ context = None
  /\ Len(log) < MaxLog
  /\ \E row \in Rows : log' = Append(log, row)
  /\ UNCHANGED <<setting, context>>

Next == Say \/ InboundContext

Spec == Init /\ [][Next]_vars

-----------------------------------------------------------------------------
(* Properties                                                              *)

Shown == {context.places[k] : k \in 1..Len(context.places)}

\* At most six excerpts, none of a tool; beside the two newest messages they
\* are the most relevant ones: what was left out shares no word with the event,
\* or six outrank it (bridge.md, "at most six relevant user/assistant excerpts").
MostRelevantKept ==
  context # None =>
    LET newest == NewestTwo(Candidates)
        older == Shown \ newest
    IN
    /\ Cardinality(Shown) <= MaxExcerpts
    /\ newest \subseteq Shown /\ Shown \subseteq Candidates
    /\ \A i \in older : log[i].overlap > 0
    /\ \A i \in Candidates \ Shown :
         log[i].overlap = 0
           \/ /\ Cardinality(Shown) = MaxExcerpts
              /\ \A j \in older :
                   \/ log[j].overlap > log[i].overlap
                   \/ log[j].overlap = log[i].overlap /\ j > i

\* Whatever the setting was, the text with its marker stays within the budget
\* and within 16,000 characters.
WithinBudget ==
  context # None => context.size <= Budget /\ Budget \in MinBudget..MaxBudget

\* With the default budget or more the cut never comes: the newest messages
\* stand last and would be the first to go.
DefaultCutsNothing ==
  context # None /\ Budget >= DefaultBudget =>
    context.whole = Len(context.places)

=============================================================================
