------------------------------ MODULE Handoffs ------------------------------
(***************************************************************************)
(* The budget of one injection (bridge.py _fit_handoffs): how many of the  *)
(* pending handoffs, oldest first, go into one foreground turn and how     *)
(* much of each.  A stored text has no blanks at its ends, but a cut may   *)
(* leave some, and they are stripped.                                      *)
(***************************************************************************)
EXTENDS Integers, Sequences, FiniteSets, FiniteSetsExt

CONSTANTS
  MaxContextChars,   \* max_context_chars (512..16000)
  Header,            \* len(_HANDOFF_HEADER) (245)
  Prefix,            \* length of a block without its content (153)
  Separator          \* the blank line between two blocks (2)

\* The smallest setting still leaves room for the beginning of one handoff.
ASSUME BudgetAssumption ==
  /\ {MaxContextChars, Header, Prefix, Separator} \subseteq Nat
  /\ MaxContextChars > Header + Separator + Prefix

\* A text is the set of the places of its visible characters: it begins with one
\* of them, and the last of them is its length.
Texts == {text \in SUBSET (1..MaxContextChars) : 1 \in text}

\* used = the characters the header and the first i blocks take.
Fits(used) == MaxContextChars - used - Separator > Prefix

\* Mutant: the block's own prefix is not counted.
KeptWithoutPrefix(used, text) ==
  Max({i \in text : i <= MaxContextChars - used - Separator})

\* The length of what is left of a text that is cut to the room there is.
Kept(used, text) ==
  Max({i \in text : i <= MaxContextChars - used - Separator - Prefix})

Used(texts) ==
  LET used[i \in 0..Len(texts)] ==
        IF i = 0 THEN Header
        ELSE IF Fits(used[i - 1])
             THEN used[i - 1] + Separator + Prefix
                  + Kept(used[i - 1], texts[i])
             ELSE used[i - 1]
  IN  used

\* The lengths of what goes into the injection, of a prefix of the texts:
\* once a block does not fit, no later one does.
FitHandoffs(texts) ==
  LET used == Used(texts)
      n == Cardinality({i \in 1..Len(texts) : Fits(used[i - 1])})
  IN  [i \in 1..n |-> Kept(used[i - 1], texts[i])]

\* The characters of the joined injection.
Joined(lengths) ==
  LET sum[i \in 0..Len(lengths)] ==
        IF i = 0 THEN Header
        ELSE sum[i - 1] + Separator + Prefix + lengths[i]
  IN  sum[Len(lengths)]

=============================================================================
