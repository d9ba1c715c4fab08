----------------------------- MODULE MCExcerpts -----------------------------
(***************************************************************************)
(* Small instances of Excerpts.                                            *)
(***************************************************************************)
EXTENDS Excerpts

CONSTANT junk

Row(role, text, overlap) == [role |-> role, text |-> text, overlap |-> overlap]

\* A long answer about the event, in which both cuts may fall between two
\* visible characters, two short messages, one of them about something else,
\* and a tool's output.
MCRows ==
  {Row("assistant", {1, 170, 890, 2000}, 1), Row("user", {1, 20}, 2),
   Row("user", {1, 30}, 0), Row("tool", {1, 40}, 2)}

\* No number, too small, and too large.
MCBudgetSettings == {junk, 100, 20000}

=============================================================================
