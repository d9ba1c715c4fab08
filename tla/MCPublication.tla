--------------------------- MODULE MCPublication ---------------------------
(***************************************************************************)
(* Small instances of Publication.                                         *)
(***************************************************************************)
EXTENDS Publication, TLC

CONSTANTS a, b, o1, hi, err, empty, k1, t1, t2, t3

Meta(publish, notify, key, hint) ==
  [micromeet_publish |-> publish, notify |-> notify, expect_edits |-> FALSE,
   idempotency_key |-> key, reply_to_message_id |-> hint]

\* Only the objects of a smaller instance.
MCOneThread == [o \in {o1} |-> a]

\* The kinds of metadata that take different paths: a preview, a final answer,
\* one with a key, a marked delivery with a hint of what it answers.
MCEveryMetadata ==
  {Meta(FALSE, FALSE, None, None), Meta(FALSE, TRUE, None, None),
   Meta(FALSE, TRUE, k1, None), Meta(TRUE, FALSE, None, o1)}

MCDirectMetadata ==
  {Meta(FALSE, TRUE, None, None), Meta(TRUE, FALSE, None, None)}

MCMarkedMetadata == {Meta(TRUE, FALSE, None, None)}

TaskSymmetry == Permutations(Tasks)

=============================================================================
