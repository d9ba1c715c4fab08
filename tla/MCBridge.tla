------------------------------ MODULE MCBridge ------------------------------
(***************************************************************************)
(* Small instances of Bridge.                                              *)
(***************************************************************************)
EXTENDS Bridge, TLC

CONSTANTS a, b, o1, o2, o3, s1, s2, g, w1, w2, w3, t1, t2

MCThreadOf == [o \in {o1, o2, o3} |-> IF o = o3 THEN b ELSE a]

\* Against a budget of 10: the first answer has a long run of blanks, so that
\* another one may follow what is left of it, the second fits whole, and nothing
\* follows the third.
MCTextOf ==
  [o \in {o1, o2, o3} |->
     CASE o = o1 -> {1, 2, 9} [] o = o2 -> {1} [] o = o3 -> 1..9]

BridgeSymmetry == Permutations(Workers) \cup Permutations(Turns)

=============================================================================
