------------------------------- MODULE Places -------------------------------
(***************************************************************************)
(* The members of a finite set as a sequence.  The order is given as a     *)
(* function from each member to those that stand ahead of it.              *)
(***************************************************************************)
EXTENDS Integers, FiniteSets

\* At place k stands the member that has k - 1 others ahead of it.
InOrder(members, ahead) ==
  [k \in 1..Cardinality(members) |->
     CHOOSE i \in members : Cardinality(ahead[i]) = k - 1]

Ascending(numbers) ==
  InOrder(numbers, [i \in numbers |-> {j \in numbers : j < i}])

=============================================================================
