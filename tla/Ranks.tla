-------------------------------- MODULE Ranks --------------------------------
(***************************************************************************)
(* The members of a set of numbers in increasing order, without recursion. *)
(***************************************************************************)
EXTENDS Naturals, FiniteSets

\* The member of a set that has one.
TheOne(S) == CHOOSE i \in S : TRUE

\* The nth smallest of a set of numbers.
Nth(S, n) == TheOne({i \in S : Cardinality({j \in S : j <= i}) = n})
=============================================================================
