------------------------------- MODULE Sorted -------------------------------
(***************************************************************************)
(* ORDER BY, as the statements of internal/store use it: the rows of a     *)
(* finite set in the order of a column that tells them apart.  It is said  *)
(* by ranks, without a sort, so that it can be reasoned about: the i-th    *)
(* row is the one that i rows, itself included, do not come after.         *)
(***************************************************************************)
EXTENDS Integers, FiniteSets

SortedBy(S, key) ==
  LET rank == [v \in S |-> Cardinality({u \in S : key[u] <= key[v]})]
  IN [i \in 1 .. Cardinality(S) |-> CHOOSE v \in S : rank[v] = i]

(* Numbers in their own order *)
Ascending(S) ==
  LET rank == [v \in S |-> Cardinality({u \in S : u <= v})]
  IN [i \in 1 .. Cardinality(S) |-> CHOOSE v \in S : rank[v] = i]
=============================================================================
