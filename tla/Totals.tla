------------------------------- MODULE Totals -------------------------------
(***************************************************************************)
(* Sums of account balances, and the integer shift the protocol halves     *)
(* its rewards with.                                                       *)
(*                                                                         *)
(* A total is counted seed by seed instead of folded: Units(f, S) holds    *)
(* one pair <<a, i>> for the i-th seed of a, so that what an update of one *)
(* entry does to the total follows from the cardinality of a union.        *)
(***************************************************************************)
EXTENDS Integers, FiniteSets

\* One element per seed held by the members of S under f.
Units(f, S) == UNION {{a} \X (1..f[a]) : a \in S}

\* sum(f[a] for a in S): the sum(self.balances.values()) of total_accounted.
Total(f, S) == Cardinality(Units(f, S))

\* x >> k on a non-negative x: how many multiples of 2^k there are up to x.
ShiftRight(x, k) == Cardinality({i \in 1..x : i * 2^k <= x})

Minimum(x, y) == IF x < y THEN x ELSE y
Maximum(x, y) == IF x < y THEN y ELSE x
=============================================================================
