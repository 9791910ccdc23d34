-------------------------------- MODULE Totals --------------------------------
(***************************************************************************)
(* The sum of a natural-valued function over a finite set.                 *)
(*                                                                         *)
(* The sum is the cardinality of the disjoint union of the intervals       *)
(* 1..f[x]: one element for each unit that each x contributes.  No         *)
(* recursion is involved, so that the facts proved in TotalsProofs follow  *)
(* from the library's theorems about finite cardinalities.                 *)
(***************************************************************************)
EXTENDS Integers, FiniteSets

\* The units that x contributes when it counts n.
UnitsOf(x, n) == {x} \X (1 .. n)

Units(f, S) == UNION {UnitsOf(x, f[x]) : x \in S}

\* The sum of f[x] over x in S.
Total(f, S) == Cardinality(Units(f, S))
===============================================================================
