----------------------------- MODULE PointSums -----------------------------
(***************************************************************************)
(* Sums of points, written as the cardinality of a set of point units.     *)
(*                                                                         *)
(* The program adds amounts with Python's sum(); the natural TLA+ rendering *)
(* is a fold.  A fold is a recursive definition, about which the prover     *)
(* can derive nothing, whereas the library of facts about finite sets       *)
(* (union, subset, difference) applies to a cardinality.  MCBetting asserts *)
(* that SumOf agrees with the fold of the community modules.                *)
(***************************************************************************)
EXTENDS Integers, FiniteSets

(* One unit <<x, i>> for each point x contributes. *)
Units(S, amount) == UNION { {x} \X (1 .. amount[x]) : x \in S }

(* The sum of amount[x] for x in S, for natural amounts. *)
SumOf(S, amount) == Cardinality(Units(S, amount))
=============================================================================
