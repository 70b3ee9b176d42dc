----------------------------- MODULE Increasing -----------------------------
(* Numbers in their order.                                                 *)
EXTENDS Integers, FiniteSets

(* The elements of a finite set of numbers, from the least to the largest: *)
(* what a loop over indices collects.                                      *)
InOrder(S) ==
  CHOOSE s \in [1 .. Cardinality(S) -> S] : \A i, j \in DOMAIN s : i < j => s[i] < s[j]
=============================================================================
