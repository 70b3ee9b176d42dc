-------------------------- MODULE MCBudgetResource --------------------------
(* BudgetResource with words of eight values and a limit of five: two      *)
(* small sizes fit together, three do not, and the largest size makes a    *)
(* sum wrap to less than the limit.                                        *)
EXTENDS BudgetResource, TLC

CONSTANTS t1, t2, t3, b1, b2, b3

MCSymmetry == Permutations(Threads) \cup Permutations(Blocks)
=============================================================================
