----------------------------- MODULE MCBudgetV3 -----------------------------
(* Small instances of the budget extension. The ids of calls to budgeted     *)
(* tools are interchangeable.                                                 *)
EXTENDS BudgetV3, TLC

CONSTANTS c1, c2, c3, u

MCMixed  == {c1, c2, c3, u}
MCOther  == {u}
Symmetry == Permutations({c1, c2, c3})
=============================================================================
