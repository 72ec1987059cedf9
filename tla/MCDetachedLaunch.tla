-------------------------- MODULE MCDetachedLaunch --------------------------
(* Two launchers and one run started by hand, all of one authorization.     *)
EXTENDS DetachedLaunch, TLC

CONSTANTS l1, l2, d, root, out

OneRoot   == [r \in {l1, l2, d} |-> root]
OneOutput == [r \in {l1, l2, d} |-> out]
Symmetry  == Permutations({l1, l2})
=============================================================================
