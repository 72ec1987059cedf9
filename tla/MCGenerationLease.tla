-------------------------- MODULE MCGenerationLease -------------------------
(* Instances of GenerationLease. *)
EXTENDS GenerationLease, TLC

CONSTANTS r1, r2, root1, root2, out1, out2

\* Two checkouts and two authorizations on one host.
TwoRoots   == (r1 :> root1) @@ (r2 :> root2)
TwoOutputs == (r1 :> out1) @@ (r2 :> out2)
=============================================================================
