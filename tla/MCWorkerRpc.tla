---------------------------- MODULE MCWorkerRpc -----------------------------
(* The calls of the model as model values. *)
EXTENDS WorkerRpc

CONSTANTS c1, c2, c3
=============================================================================
