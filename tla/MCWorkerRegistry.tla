--------------------------- MODULE MCWorkerRegistry ---------------------------
(* WorkerRegistry on a small instance. *)
EXTENDS WorkerRegistry, TLC

CONSTANTS t1, t2, b1, g1
=============================================================================
