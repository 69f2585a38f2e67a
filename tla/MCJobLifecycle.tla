--------------------------- MODULE MCJobLifecycle ---------------------------
(* JobLifecycle on small instances. *)
EXTENDS JobLifecycle, TLC

JobSymmetry == Permutations(Jobs)

WorkerSymmetry == Permutations(Workers)
=============================================================================
