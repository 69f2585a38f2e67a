------------------------------ MODULE MCWorkflow ------------------------------
(* Workflow on small graphs. *)
EXTENDS Workflow, TLC

CONSTANTS a, b, c, d, j1, j2, j3, j4, j5, e1, e2

\* Two nodes that run side by side, and one that joins them.
Join == a :> {} @@ b :> {} @@ c :> {a, b}

\* One node that forks, two that run side by side, and one that joins them.
Diamond == a :> {} @@ b :> {a} @@ c :> {a} @@ d :> {b, c}

JobSymmetry == Permutations(Jobs)
=============================================================================
