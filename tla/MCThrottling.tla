------------------------------ MODULE MCThrottling ------------------------------
(* Throttling on a small instance. *)
EXTENDS Throttling, TLC

MCPolicy == [backoff |-> "EXPONENTIAL", initial |-> 2, max |-> 6, jitter |-> TRUE]

JobSymmetry == Permutations(Jobs)
=================================================================================
