---------------------------- MODULE MCProvisioning ----------------------------
(* Provisioning on a small instance. *)
EXTENDS Provisioning, TLC

ProvisioningSymmetry == Permutations(Requests) \cup Permutations(Tokens)
=============================================================================
