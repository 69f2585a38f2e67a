------------------------------ MODULE MCDashboard ------------------------------
(* Dashboard on a small instance. *)
EXTENDS Dashboard

CONSTANTS r1, r2, f1
================================================================================
