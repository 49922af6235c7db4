-------------------------- MODULE MCHealthChecker --------------------------
(* HealthChecker on a small instance. *)
EXTENDS HealthChecker

=============================================================================
