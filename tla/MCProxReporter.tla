-------------------------- MODULE MCProxReporter --------------------------
(* Instances of ProxReporter for TLC. *)
EXTENDS ProxReporter, TLC
=============================================================================
