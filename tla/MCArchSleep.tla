---------------------------- MODULE MCArchSleep ----------------------------
(* Instances of ArchSleep for TLC. *)
EXTENDS ArchSleep


CONSTANTS led, pwm   \* two parts of the application

=============================================================================
