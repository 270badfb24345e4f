--------------------------- MODULE MCAppEasyTimer ---------------------------
(* Instances of AppEasyTimer for TLC. *)
EXTENDS AppEasyTimer, TLC
=============================================================================
