------------------------------- MODULE Beacon -------------------------------
(***************************************************************************)
(* What the owner of a proximity reporter sees: it advertises, and lies    *)
(* dormant only when it has advertised for a full period without a         *)
(* connection; a dormant reporter gets up again only because its button    *)
(* was pressed; a link that is lost, or a press, starts a new period.      *)
(***************************************************************************)
EXTENDS Naturals

CONSTANT Period  \* ticks of a full period, a positive number

VARIABLES
    mode,    \* "advertising", "connected" or "dormant"
    age,     \* ticks it has been advertising, up to Period; 0 when it is not
    noticed  \* a press of the button has been noticed

Init == mode = "advertising" /\ age = 0 /\ noticed = FALSE

Tick == mode = "advertising" /\ age < Period /\ age' = age + 1 /\ UNCHANGED <<mode, noticed>>

LieDown ==
    /\ mode = "advertising" /\ age = Period
    /\ mode' = "dormant" /\ age' = 0 /\ UNCHANGED noticed

GetUp == mode = "dormant" /\ noticed /\ mode' = "advertising" /\ noticed' = FALSE /\ UNCHANGED age

(* A connection may still come when the period is over. *)
Connect == mode = "advertising" /\ mode' = "connected" /\ age' = 0 /\ UNCHANGED noticed

Disconnect == mode = "connected" /\ mode' = "advertising" /\ UNCHANGED <<age, noticed>>

Press == noticed' = TRUE /\ UNCHANGED <<mode, age>>

(* While it is up, a press that was noticed changes nothing.               *)
Ignore == mode # "dormant" /\ noticed' = FALSE /\ UNCHANGED <<mode, age>>

Next == Tick \/ LieDown \/ GetUp \/ Connect \/ Disconnect \/ Press \/ Ignore

Spec == Init /\ [][Next]_<<mode, age, noticed>>
=============================================================================
