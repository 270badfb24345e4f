---------------------------- MODULE SleepRequests ----------------------------
(***************************************************************************)
(* What arch_sleep.c promises: the sleep mode in effect is the one the     *)
(* application asked for last, except that sleep is off while anybody      *)
(* holds the system in active mode.                                        *)
(***************************************************************************)
CONSTANTS Holders, Modes, SleepOff

VARIABLES
    requested,   \* the mode the application asked for last
    holding,     \* who holds the system in active mode
    mode         \* the mode in effect

Init ==
    /\ requested \in Modes
    /\ holding = {}
    /\ mode = requested

Request(m) ==
    /\ requested' = m
    /\ mode' = IF holding = {} THEN m ELSE SleepOff
    /\ UNCHANGED holding

Hold(h) ==
    /\ h \notin holding
    /\ holding' = holding \cup {h}
    /\ mode' = SleepOff
    /\ UNCHANGED requested

Release(h) ==
    /\ h \in holding
    /\ holding' = holding \ {h}
    /\ mode' = IF holding' = {} THEN requested ELSE SleepOff
    /\ UNCHANGED requested

Next ==
    \/ \E m \in Modes : Request(m)
    \/ \E h \in Holders : Hold(h) \/ Release(h)

Spec == Init /\ [][Next]_<<requested, holding, mode>>
=============================================================================
