----------------------------- MODULE ImageUpdate -----------------------------
(***************************************************************************)
(* What a firmware update promises: the image a reset would boot changes   *)
(* in one step, only to the image the initiator asked to end, whatever     *)
(* fails or loses power on the way.                                        *)
(***************************************************************************)

CONSTANTS Versions, Nothing

VARIABLES
    installed,   \* the image that a reset would boot now
    offered      \* the image being completed, or Nothing

Init == installed \in Versions /\ offered = Nothing

Offer ==
    /\ offered = Nothing
    /\ offered' \in Versions
    /\ UNCHANGED installed

Commit ==
    /\ offered # Nothing
    /\ installed' = offered
    /\ UNCHANGED offered

Withdraw ==
    /\ offered' = Nothing
    /\ UNCHANGED installed

Next == Offer \/ Commit \/ Withdraw

Spec == Init /\ [][Next]_<<installed, offered>>
=============================================================================
