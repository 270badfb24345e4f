--------------------------- MODULE MCAppSecurity ---------------------------
(* Instances of AppSecurity for TLC. *)
EXTENDS AppSecurity, TLC

(* Two phones that keep their identities, one of them with an address it   *)
(* changes, and a legacy one: one more than there are slots.               *)
FaithfulPhones == (1 :> {1}) @@ (2 :> {2}) @@ (3 :> {3})

(* A peer without a resolving key and one with it. *)
PlainAndPhone == (1 :> {0}) @@ (2 :> {2})

(* A phone that gets another resolving key when its owner resets it. *)
ResetPhone == (1 :> {1, 2})

(* What AppSecurity_safe.cfg takes for one state.  Outside of a pairing    *)
(* sec_env is only written: PAIRING_REQ clears its flag, and the key, the  *)
(* identity and the address are there anew before the bond is stored, as   *)
(* every peer of that instance has a resolving key.                        *)
LiveState ==
    <<dbVars, link, phase, pairing_in_progress, IF phase \in PairingPhases THEN sec_env ELSE NoData,
      cipher, resolving, own, pairings, ral, sync, privacy>>
=============================================================================
