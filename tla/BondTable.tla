------------------------------ MODULE BondTable ------------------------------
(***************************************************************************)
(* What a bond database promises: bonds are replaced by the rule of        *)
(* default_app_bdb_add_entry, and a reset brings back the bonds as they    *)
(* were last saved, or none of them - never a mixture of two tables.       *)
(***************************************************************************)
EXTENDS Integers

CONSTANTS Slots, Bonds, SamePeer(_, _), Empty

VARIABLES
    table,  \* slot -> Empty or [bond, age], the age growing from bond to bond
    saved   \* the table a reset would bring back

NoBonds == [s \in Slots |-> Empty]

Init == table = NoBonds /\ saved = NoBonds

(* The memory cannot be read while its sector is rewritten. *)
MayBecomeUnreadable == saved' \in {saved, NoBonds}

Matching(b) == {s \in Slots : table[s] # Empty /\ SamePeer(table[s].bond, b)}
Vacant      == {s \in Slots : table[s] = Empty}

(* A bond takes the place of a bond with the same peer, else an empty one, *)
(* else that of the bond written the longest time ago.                     *)
MayTake(s, b) ==
    \/ s \in Matching(b)
    \/ Matching(b) = {} /\ s \in Vacant
    \/ Matching(b) \cup Vacant = {} /\ \A t \in Slots : table[s].age <= table[t].age

AddBond ==
    /\ \E s \in Slots : LET new == table'[s] IN
         /\ table' = [table EXCEPT ![s] = new]
         /\ new \in [bond : Bonds, age : Nat]
         /\ MayTake(s, new.bond)
         /\ \A t \in Slots \ Vacant : t # s => table[t].age < new.age
    /\ MayBecomeUnreadable

Forget(S) ==
    /\ table' = [s \in Slots |-> IF s \in S THEN Empty ELSE table[s]]
    /\ MayBecomeUnreadable

Save == saved' = table /\ UNCHANGED table

Reset == table' = saved /\ UNCHANGED saved

Next ==
    \/ Save
    \/ Reset
    \/ \E S \in SUBSET Slots : Forget(S)
    \/ AddBond

tableVars == <<table, saved>>

Spec == Init /\ [][Next]_tableVars
=============================================================================
