------------------------------- MODULE BondDb -------------------------------
(***************************************************************************)
(* The bond database (app_modules/src/app_bond_db/app_bond_db.c): a table  *)
(* of bonded peers in retained RAM and its copy in one sector of the SPI   *)
(* flash, rewritten at every change.  The sector is erased first, and      *)
(* while the flash erases the scheduler of the BLE stack runs: other       *)
(* handlers may change the table and store it inside the store that waits. *)
(*                                                                         *)
(* This module has the state and the operations; AppSecurity, the client,  *)
(* says which handlers call them.                                          *)
(***************************************************************************)
EXTENDS Integers, Sequences, FiniteSets

CONSTANTS
    NumSlots,     \* APP_BOND_DB_MAX_BONDED_PEERS
    MaxNesting,   \* bound: stores that wait inside one another
    FlashQuirks,  \* what the flash does beyond the ordinary, see below
    Unreadable    \* a sector whose headers are not those of a table

(* "ends_in_store"  an erase ends between the two status reads of a store  *)
(*                  that found the flash busy or gave up, a window of      *)
(*                  microseconds                                           *)
FlashQuirkNames == {"ends_in_store"}

ASSUME SlotAssumption    == NumSlots \in Nat \ {0}
ASSUME NestingAssumption == MaxNesting \in Nat \ {0}
ASSUME FlashAssumption   == FlashQuirks \subseteq FlashQuirkNames

VARIABLES
    bdb,       \* the cache: valid_slot, data, timestamp and timestamp_counter
    flash,     \* the sector: a table, or Unreadable
    erasing,   \* BUSY of the flash's status register
    powered,   \* the flash is not in deep power-down
    stack,     \* the stores in progress, innermost first
    gave_up    \* history: a store, or a reset, gave up on the last erase

dbVars == <<bdb, flash, erasing, powered, stack, gave_up>>

Slots    == 0..(NumSlots - 1)
NotFound == NumSlots        \* BOND_DB_SLOT_NOT_FOUND

(* The part of app_sec_bond_data_env_tag that searches and users look at:  *)
(* peer address (type and number), resolving key and identity address, the *)
(* RIRK_PRESENT flag, and long term key.  Every long term key is another   *)
(* one, so it stands for its EDIV as well.                                 *)
NoAddr == <<"none", 0>>
NoData == [bda |-> NoAddr, irk |-> 0, id |-> 0, has_irk |-> FALSE, ltk |-> 0]

Cleared ==
    [valid |-> [s \in Slots |-> FALSE], data |-> [s \in Slots |-> NoData],
     timestamp |-> [s \in Slots |-> 0], timestamp_counter |-> 0]

Lowest(S) == CHOOSE s \in S : \A t \in S : s <= t
First(S)  == IF S = {} THEN NotFound ELSE Lowest(S)

(* Mutant: by address alone. *)
SamePeer_by_address(a, b) == a.bda = b.bda

(* The peer of two bonds is the same: by resolving key if both have one,   *)
(* by address otherwise.                                                   *)
SamePeer(a, b) ==
    IF a.has_irk /\ b.has_irk THEN a.irk = b.irk ELSE a.bda = b.bda

Occupied == {s \in Slots : bdb.valid[s]}
Matching(d) == {s \in Occupied : SamePeer(bdb.data[s], d)}

(* Mutant: the comparison of timestamps is the wrong way round. *)
LeastRecent_is_newest == Lowest({s \in Slots : \A t \in Slots : bdb.timestamp[s] >= bdb.timestamp[t]})

LeastRecent == Lowest({s \in Slots : \A t \in Slots : bdb.timestamp[s] <= bdb.timestamp[t]})

SlotToWrite(d) ==
    IF Matching(d) # {} THEN First(Matching(d))
    ELSE IF Occupied # Slots THEN First(Slots \ Occupied)
    ELSE LeastRecent

(* Mutant: an identity address is looked for among the addresses. *)
Found_no_identities(type, v) ==
    First({s \in Slots :
        \/ type = "EDIV" /\ bdb.data[s].ltk = v
        \/ type \in {"BDA", "ID"} /\ bdb.data[s].bda[2] = v
        \/ type = "IRK"  /\ bdb.data[s].irk = v})

(* Searches look at every slot, in use or not.  The address is compared    *)
(* without its type.                                                       *)
Found(type, v) ==
    First({s \in Slots :
        \/ type = "EDIV" /\ bdb.data[s].ltk = v
        \/ type = "BDA"  /\ bdb.data[s].bda[2] = v
        \/ type = "IRK"  /\ bdb.data[s].irk = v
        \/ type = "ID"   /\ bdb.data[s].id = v})

-----------------------------------------------------------------------------
(* Storing. *)

Frame(pc, after) == [pc |-> pc, after |-> after]

(* Mutant: the flash is not released from power-down. *)
bond_db_store_ext_asleep(table, after) ==
    /\ Len(stack) < MaxNesting
    /\ bdb' = table
    /\ erasing' = powered
    /\ IF erasing
       THEN stack' = <<Frame("power_down", after)>> \o stack
       ELSE stack' = <<Frame("wait", after)>> \o stack
    /\ UNCHANGED <<flash, powered, gave_up>>

(* bond_db_store_flash up to the point where it waits: release the flash   *)
(* from power-down and start the erase.  If the flash is busy the erase    *)
(* fails, nothing will be written and the power-down is all that is left.  *)
(* `after' is what the caller does once the store returns.                 *)
bond_db_store_ext(table, after) ==
    /\ Len(stack) < MaxNesting
    /\ bdb' = table
    /\ powered' = TRUE
    /\ erasing' = TRUE
    /\ IF erasing
       THEN stack' = <<Frame("power_down", after)>> \o stack /\ UNCHANGED flash
       ELSE stack' = <<Frame("wait", after)>> \o stack /\ flash' = Unreadable
    /\ gave_up' = (gave_up /\ erasing)

default_app_bdb_add_entry(d, after) ==
    LET s == SlotToWrite(d) IN
    bond_db_store_ext(
        [valid |-> [bdb.valid EXCEPT ![s] = TRUE], data |-> [bdb.data EXCEPT ![s] = d],
         timestamp |-> [bdb.timestamp EXCEPT ![s] = bdb.timestamp_counter],
         timestamp_counter |-> bdb.timestamp_counter + 1], after)

(* Mutant: filled with 0xFF as if it were flash. *)
Emptied_as_flash(S) ==
    [bdb EXCEPT !.valid = [s \in Slots |-> s \notin S /\ bdb.valid[s]],
                !.data = [s \in Slots |-> IF s \in S THEN NoData ELSE bdb.data[s]],
                !.timestamp = [s \in Slots |-> IF s \in S THEN -1 ELSE bdb.timestamp[s]]]

(* The table with the slots of S empty. *)
Emptied(S) ==
    [valid |-> [s \in Slots |-> s \notin S /\ bdb.valid[s]],
     data |-> [s \in Slots |-> IF s \in S THEN NoData ELSE bdb.data[s]],
     timestamp |-> [s \in Slots |-> IF s \in S THEN 0 ELSE bdb.timestamp[s]],
     timestamp_counter |-> bdb.timestamp_counter]

(* Remove the entry in slot s, or all the others. *)
default_app_bdb_remove_entry(s, remove_type) ==
    \/ remove_type = "THIS"         /\ s \in Slots /\ bond_db_store_ext(Emptied({s}), "none")
    \/ remove_type = "ALL_BUT_THIS" /\ s \in Slots /\ bond_db_store_ext(Emptied(Slots \ {s}), "none")
    \/ remove_type = "ALL"          /\ bond_db_store_ext(Cleared, "none")

Top == IF stack = << >> THEN Frame("none", "none") ELSE Head(stack)

(* Handlers run from the main loop, or from a store that waits: as long as *)
(* the status register reads busy it lets the scheduler run, and the erase *)
(* may end in the middle of that.  A flash in power-down does not answer,  *)
(* and reads as anything.                                                  *)
HandlersRun == Top.pc \in {"none", "wait"}

(* The erase ends by itself.  A store that found the flash busy, or gave   *)
(* up, reads the status again at once, before its power-down.              *)
EraseEnds ==
    /\ erasing
    /\ Top.pc = "power_down" => "ends_in_store" \in FlashQuirks
    /\ erasing' = FALSE
    /\ UNCHANGED <<bdb, flash, powered, stack, gave_up>>

(* The erase does not end in SPI_FLASH_WAIT rounds: the store returns an   *)
(* error to itself, skips the write and goes on with the power-down.       *)
EraseTimesOut ==
    /\ Top.pc = "wait"
    /\ erasing
    /\ stack' = <<Frame("power_down", Top.after)>> \o Tail(stack)
    /\ gave_up' = TRUE
    /\ UNCHANGED <<bdb, flash, erasing, powered>>

(* The whole table is written, without a break, and the flash is powered   *)
(* down.  A flash in power-down ignores both.  Writing over a sector that  *)
(* is not erased would leave garbage.                                      *)
EraseDone ==
    /\ Top.pc = "wait"
    /\ ~erasing
    /\ flash' = IF ~powered THEN flash ELSE IF flash = Unreadable THEN bdb ELSE Unreadable
    /\ gave_up' = (gave_up /\ ~powered)
    /\ powered' = FALSE
    /\ stack' = Tail(stack)
    /\ UNCHANGED <<bdb, erasing>>

(* spi_flash_power_down does nothing while the flash is busy. *)
PowerDown ==
    /\ Top.pc = "power_down"
    /\ powered' = erasing
    /\ stack' = Tail(stack)
    /\ UNCHANGED <<bdb, flash, erasing, gave_up>>

(* A reset at any point, then default_app_bdb_init: the sector of a store  *)
(* that was cut short is unreadable, and a fresh table is stored without   *)
(* scheduling.  The erase has ended, by the loss of power or by itself.    *)
LoadedOrCleared ==
    /\ bdb' = IF flash = Unreadable THEN Cleared ELSE flash
    /\ flash' = bdb'
    /\ erasing' = FALSE
    /\ powered' = FALSE
    /\ gave_up' = FALSE

(* A reset of the processor alone leaves the flash erasing: it is busy, so *)
(* that nothing is loaded, the erase that is to make room for the fresh    *)
(* table fails, and the flash is not powered down.                         *)
FlashStaysBusy ==
    /\ erasing
    /\ bdb' = Cleared
    /\ gave_up' = TRUE
    /\ UNCHANGED <<flash, erasing, powered>>

default_app_bdb_init ==
    /\ LoadedOrCleared \/ FlashStaysBusy
    /\ stack' = << >>

DbInit ==
    /\ bdb = Cleared
    /\ flash = Cleared
    /\ erasing = FALSE
    /\ powered = FALSE
    /\ stack = << >>
    /\ gave_up = FALSE

-----------------------------------------------------------------------------
(* Properties. *)

(* Whenever no store is in progress the flash holds the table of the RAM,  *)
(* whatever stores ran inside one another (bond_db_store_flash), or no     *)
(* table at all: then an erase had timed out, or outlived a reset, and     *)
(* nothing was written since.  An old table never comes back.              *)
StoredAtRest == stack = << >> => flash = bdb \/ (gave_up /\ flash = Unreadable)

(* A table of the code as a table of BondTable. *)
NoBond == [bond |-> NoData, age |-> -1]
TableOf(table) ==
    [s \in Slots |-> IF table.valid[s] THEN [bond |-> table.data[s], age |-> table.timestamp[s]]
                     ELSE NoBond]
=============================================================================
