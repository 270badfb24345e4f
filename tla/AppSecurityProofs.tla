------------------------- MODULE AppSecurityProofs -------------------------
(* What the bond database and the security of a link guarantee for any     *)
(* number of slots, peers, keys, pairings and stores inside one another.   *)
EXTENDS AppSecurity, FiniteSetTheorems, SequenceTheorems, TLAPS

-----------------------------------------------------------------------------
(* Smallest slots. *)

(* Every set of naturals has a least element: otherwise adding one would   *)
(* map its lower bounds, which are finitely many, one to one into them and *)
(* miss 0.                                                                 *)
LEMMA LeastElement ==
    ASSUME NEW S \in SUBSET Nat, S # {}
    PROVE  \E s \in S : \A t \in S : s <= t
<1>. SUFFICES ASSUME \A s \in S : \E t \in S : t < s PROVE FALSE
  OBVIOUS
<1>1. PICK n \in S : TRUE
  OBVIOUS
<1>. DEFINE Below == {k \in 0..n : \A t \in S : k < t}
            next  == [k \in Below |-> k + 1]
<1>2. 0 \in Below
  OBVIOUS
<1>3. ASSUME NEW k \in Below
      PROVE  k + 1 \in Below
  <2>1. k < n /\ \A t \in S : k + 1 <= t
    BY <1>1
  <2>2. k + 1 \notin S
    BY <2>1
  <2>. QED
    BY <2>1, <2>2
<1>4. IsFiniteSet(Below)
  <2>1. IsFiniteSet(0..n)
    BY <1>1, FS_Interval
  <2>. QED
    BY <2>1, FS_Subset
<1>5. next \in Injection(Below, Below)
  <2>1. next \in [Below -> Below]
    BY <1>3
  <2>2. \A a, b \in Below : next[a] = next[b] => a = b
    OBVIOUS
  <2>. QED
    BY <2>1, <2>2 DEF Injection, IsInjective
<1>6. next \in Surjection(Below, Below)
  <2>. HIDE DEF next, Below
  <2>. QED
   BY <1>4, <1>5, FS_Injection
<1>7. \E k \in Below : next[k] = 0
  BY <1>2, <1>6 DEF Surjection
<1>. QED
  BY <1>7

(* The slots the code settles on are in the table and are what it sought.  *)
LEMMA LowestSlot ==
    ASSUME NEW S \in SUBSET Slots, S # {}
    PROVE  Lowest(S) \in S
<1>1. S \in SUBSET Nat
  BY SlotAssumption DEF Slots
<1>2. \E s \in S : \A t \in S : s <= t
  BY <1>1, LeastElement
<1>. QED
  BY <1>2 DEF Lowest

(* A search finds one of the slots it looks for, or says that there is     *)
(* none.                                                                   *)
LEMMA FirstSlot ==
    ASSUME NEW S \in SUBSET Slots
    PROVE  /\ S # {} => First(S) \in S /\ First(S) # NotFound
           /\ S = {} => First(S) = NotFound
           /\ First(S) # NotFound => First(S) \in S
<1>1. NotFound \notin Slots
  BY SlotAssumption DEF NotFound, Slots
<1>2. CASE S = {}
  BY <1>2 DEF First
<1>3. CASE S # {}
  <2>1. Lowest(S) \in S
    BY <1>3, LowestSlot
  <2>. QED
    BY <1>1, <1>3, <2>1 DEF First
<1>. QED
  BY <1>2, <1>3

-----------------------------------------------------------------------------
(* Types. *)

Frames == [pc : {"wait", "power_down"}, after : {"none", "paired"}]

DbTypes ==
    /\ bdb \in Tables /\ flash \in Tables \cup {Unreadable}
    /\ erasing \in BOOLEAN /\ powered \in BOOLEAN /\ gave_up \in BOOLEAN
    /\ stack \in Seq(Frames) /\ Len(stack) <= MaxNesting

LinkTypes ==
    /\ link \in [peer : Peers \cup {0}, addr : Addrs] /\ phase \in Phases
    /\ pairing_in_progress \in BOOLEAN /\ sec_env \in Entries /\ cipher \in Keys
    /\ resolving \in [irk : Irks, keys : SUBSET Irks]
    /\ own \in [Peers -> [irk : Irks, ltk : Keys]] /\ pairings \in Keys

ListTypes ==
    /\ DOMAIN ral \subseteq Peers \cup {0} /\ ral \in [DOMAIN ral -> Irks]
    /\ sync \in [idx : 0..NumSlots, nb : -1..NumSlots] /\ privacy \in BOOLEAN

(* A link has a peer, and a pairing a key left to give.                    *)
LinkInv ==
    /\ phase # "none" => link.peer \in Peers
    /\ phase \in PairingPhases => pairings < MaxPairings

TypeInv == DbTypes /\ LinkTypes /\ ListTypes /\ LinkInv

(* The waiting stores: what is on top of them, what is below.              *)
LEMMA Stacks ==
    ASSUME stack \in Seq(Frames)
    PROVE  /\ Top.pc \in {"none", "wait", "power_down"}
           /\ Top.pc = "none" => stack = <<>>
           /\ stack = <<>> => Top.pc = "none"
           /\ stack # <<>> =>
                /\ Top = stack[1] /\ Top \in Frames /\ Len(stack) >= 1
                /\ Tail(stack) \in Seq(Frames) /\ Len(Tail(stack)) = Len(stack) - 1
                /\ \A i \in 1..Len(Tail(stack)) : i + 1 \in 1..Len(stack) /\ Tail(stack)[i] = stack[i + 1]
<1>1. CASE stack = <<>>
  BY <1>1 DEF Top, Frame
<1>2. CASE stack # <<>>
  <2>1. Head(stack) = stack[1] /\ Head(stack) \in Frames /\ Len(stack) \in Nat /\ Len(stack) >= 1
    BY <1>2, EmptySeq, LenProperties, ElementOfSeq
  <2>2. Top = stack[1] /\ Top \in Frames
    BY <1>2, <2>1 DEF Top
  <2>3. /\ Tail(stack) \in Seq(Frames) /\ Len(Tail(stack)) = Len(stack) - 1
        /\ \A i \in 1..Len(Tail(stack)) : Tail(stack)[i] = stack[i + 1]
    BY <1>2, HeadTailProperties
  <2>. QED
    BY <1>2, <2>1, <2>2, <2>3 DEF Frames
<1>. QED
  BY <1>1, <1>2

(* A new store goes on top of the others.                                  *)
LEMMA Pushed ==
    ASSUME stack \in Seq(Frames), NEW f \in Frames
    PROVE  /\ <<f>> \o stack \in Seq(Frames)
           /\ Len(<<f>> \o stack) = Len(stack) + 1 /\ Len(stack) \in Nat
           /\ (<<f>> \o stack)[1] = f /\ <<f>> \o stack # <<>>
           /\ \A i \in 1..Len(stack) : (<<f>> \o stack)[i + 1] = stack[i]
<1>1. <<f>> \in Seq(Frames) /\ Len(<<f>>) = 1 /\ <<f>>[1] = f
  OBVIOUS
<1>. DEFINE t == <<f>> \o stack
<1>2. /\ t \in Seq(Frames) /\ Len(t) = 1 + Len(stack)
      /\ \A i \in 1..(1 + Len(stack)) : t[i] = IF i <= 1 THEN <<f>>[i] ELSE stack[i - 1]
  BY <1>1, ConcatProperties
<1>3. Len(stack) \in Nat
  BY LenProperties
<1>4. t # <<>>
  BY <1>2, <1>3, EmptySeq
<1>5. t[1] = f /\ \A i \in 1..Len(stack) : t[i + 1] = stack[i]
  <2>. HIDE DEF t
  <2>. QED
    BY <1>1, <1>2, <1>3
<1>. QED
  BY <1>2, <1>3, <1>4, <1>5

(* No data, and the tables the operations make, are of the right types.    *)
LEMMA NoDataIsEntry == NoData \in Entries
<1>1. NoAddr \in Addrs
  BY DEF Addrs, NoAddr
<1>2. 0 \in Irks /\ 0 \in Keys
  BY PairingAssumption DEF Irks, Keys
<1>. QED
  BY <1>1, <1>2, Zenon DEF NoData, Entries

(* The tables that are stored are tables.                                  *)

LEMMA MadeTables ==
    ASSUME bdb \in Tables
    PROVE  /\ Cleared \in Tables
           /\ \A S \in SUBSET Slots : Emptied(S) \in Tables
           /\ \A s \in Slots, d \in Entries :
                 [valid |-> [bdb.valid EXCEPT ![s] = TRUE], data |-> [bdb.data EXCEPT ![s] = d],
                  timestamp |-> [bdb.timestamp EXCEPT ![s] = bdb.timestamp_counter],
                  timestamp_counter |-> bdb.timestamp_counter + 1] \in Tables
<1>. USE NoDataIsEntry
<1>0. /\ bdb.valid \in [Slots -> BOOLEAN] /\ bdb.data \in [Slots -> Entries]
      /\ bdb.timestamp \in [Slots -> Nat] /\ bdb.timestamp_counter \in Nat
  BY DEF Tables
<1>1. Cleared \in Tables
  BY DEF Cleared, Tables
<1>2. ASSUME NEW S \in SUBSET Slots
      PROVE  Emptied(S) \in Tables
  <2>1. [s \in Slots |-> s \notin S /\ bdb.valid[s]] \in [Slots -> BOOLEAN]
    OBVIOUS
  <2>2. [s \in Slots |-> IF s \in S THEN NoData ELSE bdb.data[s]] \in [Slots -> Entries]
    BY <1>0
  <2>3. [s \in Slots |-> IF s \in S THEN 0 ELSE bdb.timestamp[s]] \in [Slots -> Nat]
    BY <1>0
  <2>. QED
    BY <1>0, <2>1, <2>2, <2>3 DEF Emptied, Tables
<1>3. ASSUME NEW s \in Slots, NEW d \in Entries
      PROVE  [valid |-> [bdb.valid EXCEPT ![s] = TRUE], data |-> [bdb.data EXCEPT ![s] = d],
              timestamp |-> [bdb.timestamp EXCEPT ![s] = bdb.timestamp_counter],
              timestamp_counter |-> bdb.timestamp_counter + 1] \in Tables
  <2>1. /\ [bdb.valid EXCEPT ![s] = TRUE] \in [Slots -> BOOLEAN]
        /\ [bdb.data EXCEPT ![s] = d] \in [Slots -> Entries]
        /\ [bdb.timestamp EXCEPT ![s] = bdb.timestamp_counter] \in [Slots -> Nat]
        /\ bdb.timestamp_counter + 1 \in Nat
    BY <1>0
  <2>. QED
    BY <2>1 DEF Tables
<1>. QED
  BY <1>1, <1>2, <1>3

(* A bond is written to a slot of the same peer, else to a free one, else  *)
(* to the one written the longest time ago (default_app_bdb_add_entry).    *)
LEMMA WrittenSlot ==
    ASSUME bdb \in Tables, NEW d
    PROVE  /\ SlotToWrite(d) \in Slots
           /\ \/ SlotToWrite(d) \in Matching(d)
              \/ Matching(d) = {} /\ SlotToWrite(d) \notin Occupied
              \/ /\ Matching(d) = {} /\ Occupied = Slots
                 /\ \A t \in Slots : bdb.timestamp[SlotToWrite(d)] <= bdb.timestamp[t]
<1>1. CASE Matching(d) # {}
  BY <1>1, FirstSlot DEF SlotToWrite, Matching, Occupied
<1>2. CASE Matching(d) = {} /\ Occupied # Slots
  <2>1. Slots \ Occupied # {} /\ Slots \ Occupied \in SUBSET Slots
    BY <1>2 DEF Occupied
  <2>. QED
    BY <1>2, <2>1, FirstSlot DEF SlotToWrite
<1>3. CASE Matching(d) = {} /\ Occupied = Slots
  <2>. DEFINE oldest == {s \in Slots : \A t \in Slots : bdb.timestamp[s] <= bdb.timestamp[t]}
  <2>1. oldest # {}
    <3>1. {bdb.timestamp[s] : s \in Slots} \in SUBSET Nat /\ {bdb.timestamp[s] : s \in Slots} # {}
      BY SlotAssumption DEF Tables, Slots
    <3>2. PICK n \in {bdb.timestamp[s] : s \in Slots} : \A k \in {bdb.timestamp[s] : s \in Slots} : n <= k
      BY <3>1, LeastElement
    <3>. QED
      BY <3>2
  <2>2. LeastRecent \in oldest
    BY <2>1, LowestSlot DEF LeastRecent
  <2>. QED
    BY <1>3, <2>2 DEF SlotToWrite
<1>. QED
  BY <1>1, <1>2, <1>3

(* What is stored keeps the types of the database.                         *)
LEMMA StoreTypes ==
    ASSUME DbTypes, NEW table \in Tables, NEW after \in {"none", "paired"},
           bond_db_store_ext(table, after)
    PROVE  DbTypes'
<1>1. /\ Frame("wait", after) \in Frames /\ Frame("power_down", after) \in Frames
  BY DEF Frame, Frames
<1>2. \/ stack' = <<Frame("wait", after)>> \o stack /\ flash' = Unreadable
      \/ stack' = <<Frame("power_down", after)>> \o stack /\ flash' = flash
  BY DEF bond_db_store_ext
<1>3. stack' \in Seq(Frames) /\ Len(stack') = Len(stack) + 1 /\ Len(stack) \in Nat
  BY <1>1, <1>2, Pushed DEF DbTypes
<1>4. gave_up' \in BOOLEAN
  BY Zenon DEF bond_db_store_ext, DbTypes
<1>. QED
  BY <1>2, <1>3, <1>4, NestingAssumption DEF DbTypes, bond_db_store_ext

(* A store that gives up stays where it is.                                *)
LEMMA Replaced ==
    ASSUME stack \in Seq(Frames), stack # <<>>, NEW f \in Frames
    PROVE  /\ <<f>> \o Tail(stack) \in Seq(Frames) /\ <<f>> \o Tail(stack) # <<>>
           /\ Len(<<f>> \o Tail(stack)) = Len(stack)
           /\ (<<f>> \o Tail(stack))[1] = f
           /\ \A i \in 1..Len(stack) : i > 1 => (<<f>> \o Tail(stack))[i] = stack[i]
<1>1. <<f>> \in Seq(Frames) /\ Len(<<f>>) = 1 /\ <<f>>[1] = f
  OBVIOUS
<1>2. /\ Tail(stack) \in Seq(Frames) /\ Len(Tail(stack)) = Len(stack) - 1
      /\ \A i \in 1..Len(Tail(stack)) : Tail(stack)[i] = stack[i + 1]
      /\ Len(stack) \in Nat /\ Len(stack) >= 1
  BY Stacks, LenProperties
<1>. DEFINE rest == Tail(stack)
            t    == <<f>> \o rest
<1>. HIDE DEF rest
<1>3. /\ t \in Seq(Frames) /\ Len(t) = 1 + Len(rest)
      /\ \A i \in 1..(1 + Len(rest)) : t[i] = IF i <= 1 THEN <<f>>[i] ELSE rest[i - 1]
  BY <1>1, <1>2, ConcatProperties DEF rest
<1>4. rest \in Seq(Frames) /\ Len(rest) = Len(stack) - 1
      /\ \A i \in 1..Len(rest) : rest[i] = stack[i + 1]
  BY <1>2, Zenon DEF rest
<1>5. t \in Seq(Frames) /\ t # <<>> /\ Len(t) = Len(stack)
  <2>. HIDE DEF t
  <2>1. Len(t) = Len(stack)
    BY <1>2, <1>3, <1>4
  <2>2. Len(t) # 0
    BY <1>2, <2>1
  <2>. QED
    BY <1>3, <2>1, <2>2, EmptySeq
<1>6. t[1] = f /\ \A i \in 1..Len(stack) : i > 1 => t[i] = stack[i]
  <2>. HIDE DEF t
  <2>1. t[1] = f
    BY <1>1, <1>2, <1>3, <1>4
  <2>2. ASSUME NEW i \in 1..Len(stack), i > 1
        PROVE  t[i] = stack[i]
    <3>1. i \in 1..(1 + Len(rest)) /\ i - 1 \in 1..Len(rest) /\ (i - 1) + 1 = i
      BY <1>2, <1>4, <2>2
    <3>. QED
      BY <1>3, <1>4, <2>2, <3>1
  <2>. QED
    BY <2>1, <2>2
<1>. QED
  BY <1>5, <1>6 DEF rest

(* Removing is storing an emptied table, adding one with the new bond.     *)
LEMMA RemoveIsStore ==
    ASSUME bdb \in Tables, NEW s, NEW type, default_app_bdb_remove_entry(s, type)
    PROVE  \E S \in SUBSET Slots :
              /\ Emptied(S) \in Tables
              /\ \/ bond_db_store_ext(Emptied(S), "none")
                 \/ S = Slots /\ bond_db_store_ext(Cleared, "none")
<1>1. CASE type = "THIS" /\ s \in Slots /\ bond_db_store_ext(Emptied({s}), "none")
  BY <1>1, MadeTables
<1>2. CASE type = "ALL_BUT_THIS" /\ s \in Slots /\ bond_db_store_ext(Emptied(Slots \ {s}), "none")
  BY <1>2, MadeTables
<1>3. CASE type = "ALL" /\ bond_db_store_ext(Cleared, "none")
  BY <1>3, MadeTables
<1>. QED
  BY <1>1, <1>2, <1>3 DEF default_app_bdb_remove_entry

(* A search that succeeds returns a slot of the table.                     *)
LEMMA FoundSlot ==
    ASSUME NEW type, NEW v, Found(type, v) # NotFound
    PROVE  Found(type, v) \in Slots
  BY FirstSlot DEF Found

(* The bond a search finds is one of the table's.                          *)
LEMMA AcceptTypes ==
    ASSUME TypeInv, NEW slot, slot = NotFound \/ slot \in Slots, AcceptIfFound(slot)
    PROVE  /\ sec_env' \in Entries /\ cipher' \in Keys
           /\ phase' \in {"closing", "encrypted", "secured"}
           /\ phase' = "encrypted" => phase = "keyed"
<1>1. CASE slot = NotFound
  BY <1>1 DEF AcceptIfFound, app_easy_security_reject_encryption, TypeInv, LinkTypes
<1>2. CASE slot # NotFound
  <2>1. bdb.data[slot] \in Entries /\ bdb.data[slot].ltk \in Keys
    BY <1>2 DEF TypeInv, DbTypes, Tables, Entries
  <2>. QED
    BY <1>2, <2>1 DEF AcceptIfFound, app_easy_security_accept_encryption
<1>. QED
  BY <1>1, <1>2

(* An encryption request is answered with a bond, turned away, or waits    *)
(* for its address to be resolved.                                         *)
LEMMA EncryptTypes ==
    ASSUME TypeInv, default_app_on_encrypt_req_ind, phase \in {"idle", "keyed"}
    PROVE  /\ sec_env' \in Entries /\ cipher' \in Keys
           /\ phase' \in {"closing", "encrypted", "secured"} \/ UNCHANGED phase
           /\ phase' = "encrypted" => phase = "keyed"
           /\ resolving' \in [irk : Irks, keys : SUBSET Irks]
<1>0. resolving \in [irk : Irks, keys : SUBSET Irks] /\ phase # "encrypted"
  BY DEF TypeInv, LinkTypes
<1>1. CASE pairing_in_progress /\ app_easy_security_accept_encryption(sec_env) /\ UNCHANGED resolving
  <2>1. sec_env \in Entries /\ sec_env.ltk \in Keys
    BY DEF TypeInv, LinkTypes, Entries
  <2>. QED
    BY <1>0, <1>1, <2>1 DEF app_easy_security_accept_encryption
<1>2. ASSUME NEW type, NEW v, AcceptIfFound(Found(type, v)), UNCHANGED resolving
      PROVE  /\ sec_env' \in Entries /\ cipher' \in Keys
             /\ phase' \in {"closing", "encrypted", "secured"} \/ UNCHANGED phase
             /\ phase' = "encrypted" => phase = "keyed"
             /\ resolving' \in [irk : Irks, keys : SUBSET Irks]
  <2>1. Found(type, v) = NotFound \/ Found(type, v) \in Slots
    BY FoundSlot
  <2>. QED
    BY <1>0, <1>2, <2>1, AcceptTypes
<1>3. CASE app_easy_security_resolve_bdaddr
  <2>1. CASE StoredIrks = {}
    BY <1>0, <1>3, <2>1 DEF app_easy_security_resolve_bdaddr, app_easy_security_reject_encryption,
       TypeInv, LinkTypes
  <2>2. CASE StoredIrks # {}
    <3>1. StoredIrks \subseteq Irks
      BY DEF StoredIrks, TypeInv, DbTypes, Tables, Entries
    <3>2. own[link.peer].irk \in Irks
      <4>1. link.peer \in Peers
        BY DEF TypeInv, LinkInv
      <4>. QED
        BY <4>1 DEF TypeInv, LinkTypes
    <3>. QED
      BY <1>0, <1>3, <2>2, <3>1, <3>2 DEF app_easy_security_resolve_bdaddr, TypeInv, LinkTypes
  <2>. QED
    BY <2>1, <2>2
<1>. QED
  BY <1>1, <1>2, <1>3 DEF default_app_on_encrypt_req_ind

(* Addresses are of the right kind.                                        *)
LEMMA ShownAddress ==
    ASSUME TypeInv, NEW p \in Peers, NEW irk
    PROVE  AddrOf(p, irk) \in Addrs
<1>1. 100 * p + pairings \in {100 * q + n : q \in Peers, n \in 0..MaxPairings}
  BY DEF TypeInv, LinkTypes, Keys
<1>. QED
  BY <1>1 DEF AddrOf, Addrs

(* The steps that store.                                                   *)
LEMMA DbStep ==
    ASSUME TypeInv, [Next]_vars
    PROVE  DbTypes'
<1>. USE DEF TypeInv
<1>1. CASE UNCHANGED dbVars
  BY <1>1 DEF dbVars, DbTypes
<1>2. CASE PairingSucceeds
  <2>1. link.addr \in Addrs /\ sec_env' = [sec_env EXCEPT !.bda = link.addr]
    BY <1>2 DEF PairingSucceeds, LinkTypes
  <2>2. sec_env' \in Entries
    BY <2>1 DEF LinkTypes, Entries
  <2>3. bdb \in Tables
    BY DEF DbTypes
  <2>4. SlotToWrite(sec_env') \in Slots
    BY <2>3, WrittenSlot
  <2>5. PICK table \in Tables : bond_db_store_ext(table, "paired")
    BY <1>2, <2>2, <2>3, <2>4, MadeTables DEF PairingSucceeds, default_app_bdb_add_entry
  <2>. QED
    BY <2>5, StoreTypes
<1>3. CASE RemoveEntry
  <2>1. PICK table \in Tables : bond_db_store_ext(table, "none")
    BY <1>3, RemoveIsStore, MadeTables DEF RemoveEntry, DbTypes
  <2>. QED
    BY <2>1, StoreTypes
<1>4. CASE EraseDone \/ PowerDown
  <2>0. stack \in Seq(Frames) /\ Len(stack) \in Nat
    BY LenProperties DEF DbTypes
  <2>. HIDE DEF TypeInv
  <2>1. Top.pc # "none" /\ stack' = Tail(stack)
    BY <1>4 DEF EraseDone, PowerDown
  <2>2. stack' \in Seq(Frames) /\ Len(stack') = Len(stack) - 1 /\ Len(stack) \in Nat
    BY <2>0, <2>1, Stacks
  <2>. USE DEF TypeInv
  <2>3. flash' \in Tables \cup {Unreadable} /\ bdb' = bdb
    BY <1>4 DEF EraseDone, PowerDown, DbTypes
  <2>4. erasing' \in BOOLEAN /\ powered' \in BOOLEAN /\ gave_up' \in BOOLEAN
    BY <1>4, Zenon DEF EraseDone, PowerDown, DbTypes
  <2>. QED
    BY <2>2, <2>3, <2>4, NestingAssumption DEF DbTypes
<1>5. CASE EraseEnds
  BY <1>5 DEF EraseEnds, DbTypes
<1>6. CASE Reset
  <2>1. bdb' \in Tables /\ flash' \in Tables \cup {Unreadable}
    BY <1>6, MadeTables DEF Reset, default_app_bdb_init, LoadedOrCleared, FlashStaysBusy, DbTypes
  <2>2. stack' \in Seq(Frames) /\ Len(stack') <= MaxNesting
    BY <1>6, NestingAssumption, EmptySeq DEF Reset, default_app_bdb_init
  <2>. QED
    BY <1>6, <2>1, <2>2
    DEF Reset, default_app_bdb_init, LoadedOrCleared, FlashStaysBusy, DbTypes
<1>7. CASE EraseTimesOut
  <2>1. stack # <<>> /\ stack \in Seq(Frames) /\ Frame("power_down", Top.after) \in Frames
    BY <1>7, Stacks DEF EraseTimesOut, DbTypes, Frame, Frames
  <2>2. stack' \in Seq(Frames) /\ Len(stack') = Len(stack)
    BY <1>7, <2>1, Replaced DEF EraseTimesOut
  <2>. QED
    BY <1>7, <2>2 DEF EraseTimesOut, DbTypes
<1>. QED
  BY <1>1, <1>2, <1>3, <1>4, <1>5, <1>6, <1>7
  DEF Next, vars, gapc_connection_req_ind, gapc_disconnect_ind, PairingReq, LtkExch, IrkExch,
      PairingFails, gapc_encrypt_req_ind, AddrResolved, StoreReturns, StoreWaits,
      app_easy_security_ral_sync_with_bdb

(* The steps of the link.                                                  *)
LEMMA LinkStep ==
    ASSUME TypeInv, [Next]_vars
    PROVE  LinkTypes' /\ LinkInv'
<1>. USE DEF TypeInv
<1>1. CASE UNCHANGED <<link, phase, pairing_in_progress, sec_env, cipher, resolving, own, pairings>>
  BY <1>1 DEF LinkTypes, LinkInv
<1>2. CASE \E p \in Peers : gapc_connection_req_ind(p)
  <2>1. PICK p \in Peers : gapc_connection_req_ind(p)
    BY <1>2
  <2>2. PICK known \in MayKnow(p) : /\ own' = [own EXCEPT ![p] = known]
                                    /\ link' = [peer |-> p, addr |-> AddrOf(p, known.irk)]
    BY <2>1 DEF gapc_connection_req_ind
  <2>3. known \in [irk : Irks, ltk : Keys]
    <3>1. own[p] \in [irk : Irks, ltk : Keys]
      BY DEF LinkTypes
    <3>2. IrksOf[p] \subseteq Irks /\ 0 \in Keys
      BY PairingAssumption DEF Irks, Keys
    <3>. QED
      BY <3>1, <3>2 DEF MayKnow
  <2>4. own' \in [Peers -> [irk : Irks, ltk : Keys]]
    BY <2>2, <2>3 DEF LinkTypes
  <2>5. link' \in [peer : Peers \cup {0}, addr : Addrs] /\ link'.peer \in Peers
    BY <2>2, ShownAddress
  <2>. QED
    BY <2>1, <2>4, <2>5 DEF gapc_connection_req_ind, LinkTypes, LinkInv, Phases, PairingPhases
<1>3. CASE gapc_disconnect_ind
  <2>1. NoLink \in [peer : Peers \cup {0}, addr : Addrs] /\ 0 \in Keys
    BY PairingAssumption DEF NoLink, Addrs, Keys
  <2>. QED
    BY <1>3, <2>1 DEF gapc_disconnect_ind, LinkTypes, LinkInv, Phases, PairingPhases
<1>4. CASE PairingReq
  <2>1. sec_env' \in Entries
    BY <1>4 DEF PairingReq, LinkTypes, Entries
  <2>. QED
    BY <1>4, <2>1 DEF PairingReq, LinkTypes, LinkInv, Phases, PairingPhases
<1>5. CASE LtkExch
  <2>1. phase \in PairingPhases
    BY <1>5 DEF LtkExch, PairingPhases
  <2>2. FreshKey \in Keys
    BY <2>1, PairingAssumption DEF LinkTypes, LinkInv, FreshKey, Keys
  <2>3. sec_env' \in Entries
    BY <1>5, <2>2 DEF LtkExch, LinkTypes, Entries
  <2>. QED
    BY <1>5, <2>1, <2>3 DEF LtkExch, LinkTypes, LinkInv, Phases, PairingPhases
<1>6. CASE IrkExch
  <2>1. phase \in PairingPhases /\ link.peer \in Peers
    BY <1>6 DEF IrkExch, Protected, PairingPhases, LinkInv
  <2>2. own[link.peer].irk \in Irks
    BY <2>1 DEF LinkTypes
  <2>3. sec_env' \in Entries
    BY <1>6, <2>1, <2>2 DEF IrkExch, LinkTypes, Entries
  <2>. QED
    BY <1>6, <2>1, <2>3 DEF IrkExch, LinkTypes, LinkInv, Phases, PairingPhases
<1>7. CASE PairingSucceeds
  <2>1. phase \in PairingPhases /\ link.peer \in Peers
    BY <1>7 DEF PairingSucceeds, PairingPhases, LinkInv
  <2>2. FreshKey \in Keys
    BY <2>1, PairingAssumption DEF LinkTypes, LinkInv, FreshKey, Keys
  <2>3. link.addr \in Addrs /\ sec_env' = [sec_env EXCEPT !.bda = link.addr]
    BY <1>7 DEF PairingSucceeds, LinkTypes
  <2>4. sec_env' \in Entries
    BY <2>3 DEF LinkTypes, Entries
  <2>5. own' \in [Peers -> [irk : Irks, ltk : Keys]]
    <3>1. own' = [own EXCEPT ![link.peer].ltk = FreshKey]
      BY <1>7 DEF PairingSucceeds
    <3>2. [own[link.peer] EXCEPT !.ltk = FreshKey] \in [irk : Irks, ltk : Keys]
      BY <2>1, <2>2 DEF LinkTypes
    <3>. QED
      BY <2>1, <3>1, <3>2 DEF LinkTypes
  <2>. QED
    BY <1>7, <2>1, <2>2, <2>4, <2>5 DEF PairingSucceeds, LinkTypes, LinkInv, Phases, PairingPhases
<1>8. CASE PairingFails
  BY <1>8 DEF PairingFails, LinkTypes, LinkInv, Phases, PairingPhases
<1>9. CASE gapc_encrypt_req_ind
  <2>1. /\ sec_env' \in Entries /\ cipher' \in Keys
        /\ phase' \in {"closing", "encrypted", "secured"} \/ UNCHANGED phase
        /\ phase' = "encrypted" => phase = "keyed"
        /\ resolving' \in [irk : Irks, keys : SUBSET Irks]
        /\ phase \in {"idle", "keyed"}
    BY <1>9, EncryptTypes DEF gapc_encrypt_req_ind
  <2>2. phase' \in Phases /\ (phase' \in PairingPhases => phase \in PairingPhases)
    BY <2>1 DEF LinkTypes, Phases, PairingPhases
  <2>3. link' = link /\ pairings' = pairings /\ own' = own /\ pairing_in_progress' = pairing_in_progress
    BY <1>9 DEF gapc_encrypt_req_ind
  <2>. QED
    BY <2>1, <2>2, <2>3 DEF LinkTypes, LinkInv
<1>10. CASE AddrResolved
  <2>. DEFINE slot == IF resolving.irk \in resolving.keys THEN Found("IRK", resolving.irk)
                      ELSE NotFound
  <2>1. slot = NotFound \/ slot \in Slots
    BY FoundSlot
  <2>2. /\ IF phase # "none" THEN AcceptIfFound(slot)
           ELSE /\ sec_env' = IF slot # NotFound THEN bdb.data[slot] ELSE sec_env
                /\ UNCHANGED <<phase, cipher>>
        /\ resolving' = NoResolving
        /\ UNCHANGED <<link, pairing_in_progress, own, pairings>>
    BY <1>10, Zenon DEF AddrResolved
  <2>. HIDE DEF slot
  <2>3. resolving' \in [irk : Irks, keys : SUBSET Irks]
    BY <2>2 DEF NoResolving, Irks
  <2>4. CASE phase # "none"
    <3>1. /\ sec_env' \in Entries /\ cipher' \in Keys
          /\ phase' \in {"closing", "encrypted", "secured"}
          /\ phase' = "encrypted" => phase = "keyed"
      BY <2>1, <2>2, <2>4, AcceptTypes
    <3>2. phase' \in Phases /\ (phase' \in PairingPhases => phase \in PairingPhases)
      BY <3>1 DEF LinkTypes, Phases, PairingPhases
    <3>. QED
      BY <2>2, <2>3, <2>4, <3>1, <3>2 DEF LinkTypes, LinkInv
  <2>5. CASE phase = "none"
    <3>1. sec_env' \in Entries
      BY <2>1, <2>2, <2>5 DEF LinkTypes, DbTypes, Tables
    <3>. QED
      BY <2>2, <2>3, <2>5, <3>1 DEF LinkTypes, LinkInv
  <2>. QED
    BY <2>4, <2>5
<1>11. CASE StoreReturns
  BY <1>11 DEF StoreReturns, LinkTypes, LinkInv
<1>12. CASE Reset
  <2>1. /\ NoLink \in [peer : Peers \cup {0}, addr : Addrs] /\ 0 \in Keys
        /\ NoResolving \in [irk : Irks, keys : SUBSET Irks]
    BY PairingAssumption DEF NoLink, NoResolving, Addrs, Keys, Irks
  <2>. QED
    BY <1>12, <2>1, NoDataIsEntry DEF Reset, LinkTypes, LinkInv, Phases, PairingPhases
<1>. QED
  BY <1>1, <1>2, <1>3, <1>4, <1>5, <1>6, <1>7, <1>8, <1>9, <1>10, <1>11, <1>12
  DEF Next, vars, secVars, RemoveEntry, StoreWaits, app_easy_security_ral_sync_with_bdb

(* The stored resolving keys are at most as many as the slots.             *)
LEMMA ListedSlots ==
    ASSUME NEW table
    PROVE  /\ IsFiniteSet({s \in Slots : table.data[s].has_irk})
           /\ NumberOfIrks(table) \in 0..NumSlots
<1>1. IsFiniteSet(Slots) /\ Cardinality(Slots) = NumSlots
  BY FS_Interval, SlotAssumption DEF Slots
<1>2. {s \in Slots : table.data[s].has_irk} \in SUBSET Slots
  OBVIOUS
<1>3. /\ IsFiniteSet({s \in Slots : table.data[s].has_irk})
      /\ Cardinality({s \in Slots : table.data[s].has_irk}) <= Cardinality(Slots)
  BY <1>1, <1>2, FS_Subset
<1>4. Cardinality({s \in Slots : table.data[s].has_irk}) \in Nat
  BY <1>3, FS_CardinalityType
<1>. QED
  BY <1>1, <1>3, <1>4, SlotAssumption DEF NumberOfIrks

(* What adding to a list, and removing from it, leave in the list.         *)
Lists == UNION {[S -> Irks] : S \in SUBSET (Peers \cup {0})}

LEMMA ListOperations ==
    ASSUME NEW list \in Lists, NEW id \in Peers \cup {0}, NEW irk \in Irks
    PROVE  /\ Added(list, id, irk) \in Lists /\ Removed(list, id) \in Lists
           /\ DOMAIN Removed(list, id) = DOMAIN list \ {id}
           /\ \A i \in DOMAIN list \ {id} : Removed(list, id)[i] = list[i]
           /\ HasRoom(list) /\ id \notin DOMAIN list =>
                /\ DOMAIN Added(list, id, irk) = DOMAIN list \cup {id}
                /\ Added(list, id, irk)[id] = irk
                /\ \A i \in DOMAIN list : Added(list, id, irk)[i] = list[i]
           /\ ~HasRoom(list) \/ id \in DOMAIN list => Added(list, id, irk) = list
<1>. DEFINE S == DOMAIN list
<1>1. S \in SUBSET (Peers \cup {0}) /\ list \in [S -> Irks]
  BY DEF Lists
<1>. HIDE DEF S
<1>2. DOMAIN list = S
  BY DEF S
<1>3. [i \in S \cup {id} |-> IF i = id THEN irk ELSE list[i]] \in [S \cup {id} -> Irks]
  BY <1>1
<1>4. [i \in S \ {id} |-> list[i]] \in [S \ {id} -> Irks]
  BY <1>1
<1>5. Removed(list, id) \in Lists
  BY <1>1, <1>2, <1>4 DEF Removed, Lists
<1>6. Added(list, id, irk) \in Lists
  <2>1. [i \in S \cup {id} |-> IF i = id THEN irk ELSE list[i]] \in Lists
    <3>1. S \cup {id} \in SUBSET (Peers \cup {0})
      BY <1>1
    <3>. DEFINE list1 == [i \in S \cup {id} |-> IF i = id THEN irk ELSE list[i]]
    <3>2. list1 \in [S \cup {id} -> Irks]
      BY <1>3
    <3>. HIDE DEF list1
    <3>3. list1 \in Lists
      BY <3>1, <3>2 DEF Lists
    <3>. QED
      BY <3>3 DEF list1
  <2>. QED
    BY <1>2, <2>1, Zenon DEF Added
<1>7. /\ DOMAIN Removed(list, id) = DOMAIN list \ {id}
      /\ \A i \in DOMAIN list \ {id} : Removed(list, id)[i] = list[i]
  BY DEF Removed
<1>8. HasRoom(list) /\ id \notin DOMAIN list =>
        /\ DOMAIN Added(list, id, irk) = DOMAIN list \cup {id}
        /\ Added(list, id, irk)[id] = irk
        /\ \A i \in DOMAIN list : Added(list, id, irk)[i] = list[i]
  BY DEF Added
<1>9. ~HasRoom(list) \/ id \in DOMAIN list => Added(list, id, irk) = list
  BY DEF Added
<1>. QED
  BY <1>5, <1>6, <1>7, <1>8, <1>9

(* The types of the list are those of a list, and the other way round.     *)
LEMMA RalIsList ==
    /\ ral \in Lists <=> DOMAIN ral \subseteq Peers \cup {0} /\ ral \in [DOMAIN ral -> Irks]
    /\ ral' \in Lists <=> DOMAIN ral' \subseteq Peers \cup {0} /\ ral' \in [DOMAIN ral' -> Irks]
  BY DEF Lists

(* The steps of the resolving list.                                        *)
LEMMA ListStep ==
    ASSUME TypeInv, [Next]_vars
    PROVE  ListTypes'
<1>. USE SlotAssumption DEF TypeInv
<1>1. CASE UNCHANGED <<ral, sync, privacy>>
  BY <1>1 DEF ListTypes
<1>2. CASE IrkExch
  <2>1. link.peer \in Peers
    BY <1>2 DEF IrkExch, Protected, LinkInv
  <2>2. own[link.peer].irk \in Irks
    BY <2>1 DEF LinkTypes
  <2>3. ral \in Lists
    BY RalIsList DEF ListTypes
  <2>4. Added(Removed(ral, link.peer), link.peer, own[link.peer].irk) \in Lists
    BY <2>1, <2>2, <2>3, ListOperations
  <2>5. ral' \in Lists /\ UNCHANGED <<sync, privacy>>
    BY <1>2, <2>3, <2>4 DEF IrkExch
  <2>. QED
    BY <2>5, RalIsList DEF ListTypes
<1>3. CASE app_easy_security_ral_sync_with_bdb
  <2>1. CASE sync.idx < sync.nb /\ bdb.valid[sync.idx] /\ bdb.data[sync.idx].has_irk
    <3>1. sync.idx \in Slots /\ sync.idx + 1 \in 0..NumSlots
      BY <2>1 DEF ListTypes, Slots
    <3>2. /\ sync' = [sync EXCEPT !.idx = sync.idx + 1] /\ privacy' = privacy
          /\ ral' = Added(ral, bdb.data[sync.idx].id, bdb.data[sync.idx].irk)
      BY <1>3, <2>1 DEF app_easy_security_ral_sync_with_bdb
    <3>5. bdb.data[sync.idx].irk \in Irks /\ bdb.data[sync.idx].id \in Peers \cup {0}
      BY <3>1 DEF DbTypes, Tables, Entries
    <3>6. ral \in Lists
      BY RalIsList DEF ListTypes
    <3>3. ral' \in Lists
      BY <3>2, <3>5, <3>6, ListOperations
    <3>4. sync' \in [idx : 0..NumSlots, nb : -1..NumSlots]
      BY <3>1, <3>2 DEF ListTypes
    <3>. QED
      BY <3>2, <3>3, <3>4, RalIsList DEF ListTypes
  <2>2. CASE ~(sync.idx < sync.nb /\ bdb.valid[sync.idx] /\ bdb.data[sync.idx].has_irk)
    <3>1. sync' \in {sync, NoSync} /\ ral' = ral /\ privacy' = privacy
      BY <1>3, <2>2, Zenon DEF app_easy_security_ral_sync_with_bdb
    <3>2. NoSync \in [idx : 0..NumSlots, nb : -1..NumSlots]
      BY DEF NoSync
    <3>. QED
      BY <3>1, <3>2 DEF ListTypes
  <2>. QED
    BY <2>1, <2>2
<1>4. CASE Reset
  <2>1. NoSync \in [idx : 0..NumSlots, nb : -1..NumSlots]
    BY DEF NoSync
  <2>2. [idx |-> 0, nb |-> NumberOfIrks(bdb')] \in [idx : 0..NumSlots, nb : -1..NumSlots]
    <3>1. NumberOfIrks(bdb') \in 0..NumSlots
      BY ListedSlots
    <3>2. NumberOfIrks(bdb') \in -1..NumSlots /\ 0 \in 0..NumSlots
      BY <3>1
    <3>. QED
      BY <3>2
  <2>4. ral' \in Lists
    <3>1. ral' = NoRal /\ NoRal \in [{} -> Irks]
      BY <1>4 DEF Reset, NoRal
    <3>. QED
      BY <3>1 DEF Lists
  <2>3. privacy' = privacy
        /\ (sync' = NoSync \/ sync' = [idx |-> 0, nb |-> NumberOfIrks(bdb')])
    BY <1>4, Zenon DEF Reset
  <2>. QED
    BY <2>1, <2>2, <2>3, <2>4, RalIsList DEF ListTypes
<1>. QED
  BY <1>1, <1>2, <1>3, <1>4
  DEF Next, vars, secVars, gapc_connection_req_ind, gapc_disconnect_ind, PairingReq, LtkExch,
      PairingSucceeds, PairingFails, gapc_encrypt_req_ind, AddrResolved, RemoveEntry, StoreReturns,
      StoreWaits

(* The types hold at first.                                                *)

LEMMA InitTypes == Init => TypeInv
<1>. SUFFICES ASSUME Init PROVE TypeInv
  OBVIOUS
<1>1. bdb \in Tables /\ flash \in Tables
  <2>1. [s \in Slots |-> FALSE] \in [Slots -> BOOLEAN]
    OBVIOUS
  <2>2. /\ [s \in Slots |-> NoData] \in [Slots -> Entries]
        /\ [s \in Slots |-> 0] \in [Slots -> Nat]
    BY NoDataIsEntry
  <2>3. Cleared \in Tables
    BY <2>1, <2>2 DEF Cleared, Tables
  <2>. QED
    BY <2>3 DEF Init, DbInit
<1>2. DbTypes
  <2>1. stack = <<>> /\ erasing = FALSE /\ powered = FALSE /\ gave_up = FALSE
    BY DEF Init, DbInit
  <2>2. stack \in Seq(Frames) /\ Len(stack) <= MaxNesting
    BY <2>1, EmptySeq, NestingAssumption
  <2>. QED
    BY <1>1, <2>1, <2>2 DEF DbTypes
<1>3. own \in [Peers -> [irk : Irks, ltk : Keys]]
  BY PairingAssumption DEF Init, Keys
<1>4. /\ NoLink \in [peer : Peers \cup {0}, addr : Addrs] /\ 0 \in Keys
      /\ NoResolving \in [irk : Irks, keys : SUBSET Irks]
  BY PairingAssumption DEF NoLink, NoResolving, Addrs, Keys, Irks
<1>5. LinkTypes /\ LinkInv
  BY <1>3, <1>4, NoDataIsEntry DEF Init, LinkTypes, LinkInv, Phases, PairingPhases
<1>6. ListTypes
  <2>1. ral = NoRal /\ NoRal \in [{} -> Irks] /\ DOMAIN NoRal = {}
    BY DEF Init, NoRal
  <2>. QED
    BY <2>1, ModeAssumption, SlotAssumption DEF Init, ListTypes, NoSync
<1>. QED
  BY <1>2, <1>5, <1>6 DEF TypeInv

(* The table in RAM and in the flash, the link, its keys and the resolving *)
(* list keep their types; no more stores wait than may be nested, and a    *)
(* pairing never runs out of keys.                                         *)
THEOREM TypeCorrect == Spec => []TypeInv
<1>1. TypeInv /\ [Next]_vars => TypeInv'
  BY DbStep, LinkStep, ListStep DEF TypeInv
<1>. QED
  BY <1>1, InitTypes, PTL DEF Spec

(* TypeOK of AppSecurity is part of it. *)
THEOREM TypesAreKept == Spec => []TypeOK
<1>1. TypeInv => TypeOK
  BY DEF TypeInv, DbTypes, LinkTypes, ListTypes, TypeOK, Frames
<1>. QED
  BY <1>1, TypeCorrect, PTL

-----------------------------------------------------------------------------
(* The flash follows the table. *)

(* Out of power-down the sector has been erased and not been written       *)
(* since, in power-down it holds the table.  There is a store then that    *)
(* has still to write it, unless one has given up.  A store that found the *)
(* flash busy, or gave up, is on top.                                      *)
FlashInv ==
    /\ flash = IF powered THEN Unreadable ELSE bdb
    /\ erasing => powered
    /\ \A i \in 1..Len(stack) : i > 1 => stack[i].pc = "wait"
    /\ Top.pc = "power_down" => erasing
    /\ powered => gave_up \/ Top.pc = "wait" \/ Len(stack) > 1

(* A new store covers the others, one that returns has written the table.  *)

LEMMA FlashStep ==
    ASSUME TypeInv, FlashInv, [Next]_vars, "ends_in_store" \notin FlashQuirks
    PROVE  FlashInv'
<1>0. /\ erasing \in BOOLEAN /\ powered \in BOOLEAN
      /\ stack \in Seq(Frames) /\ Len(stack) \in Nat
  BY LenProperties DEF TypeInv, DbTypes
<1>1. CASE UNCHANGED dbVars
  BY <1>1 DEF dbVars, FlashInv, Top
<1>2. ASSUME NEW table, NEW after \in {"none", "paired"}, Handler, bond_db_store_ext(table, after)
      PROVE  FlashInv'
  <2>1. Top.pc \in {"none", "wait"}
    BY <1>2 DEF Handler, HandlersRun
  <2>2. \A i \in 1..Len(stack) : stack[i].pc = "wait"
    BY <1>0, <2>1, Stacks DEF FlashInv
  <2>3. PICK f \in Frames : /\ stack' = <<f>> \o stack
                            /\ f.pc = IF erasing THEN "power_down" ELSE "wait"
    <3>1. /\ Frame("wait", after) \in Frames /\ Frame("wait", after).pc = "wait"
          /\ Frame("power_down", after) \in Frames /\ Frame("power_down", after).pc = "power_down"
      BY DEF Frame, Frames
    <3>. QED
      BY <1>2, <3>1 DEF bond_db_store_ext
  <2>4. /\ stack' # <<>> /\ Len(stack') = Len(stack) + 1 /\ stack'[1] = f
        /\ \A i \in 1..Len(stack) : stack'[i + 1] = stack[i]
    BY <1>0, <2>3, Pushed
  <2>5. \A i \in 1..Len(stack') : i > 1 => stack'[i].pc = "wait"
    <3>. SUFFICES ASSUME NEW i \in 1..Len(stack'), i > 1 PROVE stack'[i].pc = "wait"
      OBVIOUS
    <3>1. i - 1 \in 1..Len(stack) /\ stack'[(i - 1) + 1] = stack[i - 1]
      BY <1>0, <2>4
    <3>. QED
      BY <1>0, <2>2, <3>1
  <2>6. powered' = TRUE /\ erasing' = TRUE /\ flash' = Unreadable
    BY <1>0, <1>2 DEF bond_db_store_ext, FlashInv
  <2>9. erasing => gave_up' = gave_up
    BY <1>0, <1>2 DEF bond_db_store_ext, TypeInv, DbTypes
  <2>7. Top'.pc = f.pc
    <3>1. Head(stack') = f
      BY <2>3, <2>4
    <3>. QED
      BY <2>4, <3>1 DEF Top
  <2>8. erasing => gave_up \/ Len(stack) > 0
    BY <1>0, <2>1, EmptySeq, Stacks DEF FlashInv
  <2>. QED
    BY <1>0, <2>3, <2>4, <2>5, <2>6, <2>7, <2>8, <2>9 DEF FlashInv
<1>3. ASSUME stack # <<>>, stack' = Tail(stack)
      PROVE  /\ \A i \in 1..Len(stack') : stack'[i].pc = "wait"
             /\ Top'.pc # "power_down"
             /\ Len(stack) > 1 => Top'.pc = "wait"
  <2>1. /\ stack' \in Seq(Frames) /\ Len(stack') = Len(stack) - 1
        /\ \A i \in 1..Len(stack') : i + 1 \in 1..Len(stack) /\ stack'[i] = stack[i + 1]
    BY <1>0, <1>3, Stacks
  <2>2. \A i \in 1..Len(stack') : stack'[i].pc = "wait"
    BY <1>0, <2>1 DEF FlashInv
  <2>3. Len(stack) > 1 => Top'.pc = "wait"
    <3>. SUFFICES ASSUME Len(stack) > 1 PROVE Top'.pc = "wait"
      OBVIOUS
    <3>1. stack' # <<>> /\ 1 \in 1..Len(stack') /\ Head(stack') = stack'[1]
      BY <1>0, <2>1, EmptySeq
    <3>. QED
      BY <2>2, <3>1 DEF Top
  <2>4. Top'.pc # "power_down"
    <3>1. CASE stack' = <<>>
      BY <3>1 DEF Top, Frame
    <3>2. CASE stack' # <<>>
      <4>1. 1 \in 1..Len(stack') /\ Head(stack') = stack'[1]
        BY <2>1, <3>2, EmptySeq, LenProperties
      <4>. QED
        BY <2>2, <3>2, <4>1 DEF Top
    <3>. QED
      BY <3>1, <3>2
  <2>. QED
    BY <2>2, <2>3, <2>4
<1>4. CASE PairingSucceeds
  BY <1>2, <1>4 DEF PairingSucceeds, default_app_bdb_add_entry
<1>5. CASE RemoveEntry
  BY <1>2, <1>5, RemoveIsStore DEF RemoveEntry, TypeInv, DbTypes
<1>6. CASE EraseDone
  <2>1. stack # <<>> /\ stack' = Tail(stack) /\ ~erasing
    BY <1>0, <1>6, Stacks DEF EraseDone
  <2>2. powered' = FALSE /\ bdb' = bdb /\ erasing' = erasing
    BY <1>6 DEF EraseDone
  <2>3. flash' = bdb
    BY <1>0, <1>6, <2>1 DEF EraseDone, FlashInv
  <2>. QED
    BY <1>3, <2>1, <2>2, <2>3 DEF FlashInv
<1>7. CASE PowerDown
  <2>1. stack # <<>> /\ stack' = Tail(stack) /\ erasing /\ (gave_up \/ Len(stack) > 1)
    BY <1>0, <1>7, Stacks DEF PowerDown, FlashInv
  <2>2. powered' = erasing /\ UNCHANGED <<bdb, flash, erasing, gave_up>>
    BY <1>7 DEF PowerDown
  <2>. QED
    BY <1>0, <1>3, <2>1, <2>2 DEF FlashInv
<1>8. CASE EraseEnds
  BY <1>0, <1>8 DEF EraseEnds, FlashInv, Top
<1>9. CASE Reset
  <2>1. stack' = <<>> /\ (LoadedOrCleared \/ FlashStaysBusy)
    BY <1>9 DEF Reset, default_app_bdb_init
  <2>2. Top'.pc = "none" /\ Len(stack') = 0
    BY <2>1 DEF Top, Frame
  <2>3. CASE LoadedOrCleared
    BY <2>2, <2>3 DEF FlashInv, LoadedOrCleared
  <2>4. CASE FlashStaysBusy
    BY <2>2, <2>4 DEF FlashInv, FlashStaysBusy
  <2>. QED
    BY <2>1, <2>3, <2>4
<1>10. CASE EraseTimesOut
  <2>1. stack # <<>>
    BY <1>0, <1>10, Stacks DEF EraseTimesOut
  <2>2. PICK f \in Frames : f.pc = "power_down" /\ stack' = <<f>> \o Tail(stack)
    BY <1>0, <1>10, <2>1, Stacks DEF EraseTimesOut, Frame, Frames
  <2>3. /\ stack' # <<>> /\ Len(stack') = Len(stack) /\ stack'[1] = f
        /\ \A i \in 1..Len(stack) : i > 1 => stack'[i] = stack[i]
    BY <1>0, <2>1, <2>2, Replaced
  <2>4. Top'.pc = "power_down"
    <3>1. Head(stack') = f
      BY <2>2, <2>3
    <3>. QED
      BY <2>2, <2>3, <3>1 DEF Top
  <2>. QED
    BY <1>10, <2>3, <2>4 DEF FlashInv, EraseTimesOut
<1>. QED
  BY <1>1, <1>4, <1>5, <1>6, <1>7, <1>8, <1>9, <1>10
  DEF Next, vars, gapc_connection_req_ind, gapc_disconnect_ind, PairingReq, LtkExch, IrkExch,
      PairingFails, gapc_encrypt_req_ind, AddrResolved, StoreReturns, StoreWaits,
      app_easy_security_ral_sync_with_bdb

(* The invariant holds at first.                                           *)

LEMMA InitFlash == Init => FlashInv
<1>1. Init => stack = <<>> /\ flash = bdb /\ ~powered /\ ~erasing
  BY DEF Init, DbInit
<1>. QED
  BY <1>1 DEF FlashInv, Top, Frame

(* Whatever stores ran inside one another or gave up, and wherever a reset *)
(* cut them short: the sector holds the table of the RAM, or it has been   *)
(* erased and a store has still to write it, unless one gave up.           *)
THEOREM FlashFollowsTable ==
    ASSUME "ends_in_store" \notin FlashQuirks PROVE Spec => []FlashInv
<1>1. TypeInv /\ FlashInv /\ [Next]_vars => FlashInv'
  BY FlashStep
<1>. QED
  BY <1>1, InitFlash, TypeCorrect, PTL DEF Spec

(* Once every store has returned the flash holds the table of the RAM      *)
(* (bond_db_store_flash), or none after an erase that timed out or that a  *)
(* reset left running: never another table than that of the RAM.           *)
THEOREM TableIsStoredAtRest ==
    ASSUME "ends_in_store" \notin FlashQuirks PROVE Spec => []StoredAtRest
<1>1. FlashInv => StoredAtRest
  BY EmptySeq DEF FlashInv, StoredAtRest, Top, Frame
<1>. QED
  BY <1>1, FlashFollowsTable, PTL

-----------------------------------------------------------------------------
(* The flag of the pairing. *)

(* The stores whose caller is the handler of a completed pairing.          *)
Saving == {i \in 1..Len(stack) : stack[i].after = "paired"}

(* While the link pairs the flag is set and nothing of it is being stored; *)
(* the bond of a completed pairing is stored once, before a new link.      *)
PairInv ==
    /\ phase \in PairingPhases => pairing_in_progress /\ Saving = {}
    /\ Saving # {} => pairing_in_progress /\ phase # "idle"
    /\ pairing_in_progress /\ phase \notin PairingPhases => Saving # {}
    /\ \A i, j \in Saving : i = j
    /\ resolving # NoResolving => phase \in {"idle", "none"}

(* A new store is the first, the others move back.                         *)
LEMMA SavingPushed ==
    ASSUME TypeInv, NEW table, NEW after \in {"none", "paired"}, bond_db_store_ext(table, after)
    PROVE  Saving' = {i + 1 : i \in Saving} \cup (IF after = "paired" THEN {1} ELSE {})
<1>1. stack \in Seq(Frames) /\ Len(stack) \in Nat
  BY LenProperties DEF TypeInv, DbTypes
<1>2. PICK f \in Frames : stack' = <<f>> \o stack /\ f.after = after
  <2>1. /\ Frame("wait", after) \in Frames /\ Frame("wait", after).after = after
        /\ Frame("power_down", after) \in Frames /\ Frame("power_down", after).after = after
    BY DEF Frame, Frames
  <2>. QED
    BY <2>1 DEF bond_db_store_ext
<1>3. /\ Len(stack') = Len(stack) + 1 /\ stack'[1] = f
      /\ \A i \in 1..Len(stack) : stack'[i + 1] = stack[i]
  BY <1>1, <1>2, Pushed
<1>4. ASSUME NEW i \in 1..Len(stack')
      PROVE  i = 1 \/ (i - 1 \in 1..Len(stack) /\ stack'[i] = stack[i - 1] /\ i = (i - 1) + 1)
  BY <1>1, <1>3
<1>5. 1 \in 1..Len(stack') /\ (1 \in Saving' <=> after = "paired")
  BY <1>1, <1>2, <1>3 DEF Saving
<1>6. ASSUME NEW i \in Saving
      PROVE  i + 1 \in Saving'
  <2>1. i \in 1..Len(stack) /\ i + 1 \in 1..Len(stack') /\ stack'[i + 1] = stack[i]
    BY <1>1, <1>3 DEF Saving
  <2>2. stack[i].after = "paired"
    BY DEF Saving
  <2>. QED
    BY <2>1, <2>2 DEF Saving
<1>7. ASSUME NEW i \in Saving'
      PROVE  i = 1 \/ (i - 1 \in Saving /\ i = (i - 1) + 1)
  <2>1. i \in 1..Len(stack') /\ stack'[i].after = "paired"
    BY DEF Saving
  <2>. QED
    BY <1>4, <2>1 DEF Saving
<1>8. Saving' \subseteq {i + 1 : i \in Saving} \cup (IF after = "paired" THEN {1} ELSE {})
  BY <1>5, <1>7
<1>. HIDE DEF Saving
<1>. QED
  BY <1>5, <1>6, <1>8

(* When the first store returns the others move to the front.              *)
LEMMA SavingPopped ==
    ASSUME TypeInv, stack # <<>>, stack' = Tail(stack)
    PROVE  /\ Saving' = {i - 1 : i \in Saving \ {1}}
           /\ Top.after = "paired" <=> 1 \in Saving
           /\ Saving \in SUBSET (Nat \ {0})
<1>1. stack \in Seq(Frames) /\ Len(stack) \in Nat
  BY LenProperties DEF TypeInv, DbTypes
<1>2. /\ Top = stack[1] /\ Len(stack) >= 1
      /\ Len(stack') = Len(stack) - 1
      /\ \A i \in 1..Len(stack') : i + 1 \in 1..Len(stack) /\ stack'[i] = stack[i + 1]
  BY <1>1, Stacks
<1>3. ASSUME NEW i \in 1..Len(stack), i # 1
      PROVE  i - 1 \in 1..Len(stack') /\ stack'[i - 1] = stack[i]
  BY <1>1, <1>2, <1>3
<1>4. ASSUME NEW i \in 1..Len(stack')
      PROVE  i = (i + 1) - 1 /\ i + 1 # 1
  OBVIOUS
<1>. QED
  BY <1>1, <1>2, <1>3, <1>4 DEF Saving

(* Every step of the link and of a store keeps flag and stores in line.    *)

LEMMA PairStep ==
    ASSUME TypeInv, PairInv, [Next]_vars, LinkQuirks = {}
    PROVE  PairInv'
<1>. USE DEF PairInv
<1>0. pairing_in_progress \in BOOLEAN /\ phase \in Phases
  BY DEF TypeInv, LinkTypes
<1>1. CASE UNCHANGED <<phase, pairing_in_progress, resolving, stack>>
  BY <1>1 DEF Saving
<1>2. CASE \E p \in Peers : gapc_connection_req_ind(p)
  <2>1. /\ link = NoLink /\ resolving = NoResolving
        /\ ~(pairing_in_progress /\ stack # << >>)
        /\ phase' = "idle" /\ UNCHANGED <<stack, pairing_in_progress, resolving>>
    BY <1>2 DEF gapc_connection_req_ind, dbVars
  <2>2. phase = "none"
    BY <2>1, PeerAssumption DEF NoLink, TypeInv, LinkInv
  <2>3. Saving = {}
    <3>1. stack = <<>> => Saving = {}
      BY EmptySeq DEF Saving
    <3>. QED
      BY <2>1, <3>1
  <2>4. Saving' = {} /\ ~pairing_in_progress
    BY <2>1, <2>2, <2>3 DEF Saving, PairingPhases
  <2>. QED
    BY <2>1, <2>4 DEF PairingPhases
<1>3. CASE gapc_disconnect_ind
  <2>1. phase \notin PairingPhases /\ phase' = "none"
    BY <1>3 DEF gapc_disconnect_ind
  <2>. QED
    BY <1>3, <2>1 DEF gapc_disconnect_ind, Saving, dbVars, PairingPhases
<1>4. CASE PairingReq
  BY <1>4 DEF PairingReq, Saving, dbVars, PairingPhases
<1>5. CASE LtkExch
  BY <1>5 DEF LtkExch, Saving, dbVars, PairingPhases
<1>6. CASE IrkExch
  <2>1. phase \in PairingPhases
    BY <1>6 DEF IrkExch, Protected, PairingPhases
  <2>. QED
    BY <1>6, <2>1 DEF IrkExch, Saving, dbVars, PairingPhases
<1>7. CASE PairingSucceeds
  <2>1. phase \in PairingPhases /\ Saving = {} /\ pairing_in_progress
    BY <1>7 DEF PairingSucceeds, PairingPhases
  <2>2. Saving' = {1}
    BY <1>7, <2>1, SavingPushed DEF PairingSucceeds, default_app_bdb_add_entry
  <2>3. phase' = "secured" /\ UNCHANGED <<pairing_in_progress, resolving>>
    BY <1>7 DEF PairingSucceeds
  <2>. QED
    BY <2>1, <2>2, <2>3 DEF PairingPhases
<1>8. CASE PairingFails
  BY <1>8 DEF PairingFails, Saving, dbVars, PairingPhases
<1>9. CASE gapc_encrypt_req_ind
  <2>1. /\ phase' \in {"closing", "encrypted", "secured"} \/ UNCHANGED phase
        /\ phase' = "encrypted" => phase = "keyed"
        /\ phase \in {"idle", "keyed"}
    BY <1>9, EncryptTypes DEF gapc_encrypt_req_ind
  <2>2. UNCHANGED <<stack, pairing_in_progress>> /\ resolving = NoResolving
    BY <1>9 DEF gapc_encrypt_req_ind, dbVars
  <2>3. CASE phase = "keyed"
    <3>1. pairing_in_progress
      BY <2>3 DEF PairingPhases
    <3>2. app_easy_security_accept_encryption(sec_env) /\ UNCHANGED resolving
      BY <1>9, <3>1 DEF gapc_encrypt_req_ind, default_app_on_encrypt_req_ind
    <3>. QED
      BY <2>2, <2>3, <3>1, <3>2 DEF app_easy_security_accept_encryption, Saving, PairingPhases
  <2>4. CASE phase = "idle"
    <3>1. ~pairing_in_progress /\ Saving = {}
      BY <2>4 DEF PairingPhases
    <3>2. (phase' \in {"closing", "secured"} /\ UNCHANGED resolving) \/ UNCHANGED phase
      BY <1>9, <2>1, <2>4, <3>1
      DEF gapc_encrypt_req_ind, default_app_on_encrypt_req_ind, app_easy_security_resolve_bdaddr,
          app_easy_security_reject_encryption
    <3>. QED
      BY <2>2, <2>4, <3>1, <3>2 DEF Saving, PairingPhases
  <2>. QED
    BY <2>1, <2>3, <2>4
<1>10. CASE AddrResolved
  <2>1. phase \in {"idle", "none"} /\ resolving' = NoResolving
        /\ UNCHANGED <<stack, pairing_in_progress>>
    BY <1>10 DEF AddrResolved, dbVars
  <2>2. phase' \in {"closing", "secured"} \/ UNCHANGED phase
    BY <1>10, <2>1 DEF AddrResolved, AcceptIfFound, app_easy_security_accept_encryption,
       app_easy_security_reject_encryption
  <2>. QED
    BY <1>0, <2>1, <2>2 DEF Saving, PairingPhases
<1>11. CASE RemoveEntry
  <2>1. Saving' = {i + 1 : i \in Saving}
    BY <1>11, RemoveIsStore, SavingPushed DEF RemoveEntry, TypeInv, DbTypes
  <2>2. Saving' = {} <=> Saving = {}
    BY <2>1
  <2>3. \A i, j \in Saving' : i = j
    BY <2>1
  <2>. QED
    BY <1>11, <2>2, <2>3 DEF RemoveEntry, secVars
<1>12. CASE StoreReturns
  <2>1. stack # <<>> /\ stack' = Tail(stack)
    BY <1>12, Stacks DEF StoreReturns, EraseDone, PowerDown, TypeInv, DbTypes
  <2>2. /\ Saving' = {i - 1 : i \in Saving \ {1}}
        /\ Top.after = "paired" <=> 1 \in Saving
        /\ Saving \in SUBSET (Nat \ {0})
    BY <2>1, SavingPopped
  <2>3. \A i, j \in Saving' : i = j
    BY <2>2
  <2>4. pairing_in_progress' = (pairing_in_progress /\ Top.after # "paired") /\ UNCHANGED <<phase, resolving>>
    BY <1>12 DEF StoreReturns
  <2>5. CASE 1 \in Saving
    <3>1. Saving' = {} /\ ~pairing_in_progress'
      BY <2>2, <2>4, <2>5
    <3>. QED
      BY <2>4, <2>5, <3>1
  <2>6. CASE 1 \notin Saving
    <3>1. Saving' = {} <=> Saving = {}
      BY <2>2, <2>6
    <3>2. pairing_in_progress' = pairing_in_progress
      BY <1>0, <2>2, <2>4, <2>6
    <3>. QED
      BY <2>3, <2>4, <3>1, <3>2
  <2>. QED
    BY <2>5, <2>6
<1>13. CASE StoreWaits
  <2>1. CASE EraseEnds
    BY <1>13, <2>1 DEF StoreWaits, EraseEnds, EraseTimesOut, secVars, Saving
  <2>2. CASE EraseTimesOut
    <3>1. stack # <<>> /\ Top = stack[1] /\ stack \in Seq(Frames) /\ Len(stack) \in Nat
      BY <2>2, Stacks, LenProperties DEF EraseTimesOut, TypeInv, DbTypes
    <3>2. PICK f \in Frames : f.after = stack[1].after /\ stack' = <<f>> \o Tail(stack)
      BY <2>2, <3>1, Stacks DEF EraseTimesOut, Frame, Frames
    <3>3. /\ Len(stack') = Len(stack) /\ stack'[1] = f
          /\ \A i \in 1..Len(stack) : i > 1 => stack'[i] = stack[i]
      BY <3>1, <3>2, Replaced
    <3>4. \A i \in 1..Len(stack) : stack'[i].after = stack[i].after
      BY <3>1, <3>2, <3>3
    <3>5. Saving' = Saving
      BY <3>3, <3>4 DEF Saving
    <3>. QED
      BY <1>13, <3>5 DEF StoreWaits, secVars
  <2>. QED
    BY <1>13, <2>1, <2>2 DEF StoreWaits
<1>14. CASE Reset
  <2>1. /\ stack' = <<>> /\ phase' = "none" /\ pairing_in_progress' = FALSE
        /\ resolving' = NoResolving
    BY <1>14 DEF Reset, default_app_bdb_init
  <2>2. Saving' = {}
    BY <2>1, EmptySeq DEF Saving
  <2>. QED
    BY <2>1, <2>2 DEF PairingPhases
<1>. QED
  BY <1>1, <1>2, <1>3, <1>4, <1>5, <1>6, <1>7, <1>8, <1>9, <1>10, <1>11, <1>12, <1>13, <1>14
  DEF Next, vars, dbVars, secVars, app_easy_security_ral_sync_with_bdb

(* The invariant holds at first.                                           *)

LEMMA InitPair == Init => PairInv
<1>. SUFFICES ASSUME Init PROVE PairInv
  OBVIOUS
<1>1. Saving = {}
  BY EmptySeq DEF Init, DbInit, Saving
<1>. QED
  BY <1>1 DEF Init, PairInv, PairingPhases

(* The bond of a completed pairing is being stored, once, exactly while    *)
(* the flag outlives the pairing (default_app_on_pairing_succeeded).       *)
THEOREM PairingIsStoredOnce == ASSUME LinkQuirks = {} PROVE Spec => []PairInv
<1>1. TypeInv /\ PairInv /\ [Next]_vars => PairInv'
  BY PairStep
<1>. QED
  BY <1>1, InitPair, TypeCorrect, PTL DEF Spec

(* default_app_on_encrypt_req_ind goes by a flag that agrees with the host *)
(* about the link.                                                         *)
THEOREM PairingFlagAlwaysAgrees == ASSUME LinkQuirks = {} PROVE Spec => []PairingFlagAgrees
<1>1. PairInv => PairingFlagAgrees
  BY EmptySeq DEF PairInv, PairingFlagAgrees, Saving
<1>. QED
  BY <1>1, PairingIsStoredOnce, PTL

-----------------------------------------------------------------------------
(* The resolving list. *)

(* What the link works with after an answer to the peer is what it worked  *)
(* with before, or the bond of a slot.                                     *)
LEMMA EnvStep ==
    ASSUME TypeInv, gapc_encrypt_req_ind \/ AddrResolved
    PROVE  sec_env' = sec_env \/ \E s \in Slots : sec_env' = bdb.data[s]
<1>1. ASSUME NEW slot, slot = NotFound \/ slot \in Slots, AcceptIfFound(slot)
      PROVE  sec_env' = sec_env \/ \E s \in Slots : sec_env' = bdb.data[s]
  BY <1>1 DEF AcceptIfFound, app_easy_security_accept_encryption, app_easy_security_reject_encryption
<1>2. CASE gapc_encrypt_req_ind
  <2>1. \/ sec_env' = sec_env
        \/ \E type, v : AcceptIfFound(Found(type, v))
    BY <1>2 DEF gapc_encrypt_req_ind, default_app_on_encrypt_req_ind, app_easy_security_resolve_bdaddr,
       app_easy_security_accept_encryption, app_easy_security_reject_encryption
  <2>. QED
    BY <1>1, <2>1, FoundSlot
<1>3. CASE AddrResolved
  <2>. DEFINE slot == IF resolving.irk \in resolving.keys THEN Found("IRK", resolving.irk)
                      ELSE NotFound
  <2>1. slot = NotFound \/ slot \in Slots
    BY FoundSlot
  <2>2. IF phase # "none" THEN AcceptIfFound(slot)
        ELSE sec_env' = IF slot # NotFound THEN bdb.data[slot] ELSE sec_env
    BY <1>3, Zenon DEF AddrResolved
  <2>. HIDE DEF slot
  <2>. QED
    BY <1>1, <2>1, <2>2
<1>. QED
  BY <1>2, <1>3

(* A list gets longer, and has less room, when an identity is added.       *)
Bounded(list) == IsFiniteSet(DOMAIN list) /\ Cardinality(DOMAIN list) <= RalSize

Extends(new, list, id, irk) ==
    /\ new \in Lists /\ Bounded(new)
    /\ DOMAIN list \subseteq DOMAIN new /\ DOMAIN new \subseteq DOMAIN list \cup {id}
    /\ HasRoom(new) => HasRoom(list) /\ id \in DOMAIN new
    /\ \A i \in DOMAIN new : \/ i = id /\ new[i] = irk
                             \/ i \in DOMAIN list /\ new[i] = list[i]

LEMMA AddedExtends ==
    ASSUME NEW list \in Lists, Bounded(list), NEW id \in Peers \cup {0}, NEW irk \in Irks
    PROVE  Extends(Added(list, id, irk), list, id, irk)
<1>. DEFINE new == Added(list, id, irk)
<1>1. new \in Lists
  BY ListOperations
<1>2. Cardinality(DOMAIN list) \in Nat
  BY FS_CardinalityType DEF Bounded
<1>3. CASE HasRoom(list) /\ id \notin DOMAIN list
  <2>1. /\ DOMAIN new = DOMAIN list \cup {id} /\ new[id] = irk
        /\ \A i \in DOMAIN list : new[i] = list[i]
    BY <1>3 DEF Added
  <2>. HIDE DEF new
  <2>2. /\ IsFiniteSet(DOMAIN new)
        /\ Cardinality(DOMAIN new) = Cardinality(DOMAIN list) + 1
    BY <1>3, <2>1, FS_AddElement DEF Bounded
  <2>3. Cardinality(DOMAIN list) < RalSize
    BY <1>3 DEF HasRoom
  <2>4. Bounded(new)
    BY <1>2, <2>2, <2>3, RalAssumption DEF Bounded
  <2>. QED
    BY <1>1, <1>3, <2>1, <2>4 DEF Extends, new
<1>4. CASE ~HasRoom(list) \/ id \in DOMAIN list
  <2>1. new = list
    BY <1>4, ListOperations
  <2>. HIDE DEF new
  <2>. QED
    BY <1>4, <2>1 DEF Extends, new
<1>. QED
  BY <1>3, <1>4

(* So it does when the identity is removed first: an identity that was in  *)
(* the list finds its place again.                                         *)
LEMMA RelistedExtends ==
    ASSUME NEW list \in Lists, Bounded(list), NEW id \in Peers \cup {0}, NEW irk \in Irks
    PROVE  Extends(Added(Removed(list, id), id, irk), list, id, irk)
<1>. DEFINE less == Removed(list, id)
            new  == Added(less, id, irk)
<1>1. /\ less \in Lists /\ DOMAIN less = DOMAIN list \ {id}
      /\ \A i \in DOMAIN less : less[i] = list[i]
  <2>1. less \in Lists
    BY ListOperations
  <2>. QED
    BY <2>1 DEF Removed
<1>2. Cardinality(DOMAIN list) \in Nat
  BY FS_CardinalityType DEF Bounded
<1>. HIDE DEF less
<1>3. CASE id \notin DOMAIN list
  <2>1. DOMAIN less = DOMAIN list
    BY <1>1, <1>3
  <2>2. Bounded(less) /\ (HasRoom(less) <=> HasRoom(list))
    BY <2>1 DEF Bounded, HasRoom
  <2>3. Extends(new, less, id, irk)
    BY <1>1, <2>2, AddedExtends
  <2>. HIDE DEF new
  <2>. QED
    BY <1>1, <2>1, <2>2, <2>3 DEF Extends, new, less
<1>4. CASE id \in DOMAIN list
  <2>1. /\ IsFiniteSet(DOMAIN less)
        /\ Cardinality(DOMAIN less) = Cardinality(DOMAIN list) - 1
    BY <1>1, <1>4, FS_RemoveElement DEF Bounded
  <2>2. HasRoom(less)
    BY <1>2, <2>1, RalAssumption DEF Bounded, HasRoom
  <2>3. Bounded(less)
    BY <1>2, <2>1, RalAssumption DEF Bounded
  <2>0. id \notin DOMAIN less
    BY <1>1
  <2>4. /\ DOMAIN new = DOMAIN less \cup {id} /\ new[id] = irk
        /\ \A i \in DOMAIN less : new[i] = less[i]
        /\ new \in Lists
    <3>1. new \in Lists
      BY <1>1, ListOperations
    <3>2. /\ DOMAIN new = DOMAIN less \cup {id} /\ new[id] = irk
          /\ \A i \in DOMAIN less : new[i] = less[i]
      BY <2>0, <2>2 DEF Added
    <3>. QED
      BY <3>1, <3>2
  <2>. HIDE DEF new
  <2>5. DOMAIN new = DOMAIN list
    BY <1>1, <1>4, <2>4
  <2>6. Bounded(new) /\ (HasRoom(new) <=> HasRoom(list))
    BY <2>5 DEF Bounded, HasRoom
  <2>. QED
    BY <1>1, <1>4, <2>4, <2>5, <2>6 DEF Extends, new, less
<1>. QED
  BY <1>3, <1>4

(* What is known of a peer by its identity is true: its resolving key is   *)
(* one it has or had.  The list of the controller is not overfull.         *)
Genuine(d) == d.has_irk => d.id \in Peers /\ d.irk \in IrksOf[d.id]

GenuineInv ==
    /\ \A p \in Peers : own[p].irk \in IrksOf[p]
    /\ Genuine(sec_env) /\ \A s \in Slots : Genuine(bdb.data[s])
    /\ flash # Unreadable => \A s \in Slots : Genuine(flash.data[s])
    /\ Bounded(ral) /\ \A i \in DOMAIN ral : i \in Peers /\ ral[i] \in IrksOf[i]

(* Every step of the pairing and of the database keeps it so.              *)
LEMMA GenuineStep ==
    ASSUME TypeInv, GenuineInv, [Next]_vars
    PROVE  GenuineInv'
<1>. USE DEF GenuineInv
<1>0. ral \in Lists /\ Bounded(NoRal) /\ DOMAIN NoRal = {}
  <2>1. DOMAIN NoRal = {}
    BY DEF NoRal
  <2>. QED
    BY <2>1, RalIsList, RalAssumption, FS_EmptySet DEF Bounded, TypeInv, ListTypes
<1>1. CASE UNCHANGED <<own, sec_env, bdb, flash, ral>>
  BY <1>1 DEF Genuine, Bounded
<1>2. ASSUME UNCHANGED <<own, bdb, flash, ral>>, Genuine(sec_env)'
      PROVE  GenuineInv'
  BY <1>2 DEF Genuine, Bounded
<1>3. ASSUME UNCHANGED ral, \A p \in Peers : own'[p].irk = own[p].irk, Genuine(sec_env)',
             \A s \in Slots : Genuine(bdb.data[s])', flash' = flash \/ flash' = Unreadable
      PROVE  GenuineInv'
  BY <1>3 DEF Genuine, Bounded
<1>4. CASE \E p \in Peers : gapc_connection_req_ind(p)
  <2>1. PICK p \in Peers : gapc_connection_req_ind(p)
    BY <1>4
  <2>2. PICK known \in MayKnow(p) : own' = [own EXCEPT ![p] = known]
    BY <2>1 DEF gapc_connection_req_ind
  <2>3. known.irk \in IrksOf[p]
    BY DEF MayKnow
  <2>4. \A q \in Peers : own'[q].irk \in IrksOf[q]
    BY <2>2, <2>3 DEF TypeInv, LinkTypes
  <2>. QED
    BY <2>1, <2>4 DEF gapc_connection_req_ind, dbVars, Genuine, Bounded
<1>5. CASE PairingReq \/ LtkExch
  <2>1. sec_env' = [sec_env EXCEPT !.has_irk = FALSE] \/ sec_env' = [sec_env EXCEPT !.ltk = FreshKey]
    BY <1>5 DEF PairingReq, LtkExch
  <2>2. Genuine(sec_env)'
    BY <2>1 DEF Genuine, TypeInv, LinkTypes, Entries
  <2>. QED
    BY <1>2, <1>5, <2>2 DEF PairingReq, LtkExch, dbVars
<1>6. CASE IrkExch
  <2>1. link.peer \in Peers
    BY <1>6 DEF IrkExch, Protected, TypeInv, LinkInv, PairingPhases
  <2>2. own[link.peer].irk \in Irks /\ own[link.peer].irk \in IrksOf[link.peer]
    BY <2>1 DEF TypeInv, LinkTypes
  <2>3. sec_env'.irk = own[link.peer].irk /\ sec_env'.id = link.peer
    BY <1>6 DEF IrkExch, TypeInv, LinkTypes, Entries
  <2>4. Genuine(sec_env)'
    BY <2>1, <2>2, <2>3 DEF Genuine
  <2>5. ral' = ral \/ Extends(ral', ral, link.peer, own[link.peer].irk)
    BY <1>0, <1>6, <2>1, <2>2, RelistedExtends DEF IrkExch
  <2>6. Bounded(ral') /\ \A i \in DOMAIN ral' : i \in Peers /\ ral'[i] \in IrksOf[i]
    <3>1. CASE ral' = ral
      BY <3>1 DEF Bounded
    <3>2. CASE Extends(ral', ral, link.peer, own[link.peer].irk)
      <4>1. /\ Bounded(ral') /\ DOMAIN ral' \subseteq DOMAIN ral \cup {link.peer}
            /\ \A i \in DOMAIN ral' : \/ i = link.peer /\ ral'[i] = own[link.peer].irk
                                      \/ i \in DOMAIN ral /\ ral'[i] = ral[i]
        BY <3>2 DEF Extends
      <4>. QED
        BY <2>1, <4>1 DEF Genuine
    <3>. QED
      BY <2>5, <3>1, <3>2
  <2>. QED
    BY <1>6, <2>4, <2>6 DEF IrkExch, dbVars, Genuine, Bounded
<1>7. CASE PairingSucceeds
  <2>1. sec_env' = [sec_env EXCEPT !.bda = link.addr] /\ UNCHANGED ral
    BY <1>7 DEF PairingSucceeds
  <2>2. Genuine(sec_env)'
    BY <2>1 DEF Genuine, TypeInv, LinkTypes, Entries
  <2>3. PICK w : bdb'.data = [bdb.data EXCEPT ![w] = sec_env']
    BY <1>7 DEF PairingSucceeds, default_app_bdb_add_entry, bond_db_store_ext
  <2>4. \A s \in Slots : bdb'.data[s] = sec_env' \/ bdb'.data[s] = bdb.data[s]
    BY <2>3 DEF TypeInv, DbTypes, Tables
  <2>5. \A s \in Slots : Genuine(bdb.data[s])'
    BY <2>2, <2>4 DEF Genuine
  <2>6. flash' = flash \/ flash' = Unreadable
    BY <1>7 DEF PairingSucceeds, default_app_bdb_add_entry, bond_db_store_ext
  <2>7. \A p \in Peers : own'[p].irk = own[p].irk
    <3>1. own' = [own EXCEPT ![link.peer].ltk = FreshKey]
      BY <1>7 DEF PairingSucceeds
    <3>. QED
      BY <3>1 DEF TypeInv, LinkTypes
  <2>. QED
    BY <1>3, <2>1, <2>2, <2>5, <2>6, <2>7
<1>8. CASE gapc_encrypt_req_ind \/ AddrResolved
  <2>1. sec_env' = sec_env \/ \E s \in Slots : sec_env' = bdb.data[s]
    BY <1>8, EnvStep
  <2>2. Genuine(sec_env)'
    BY <2>1 DEF Genuine
  <2>. QED
    BY <1>2, <1>8, <2>2 DEF gapc_encrypt_req_ind, AddrResolved, dbVars
<1>9. CASE RemoveEntry
  <2>1. PICK S \in SUBSET Slots : /\ bdb' = Emptied(S) \/ bdb' = Cleared
                                  /\ flash' = flash \/ flash' = Unreadable
    BY <1>9, RemoveIsStore DEF RemoveEntry, bond_db_store_ext, TypeInv, DbTypes
  <2>2. \A s \in Slots : bdb'.data[s] = NoData \/ bdb'.data[s] = bdb.data[s]
    BY <2>1 DEF Emptied, Cleared
  <2>3. \A s \in Slots : Genuine(bdb.data[s])'
    BY <2>2 DEF Genuine, NoData
  <2>. QED
    BY <1>3, <1>9, <2>1, <2>3 DEF RemoveEntry, secVars, Genuine
<1>10. CASE StoreReturns
  <2>1. bdb' = bdb /\ flash' \in {flash, bdb, Unreadable} /\ UNCHANGED <<own, sec_env, ral>>
    BY <1>10, Zenon DEF StoreReturns, EraseDone, PowerDown
  <2>. QED
    BY <2>1 DEF Genuine, Bounded
<1>11. CASE app_easy_security_ral_sync_with_bdb
  <2>. DEFINE d == bdb.data[sync.idx]
  <2>1. UNCHANGED <<own, sec_env, bdb, flash>>
    BY <1>11 DEF app_easy_security_ral_sync_with_bdb, dbVars
  <2>2. ral' = ral \/ (sync.idx < sync.nb /\ d.has_irk /\ ral' = Added(ral, d.id, d.irk))
    BY <1>11, Zenon DEF app_easy_security_ral_sync_with_bdb
  <2>3. CASE ral' = ral
    BY <1>1, <2>1, <2>3
  <2>4. CASE sync.idx < sync.nb /\ d.has_irk /\ ral' = Added(ral, d.id, d.irk)
    <3>1. sync.idx \in Slots
      BY <2>4, SlotAssumption DEF TypeInv, ListTypes, Slots
    <3>2. d.id \in Peers /\ d.irk \in IrksOf[d.id] /\ d.irk \in Irks
      BY <2>4, <3>1 DEF Genuine, TypeInv, DbTypes, Tables, Entries
    <3>. HIDE DEF d
    <3>3. Extends(ral', ral, d.id, d.irk)
      BY <1>0, <2>4, <3>2, AddedExtends
    <3>4. /\ Bounded(ral') /\ DOMAIN ral' \subseteq DOMAIN ral \cup {d.id}
          /\ \A i \in DOMAIN ral' : \/ i = d.id /\ ral'[i] = d.irk
                                    \/ i \in DOMAIN ral /\ ral'[i] = ral[i]
      BY <3>3 DEF Extends
    <3>5. \A i \in DOMAIN ral' : i \in Peers /\ ral'[i] \in IrksOf[i]
      BY <3>2, <3>4
    <3>. QED
      BY <2>1, <3>4, <3>5 DEF Genuine, Bounded
  <2>. QED
    BY <2>2, <2>3, <2>4
<1>12. CASE Reset
  <2>1. ral' = NoRal /\ sec_env' = NoData /\ own' = own
    BY <1>12 DEF Reset
  <2>2. /\ bdb' = Cleared \/ (flash # Unreadable /\ bdb' = flash)
        /\ flash' \in {flash, bdb'}
    BY <1>12, Zenon DEF Reset, default_app_bdb_init, LoadedOrCleared, FlashStaysBusy
  <2>3. ~NoData.has_irk /\ \A s \in Slots : Cleared.data[s] = NoData
    BY DEF NoData, Cleared
  <2>4. \A s \in Slots : Genuine(bdb'.data[s])
    BY <2>2, <2>3 DEF Genuine
  <2>5. flash' # Unreadable => \A s \in Slots : Genuine(flash'.data[s])
    BY <2>2, <2>4
  <2>6. Bounded(ral') /\ DOMAIN ral' = {}
    BY <1>0, <2>1
  <2>. QED
    BY <2>1, <2>3, <2>4, <2>5, <2>6 DEF Genuine, Bounded
<1>. QED
  BY <1>1, <1>4, <1>5, <1>6, <1>7, <1>8, <1>9, <1>10, <1>11, <1>12
  DEF Next, vars, dbVars, secVars, gapc_disconnect_ind, PairingFails, StoreWaits, EraseEnds, EraseTimesOut

(* The invariant holds at first.                                           *)
LEMMA InitGenuine == Init => GenuineInv
<1>. SUFFICES ASSUME Init PROVE GenuineInv
  OBVIOUS
<1>1. \A p \in Peers : own[p].irk \in IrksOf[p]
  <2>. SUFFICES ASSUME NEW p \in Peers PROVE own[p].irk \in IrksOf[p]
    OBVIOUS
  <2>1. IrksOf[p] \in SUBSET Nat /\ IrksOf[p] # {}
    BY PeerAssumption
  <2>2. \E s \in IrksOf[p] : \A t \in IrksOf[p] : s <= t
    BY <2>1, LeastElement
  <2>3. Lowest(IrksOf[p]) \in IrksOf[p]
    BY <2>2 DEF Lowest
  <2>. QED
    BY <2>3 DEF Init
<1>2. DOMAIN ral = {}
  BY DEF Init, NoRal
<1>3. Bounded(ral)
  BY <1>2, RalAssumption, FS_EmptySet DEF Bounded
<1>4. Genuine(NoData) /\ \A s \in Slots : Cleared.data[s] = NoData
  BY DEF Genuine, NoData, Cleared
<1>. QED
  BY <1>1, <1>2, <1>3, <1>4 DEF Init, DbInit, GenuineInv

(* Bonds and list have only resolving keys of the peers they name, and the *)
(* list of the controller holds no more than it can.                       *)
THEOREM IdentitiesAreGenuine == Spec => []GenuineInv
<1>1. TypeInv /\ GenuineInv /\ [Next]_vars => GenuineInv'
  BY GenuineStep
<1>. QED
  BY <1>1, InitGenuine, TypeCorrect, PTL DEF Spec

(* The identities the application may have to do with are listed, while    *)
(* there is room: that of every slot, in use or not, and that of the link. *)
(* While the list is being filled the slots so far are in use and have a   *)
(* key, so that as many of them as there are keys are all there are.       *)
Listed(d) == d.has_irk /\ HasRoom(ral) => d.id \in DOMAIN ral

ListInv ==
    privacy =>
        IF Up THEN Listed(sec_env) /\ \A s \in Slots : Listed(bdb.data[s])
        ELSE /\ sec_env = NoData
             /\ sync.nb = NumberOfIrks(bdb) /\ sync.idx <= sync.nb
             /\ \A s \in 0..(sync.idx - 1) : bdb.data[s].has_irk /\ Listed(bdb.data[s])

(* As many slots with a key as there are keys are all of them.             *)
LEMMA AllSlotsListed ==
    ASSUME TypeInv, ListInv, privacy, ~Up, sync.idx >= sync.nb
    PROVE  \A s \in Slots : Listed(bdb.data[s])
<1>. DEFINE keyed == {s \in Slots : bdb.data[s].has_irk}
            seen  == 0..(sync.idx - 1)
<1>1. /\ sync.idx = sync.nb /\ sync.nb = Cardinality(keyed) /\ sync.idx \in 0..NumSlots
      /\ IsFiniteSet(keyed)
  BY ListedSlots, SlotAssumption DEF ListInv, NumberOfIrks, TypeInv, ListTypes
<1>2. seen \subseteq keyed
  <2>1. seen \subseteq Slots
    BY <1>1, SlotAssumption DEF Slots
  <2>2. \A s \in seen : bdb.data[s].has_irk
    BY DEF ListInv
  <2>. QED
    BY <2>1, <2>2
<1>3. Cardinality(seen) = Cardinality(keyed)
  <2>1. sync.idx \in Nat
    BY <1>1, SlotAssumption
  <2>2. 0 \in Int /\ sync.idx - 1 \in Int
    BY <2>1
  <2>3. Cardinality(seen) = IF 0 > sync.idx - 1 THEN 0 ELSE (sync.idx - 1) - 0 + 1
    BY ONLY <2>2, FS_Interval
  <2>. HIDE DEF seen
  <2>4. Cardinality(seen) = sync.idx
    BY <2>1, <2>3
  <2>. QED
    BY <1>1, <2>4
<1>4. seen = keyed
  <2>. HIDE DEF seen, keyed
  <2>. QED
    BY <1>1, <1>2, <1>3, FS_Subset
<1>. QED
  BY <1>4 DEF Listed, ListInv

(* What is listed stays listed when the list gets longer.                  *)
LEMMA StaysListed ==
    ASSUME NEW id, NEW irk, Extends(ral', ral, id, irk), NEW d, Listed(d)
    PROVE  d.has_irk /\ HasRoom(ral') => d.id \in DOMAIN ral'
  BY DEF Extends, Listed

(* An identity enters the link or a slot only after it has been listed.    *)

LEMMA ListedStep ==
    ASSUME TypeInv, GenuineInv, ListInv, [Next]_vars
    PROVE  ListInv'
<1>00. ral \in Lists /\ Bounded(ral)
  BY RalIsList DEF TypeInv, ListTypes, GenuineInv
<1>. SUFFICES ASSUME privacy' PROVE ListInv'
  BY DEF ListInv
<1>0. privacy
  BY DEF Next, vars, secVars, gapc_connection_req_ind, gapc_disconnect_ind, PairingReq, LtkExch, IrkExch,
     PairingSucceeds, PairingFails, gapc_encrypt_req_ind, AddrResolved, RemoveEntry, StoreReturns,
     StoreWaits, app_easy_security_ral_sync_with_bdb, Reset
<1>1. CASE UNCHANGED <<sync, ral, sec_env, bdb, privacy>>
  BY <1>1 DEF ListInv, Up, Listed, NumberOfIrks
<1>2. ASSUME Up, UNCHANGED sync, Listed(sec_env)',
             \A s \in Slots : Listed(bdb.data[s])'
      PROVE  ListInv'
  BY <1>2 DEF ListInv, Up
<1>3. ASSUME Up, UNCHANGED sync, UNCHANGED <<bdb, ral>>, Listed(sec_env)'
      PROVE  ListInv'
  BY <1>0, <1>3 DEF ListInv, Up, Listed
<1>4. CASE PairingReq \/ LtkExch
  <2>1. Listed(sec_env)
    BY <1>0, <1>4 DEF PairingReq, LtkExch, Handler, ListInv
  <2>2. sec_env' = [sec_env EXCEPT !.has_irk = FALSE] \/ sec_env' = [sec_env EXCEPT !.ltk = FreshKey]
    BY <1>4 DEF PairingReq, LtkExch
  <2>3. Listed(sec_env)'
    BY <1>4, <2>1, <2>2 DEF PairingReq, LtkExch, Listed, TypeInv, LinkTypes, Entries
  <2>. QED
    BY <1>3, <1>4, <2>3 DEF PairingReq, LtkExch, Handler, dbVars
<1>5. CASE IrkExch
  <2>1. link.peer \in Peers
    BY <1>5 DEF IrkExch, Protected, TypeInv, LinkInv, PairingPhases
  <2>2. own[link.peer].irk \in Irks
    BY <2>1 DEF TypeInv, LinkTypes
  <2>3. /\ ral' = Added(Removed(ral, link.peer), link.peer, own[link.peer].irk)
        /\ Up /\ UNCHANGED <<bdb, sync>>
    BY <1>0, <1>5 DEF IrkExch, Handler, dbVars
  <2>4. Extends(ral', ral, link.peer, own[link.peer].irk)
    BY <1>00, <2>1, <2>2, <2>3, RelistedExtends
  <2>5. sec_env'.id = link.peer
    BY <1>5 DEF IrkExch, TypeInv, LinkTypes, Entries
  <2>6. Listed(sec_env)'
    BY <2>4, <2>5 DEF Listed, Extends
  <2>7. \A s \in Slots : Listed(bdb.data[s])'
    <3>. SUFFICES ASSUME NEW s \in Slots PROVE Listed(bdb.data[s])'
      OBVIOUS
    <3>1. Listed(bdb.data[s])
      BY <1>0, <2>3 DEF ListInv
    <3>2. bdb.data[s].has_irk /\ HasRoom(ral') => bdb.data[s].id \in DOMAIN ral'
      BY <2>4, <3>1, StaysListed
    <3>. QED
      BY <2>3, <3>2 DEF Listed
  <2>. QED
    BY <1>2, <2>3, <2>6, <2>7
<1>6. CASE PairingSucceeds
  <2>1. Up /\ UNCHANGED <<sync, ral>>
    BY <1>6 DEF PairingSucceeds, Handler
  <2>2. Listed(sec_env)'
    BY <1>0, <1>6, <2>1 DEF PairingSucceeds, ListInv, Listed, TypeInv, LinkTypes, Entries
  <2>3. PICK w : bdb'.data = [bdb.data EXCEPT ![w] = sec_env']
    BY <1>6 DEF PairingSucceeds, default_app_bdb_add_entry, bond_db_store_ext
  <2>4. \A s \in Slots : bdb'.data[s] = sec_env' \/ bdb'.data[s] = bdb.data[s]
    BY <2>3 DEF TypeInv, DbTypes, Tables
  <2>. QED
    BY <1>0, <1>2, <2>1, <2>2, <2>4 DEF ListInv, Listed
<1>7. CASE gapc_encrypt_req_ind \/ AddrResolved
  <2>1. Up /\ UNCHANGED <<bdb, sync, ral>>
    BY <1>7 DEF gapc_encrypt_req_ind, AddrResolved, Handler, dbVars
  <2>2. sec_env' = sec_env \/ \E s \in Slots : sec_env' = bdb.data[s]
    BY <1>7, EnvStep
  <2>3. Listed(sec_env)'
    BY <1>0, <2>1, <2>2 DEF ListInv, Listed
  <2>. QED
    BY <1>3, <2>1, <2>3
<1>8. CASE RemoveEntry
  <2>1. Up /\ UNCHANGED <<sync, ral, sec_env>>
    BY <1>8 DEF RemoveEntry, Handler, secVars
  <2>2. PICK S \in SUBSET Slots : bdb' = Emptied(S) \/ bdb' = Cleared
    BY <1>8, RemoveIsStore DEF RemoveEntry, bond_db_store_ext, TypeInv, DbTypes
  <2>3. \A s \in Slots : bdb'.data[s] = NoData \/ bdb'.data[s] = bdb.data[s]
    BY <2>2 DEF Emptied, Cleared
  <2>. QED
    BY <1>0, <1>2, <2>1, <2>3 DEF ListInv, Listed, NoData
<1>9. CASE app_easy_security_ral_sync_with_bdb
  <2>0. ~Up /\ UNCHANGED <<bdb, sec_env>>
    BY <1>9 DEF app_easy_security_ral_sync_with_bdb, dbVars
  <2>1. CASE sync.idx < sync.nb /\ bdb.valid[sync.idx] /\ bdb.data[sync.idx].has_irk
    <3>1. /\ sync' = [sync EXCEPT !.idx = sync.idx + 1]
          /\ ral' = Added(ral, bdb.data[sync.idx].id, bdb.data[sync.idx].irk)
      BY <1>9, <2>1 DEF app_easy_security_ral_sync_with_bdb
    <3>2. sync \in [idx : 0..NumSlots, nb : -1..NumSlots]
      BY DEF TypeInv, ListTypes
    <3>3. sync'.idx = sync.idx + 1 /\ sync'.nb = sync.nb
      BY <3>1, <3>2
    <3>4. ~Up'
      <4>1. sync.nb # -1
        BY <2>1, <3>2, SlotAssumption
      <4>. QED
        BY <3>3, <4>1 DEF Up, NoSync
    <3>5. ~Up /\ sec_env = NoData /\ sync.nb = NumberOfIrks(bdb)
          /\ \A s \in 0..(sync.idx - 1) : bdb.data[s].has_irk /\ Listed(bdb.data[s])
      BY <1>0, <2>0 DEF ListInv
    <3>8. Extends(ral', ral, bdb.data[sync.idx].id, bdb.data[sync.idx].irk)
      <4>1. sync.idx \in Slots
        BY <2>1, <3>2, SlotAssumption DEF Slots
      <4>2. bdb.data[sync.idx].id \in Peers \cup {0} /\ bdb.data[sync.idx].irk \in Irks
        BY <4>1 DEF TypeInv, DbTypes, Tables, Entries
      <4>. QED
        BY <1>00, <3>1, <4>2, AddedExtends
    <3>6. \A s \in 0..(sync'.idx - 1) : bdb'.data[s].has_irk /\ Listed(bdb.data[s])'
      <4>. SUFFICES ASSUME NEW s \in 0..(sync'.idx - 1)
                    PROVE  bdb'.data[s].has_irk /\ Listed(bdb.data[s])'
        OBVIOUS
      <4>1. s = sync.idx \/ s \in 0..(sync.idx - 1)
        BY <3>2, <3>3, SlotAssumption
      <4>2. CASE s = sync.idx
        BY <2>0, <2>1, <3>8, <4>2 DEF Listed, Extends
      <4>3. CASE s \in 0..(sync.idx - 1)
        <5>1. bdb.data[s].has_irk /\ Listed(bdb.data[s])
          BY <3>5, <4>3
        <5>2. bdb.data[s].has_irk /\ HasRoom(ral') => bdb.data[s].id \in DOMAIN ral'
          BY <3>8, <5>1, StaysListed
        <5>. QED
          BY <2>0, <5>1, <5>2 DEF Listed
      <4>. QED
        BY <4>1, <4>2, <4>3
    <3>7. sync'.idx <= sync'.nb
      BY <2>1, <3>2, <3>3, SlotAssumption
    <3>9. sec_env' = NoData /\ sync'.nb = NumberOfIrks(bdb)'
      BY <2>0, <3>3, <3>5 DEF NumberOfIrks
    <3>. QED
      BY <3>4, <3>6, <3>7, <3>9 DEF ListInv
  <2>2. CASE sync.idx < sync.nb /\ ~(bdb.valid[sync.idx] /\ bdb.data[sync.idx].has_irk)
    <3>1. sync' = sync /\ ral' = ral
      BY <1>9, <2>2, Zenon DEF app_easy_security_ral_sync_with_bdb
    <3>. QED
      BY <1>0, <2>0, <3>1 DEF ListInv, Up, NumberOfIrks, Listed
  <2>3. CASE ~(sync.idx < sync.nb)
    <3>1. sync' = NoSync /\ ral' = ral
      BY <1>9, <2>3 DEF app_easy_security_ral_sync_with_bdb
    <3>2. sync.idx >= sync.nb
      BY <2>3, SlotAssumption DEF TypeInv, ListTypes
    <3>3. \A s \in Slots : Listed(bdb.data[s])
      BY <1>0, <2>0, <3>2, AllSlotsListed
    <3>4. sec_env = NoData
      BY <1>0, <2>0 DEF ListInv
    <3>. QED
      BY <2>0, <3>1, <3>3, <3>4 DEF ListInv, Up, Listed, NoData
  <2>. QED
    BY <2>1, <2>2, <2>3
<1>10. CASE Reset
  <2>1. sync' = [idx |-> 0, nb |-> NumberOfIrks(bdb')] /\ sec_env' = NoData
    BY <1>0, <1>10 DEF Reset
  <2>2. NumberOfIrks(bdb') \in 0..NumSlots
    BY ListedSlots
  <2>3. sync'.idx = 0 /\ sync'.nb = NumberOfIrks(bdb') /\ sync'.nb # -1
    BY <2>1, <2>2
  <2>4. ~Up' /\ sync'.idx <= sync'.nb /\ 0..(sync'.idx - 1) = {}
    BY <2>2, <2>3, SlotAssumption DEF Up, NoSync
  <2>. QED
    BY <2>1, <2>3, <2>4 DEF ListInv, NumberOfIrks
<1>. QED
  BY <1>1, <1>4, <1>5, <1>6, <1>7, <1>8, <1>9, <1>10
  DEF Next, vars, dbVars, secVars, gapc_connection_req_ind, gapc_disconnect_ind, PairingFails,
      StoreReturns, EraseDone, PowerDown, StoreWaits, EraseEnds, EraseTimesOut

(* The invariant holds at first.                                           *)
LEMMA InitListed == Init => ListInv
  BY DEF Init, DbInit, ListInv, Up, Listed, Cleared, NoData

(* Every identity the application may have to do with is in the list       *)
(* (ral_sync_with_bdb, PAIRING_IRK_EXCH) once the list is filled, as long  *)
(* as the list has room.                                                   *)
THEOREM KeysAreListed == Spec => []ListInv
<1>1. TypeInv /\ GenuineInv /\ ListInv /\ [Next]_vars => ListInv'
  BY ListedStep
<1>. QED
  BY <1>1, InitListed, TypeCorrect, IdentitiesAreGenuine, PTL DEF Spec

(* Peers keep their resolving keys. *)
OneKeyEach == \A p \in Peers : \A i, j \in IrksOf[p] : i = j

(* With controller privacy the resolving key of every bond is in the list  *)
(* of the controller, under its identity, as long as the list has room.    *)
THEOREM BondedIdentityIsAlwaysListed ==
    ASSUME OneKeyEach PROVE Spec => []BondedIdentityIsListed
<1>1. ASSUME TypeInv, GenuineInv, ListInv
      PROVE  BondedIdentityIsListed
  <2>. SUFFICES ASSUME privacy, Up, HasRoom(ral), NEW s \in Occupied, bdb.data[s].has_irk
                PROVE  InRal(bdb.data[s])
    BY DEF BondedIdentityIsListed
  <2>1. s \in Slots /\ Listed(bdb.data[s]) /\ Genuine(bdb.data[s])
    BY <1>1 DEF ListInv, GenuineInv, Occupied
  <2>2. bdb.data[s].id \in DOMAIN ral
    BY <2>1 DEF Listed
  <2>. QED
    BY <1>1, <2>1, <2>2 DEF InRal, Genuine, GenuineInv, OneKeyEach
<1>. QED
  BY <1>1, TypeCorrect, IdentitiesAreGenuine, KeysAreListed, PTL

(* A list with an entry for every peer there is never lacks a bond: only   *)
(* peers that are not bonded any more can crowd out one that is.           *)
THEOREM LargeListHasEveryBond ==
    ASSUME OneKeyEach, IsFiniteSet(Peers), Cardinality(Peers) <= RalSize
    PROVE  Spec => [](privacy /\ Up =>
                        \A s \in Occupied : bdb.data[s].has_irk => InRal(bdb.data[s]))
<1>1. ASSUME TypeInv, GenuineInv, ListInv, privacy, Up
      PROVE  \A s \in Occupied : bdb.data[s].has_irk => InRal(bdb.data[s])
  <2>. SUFFICES ASSUME NEW s \in Occupied, bdb.data[s].has_irk
                PROVE  InRal(bdb.data[s])
    OBVIOUS
  <2>1. s \in Slots /\ Listed(bdb.data[s]) /\ Genuine(bdb.data[s])
    BY <1>1 DEF ListInv, GenuineInv, Occupied
  <2>2. DOMAIN ral \subseteq Peers /\ Bounded(ral)
    BY <1>1 DEF GenuineInv
  <2>3. HasRoom(ral) \/ DOMAIN ral = Peers
    <3>1. /\ Cardinality(DOMAIN ral) <= Cardinality(Peers)
          /\ Cardinality(DOMAIN ral) = Cardinality(Peers) => DOMAIN ral = Peers
      BY <2>2, FS_Subset
    <3>2. Cardinality(DOMAIN ral) \in Nat /\ Cardinality(Peers) \in Nat
      BY <2>2, FS_CardinalityType DEF Bounded
    <3>. QED
      BY <3>1, <3>2, RalAssumption DEF HasRoom
  <2>4. bdb.data[s].id \in DOMAIN ral
    BY <2>1, <2>3 DEF Listed, Genuine
  <2>. QED
    BY <1>1, <2>1, <2>4 DEF InRal, Genuine, GenuineInv, OneKeyEach
<1>2. TypeInv /\ GenuineInv /\ ListInv =>
        (privacy /\ Up => \A s \in Occupied : bdb.data[s].has_irk => InRal(bdb.data[s]))
  BY <1>1
<1>. QED
  BY <1>2, TypeCorrect, IdentitiesAreGenuine, KeysAreListed, PTL

-----------------------------------------------------------------------------
(* The database keeps the promise of BondTable. *)

(* Of every table, in RAM or in the flash, the counter is ahead of the     *)
(* timestamps of the bonds.                                                *)
Aged(table) == \A s \in Slots : table.valid[s] => table.timestamp[s] < table.timestamp_counter
AgeInv == Aged(bdb) /\ (flash # Unreadable => Aged(flash))

(* Every new bond gets the counter, which then moves ahead.                *)

LEMMA AgeStep ==
    ASSUME TypeInv, AgeInv, [Next]_vars
    PROVE  AgeInv'
<1>. USE DEF AgeInv
<1>0. bdb \in Tables
  BY DEF TypeInv, DbTypes
<1>1. CASE UNCHANGED <<bdb, flash>>
  BY <1>1 DEF Aged
<1>2. ASSUME NEW table, NEW after, bond_db_store_ext(table, after), Aged(table)
      PROVE  AgeInv'
  <2>1. bdb' = table /\ (flash' = flash \/ flash' = Unreadable)
    BY <1>2 DEF bond_db_store_ext
  <2>. QED
    BY <1>2, <2>1 DEF Aged
<1>3. Aged(Cleared)
  BY DEF Aged, Cleared
<1>4. CASE PairingSucceeds
  <2>. DEFINE w == SlotToWrite(sec_env')
              table == [valid |-> [bdb.valid EXCEPT ![w] = TRUE],
                        data |-> [bdb.data EXCEPT ![w] = sec_env'],
                        timestamp |-> [bdb.timestamp EXCEPT ![w] = bdb.timestamp_counter],
                        timestamp_counter |-> bdb.timestamp_counter + 1]
  <2>1. bond_db_store_ext(table, "paired")
    BY <1>4 DEF PairingSucceeds, default_app_bdb_add_entry
  <2>2. w \in Slots
    BY <1>0, WrittenSlot
  <2>3. Aged(table)
    <3>. SUFFICES ASSUME NEW s \in Slots, table.valid[s]
                  PROVE  table.timestamp[s] < table.timestamp_counter
      BY DEF Aged
    <3>1. bdb.timestamp_counter \in Nat /\ bdb.timestamp \in [Slots -> Nat] /\ bdb.valid \in [Slots -> BOOLEAN]
      BY <1>0 DEF Tables
    <3>. HIDE DEF w
    <3>2. CASE s = w
      BY <2>2, <3>1, <3>2
    <3>3. CASE s # w
      <4>1. table.valid[s] = bdb.valid[s] /\ table.timestamp[s] = bdb.timestamp[s]
        BY <2>2, <3>1, <3>3
      <4>2. bdb.timestamp[s] < bdb.timestamp_counter
        BY <4>1 DEF Aged
      <4>. QED
        BY <3>1, <4>1, <4>2
    <3>. QED
      BY <3>2, <3>3
  <2>. QED
    BY <1>2, <2>1, <2>3
<1>5. CASE RemoveEntry
  <2>1. PICK S \in SUBSET Slots : bond_db_store_ext(Emptied(S), "none") \/ bond_db_store_ext(Cleared, "none")
    BY <1>0, <1>5, RemoveIsStore DEF RemoveEntry
  <2>2. Aged(Emptied(S))
    BY DEF Aged, Emptied
  <2>. QED
    BY <1>2, <1>3, <2>1, <2>2
<1>6. CASE EraseDone
  <2>1. bdb' = bdb /\ flash' \in {flash, bdb, Unreadable}
    BY <1>6, Zenon DEF EraseDone
  <2>. QED
    BY <2>1 DEF Aged
<1>7. CASE Reset
  <2>1. CASE LoadedOrCleared
    <3>1. bdb' \in {flash, Cleared} /\ flash' = bdb' /\ (bdb' = flash => flash # Unreadable \/ bdb' = Cleared)
      BY <2>1, Zenon DEF LoadedOrCleared
    <3>. QED
      BY <1>3, <3>1 DEF Aged
  <2>2. CASE FlashStaysBusy
    <3>1. bdb' = Cleared /\ flash' = flash
      BY <2>2 DEF FlashStaysBusy
    <3>. QED
      BY <1>3, <3>1 DEF Aged
  <2>. QED
    BY <1>7, <2>1, <2>2 DEF Reset, default_app_bdb_init
<1>. QED
  BY <1>1, <1>4, <1>5, <1>6, <1>7
  DEF Next, vars, dbVars, secVars, gapc_connection_req_ind, gapc_disconnect_ind, PairingReq, LtkExch,
      IrkExch, PairingFails, gapc_encrypt_req_ind, AddrResolved, StoreReturns, PowerDown, StoreWaits,
      EraseEnds, EraseTimesOut, app_easy_security_ral_sync_with_bdb

(* The invariant holds at first.                                           *)
LEMMA InitAged == Init => AgeInv
  BY DEF Init, DbInit, AgeInv, Aged, Cleared

(* A later bond is always the younger one, also after a reset: the counter *)
(* is stored with the timestamps.                                          *)
THEOREM LaterBondsAreYounger == Spec => []AgeInv
<1>1. TypeInv /\ AgeInv /\ [Next]_vars => AgeInv'
  BY AgeStep
<1>. QED
  BY <1>1, InitAged, TypeCorrect, PTL DEF Spec

(* A sector that is being erased has no table, whatever the flash does.    *)
EraseInv == erasing => flash = Unreadable

(* An erase makes the sector unreadable, and it is written only after.     *)
THEOREM ErasedSectorHasNoTable == Spec => []EraseInv
<1>1. Init => EraseInv
  BY DEF Init, DbInit, EraseInv
<1>2. ASSUME TypeInv, EraseInv, [Next]_vars
      PROVE  EraseInv'
  <2>. USE DEF EraseInv
  <2>1. CASE UNCHANGED dbVars
    BY <1>2, <2>1 DEF dbVars
  <2>2. ASSUME NEW table, NEW after, bond_db_store_ext(table, after)
        PROVE  EraseInv'
    BY <1>2, <2>2 DEF bond_db_store_ext
  <2>3. CASE PairingSucceeds
    BY <2>2, <2>3 DEF PairingSucceeds, default_app_bdb_add_entry
  <2>4. CASE RemoveEntry
    <3>1. bdb \in Tables
      BY <1>2 DEF TypeInv, DbTypes
    <3>. QED
      BY <2>2, <2>4, <3>1, RemoveIsStore DEF RemoveEntry
  <2>5. CASE StoreReturns \/ StoreWaits
    BY <1>2, <2>5 DEF StoreReturns, StoreWaits, EraseDone, PowerDown, EraseEnds, EraseTimesOut
  <2>6. CASE Reset
    BY <1>2, <2>6 DEF Reset, default_app_bdb_init, LoadedOrCleared, FlashStaysBusy
  <2>. QED
    BY <1>2, <2>1, <2>3, <2>4, <2>5, <2>6
    DEF Next, vars, gapc_connection_req_ind, gapc_disconnect_ind, PairingReq, LtkExch, IrkExch,
        PairingFails, gapc_encrypt_req_ind, AddrResolved, app_easy_security_ral_sync_with_bdb
<1>. QED
  BY <1>1, <1>2, TypeCorrect, PTL DEF Spec

(* A table of the code read as a table of BondTable.                       *)
LEMMA ReadTable ==
    ASSUME NEW table \in Tables
    PROVE  /\ TableOf(table) = [s \in Slots |-> TableOf(table)[s]]
           /\ \A s \in Slots : table.valid[s] =>
                /\ TableOf(table)[s] = [bond |-> table.data[s], age |-> table.timestamp[s]]
                /\ TableOf(table)[s] # NoBond
                /\ TableOf(table)[s].bond = table.data[s] /\ TableOf(table)[s].age = table.timestamp[s]
           /\ \A s \in Slots : ~table.valid[s] => TableOf(table)[s] = NoBond
           /\ table # Unreadable
<1>1. \A s \in Slots : table.timestamp[s] \in Nat
  BY DEF Tables
<1>2. NoBond.age = -1
  BY DEF NoBond
<1>. QED
  BY <1>1, <1>2, SectorAssumption DEF TableOf

(* A cleared table has no bonds.                                           *)

LEMMA ReadCleared == TableOf(Cleared) = Table!NoBonds
  BY DEF TableOf, Cleared, Table!NoBonds

(* Of a store the memory shows at most that it cannot be read any more.    *)
LEMMA StoreUnreadable ==
    ASSUME NEW table, NEW after, bond_db_store_ext(table, after)
    PROVE  Table!MayBecomeUnreadable
<1>1. flash' = flash \/ flash' = Unreadable
  BY DEF bond_db_store_ext
<1>. QED
  BY <1>1, ReadCleared DEF Table!MayBecomeUnreadable

(* Storing an emptied table forgets bonds.                                 *)
LEMMA StoreForgets ==
    ASSUME bdb \in Tables, NEW S \in SUBSET Slots, NEW after,
           \/ bond_db_store_ext(Emptied(S), after)
           \/ S = Slots /\ bond_db_store_ext(Cleared, after)
    PROVE  Table!Forget(S)
<1>1. TableOf(bdb)' = [s \in Slots |-> IF s \in S THEN NoBond ELSE TableOf(bdb)[s]]
  <2>1. CASE bond_db_store_ext(Emptied(S), after)
    BY <2>1 DEF bond_db_store_ext, TableOf, Emptied
  <2>2. CASE S = Slots /\ bond_db_store_ext(Cleared, after)
    BY <2>2 DEF bond_db_store_ext, TableOf, Cleared
  <2>. QED
    BY <2>1, <2>2
<1>. QED
  BY <1>1, StoreUnreadable DEF Table!Forget

(* A new bond takes the slot it may take and is the youngest.              *)
LEMMA StoreAdds ==
    ASSUME bdb \in Tables, AgeInv, NEW d \in Entries, NEW after, default_app_bdb_add_entry(d, after)
    PROVE  Table!AddBond
<1>. DEFINE w == SlotToWrite(d)
            new == [bond |-> d, age |-> bdb.timestamp_counter]
            table == [valid |-> [bdb.valid EXCEPT ![w] = TRUE],
                      data |-> [bdb.data EXCEPT ![w] = d],
                      timestamp |-> [bdb.timestamp EXCEPT ![w] = bdb.timestamp_counter],
                      timestamp_counter |-> bdb.timestamp_counter + 1]
<1>1. /\ bdb.valid \in [Slots -> BOOLEAN] /\ bdb.data \in [Slots -> Entries]
      /\ bdb.timestamp \in [Slots -> Nat] /\ bdb.timestamp_counter \in Nat
  BY DEF Tables
<1>2. bond_db_store_ext(table, after)
  BY DEF default_app_bdb_add_entry
<1>3. /\ w \in Slots
      /\ \/ w \in Matching(d)
         \/ Matching(d) = {} /\ w \notin Occupied
         \/ /\ Matching(d) = {} /\ Occupied = Slots
            /\ \A t \in Slots : bdb.timestamp[w] <= bdb.timestamp[t]
  BY WrittenSlot
<1>. HIDE DEF w
<1>4. TableOf(bdb)' = [TableOf(bdb) EXCEPT ![w] = new]
  <2>1. bdb' = table
    BY <1>2 DEF bond_db_store_ext
  <2>2. TableOf(table) = [TableOf(bdb) EXCEPT ![w] = new]
    BY <1>1, <1>3 DEF TableOf
  <2>. QED
    BY <2>1, <2>2 DEF TableOf
<1>5. TableOf(bdb)'[w] = new /\ new \in [bond : Entries, age : Nat]
  BY <1>1, <1>3, <1>4 DEF TableOf
<1>6. Table!Matching(d) = Matching(d) /\ Table!Vacant = Slots \ Occupied
  BY ReadTable DEF Table!Matching, Table!Vacant, Matching, Occupied
<1>7. Table!MayTake(w, d)
  <2>1. CASE w \in Matching(d)
    BY <1>6, <2>1 DEF Table!MayTake
  <2>2. CASE Matching(d) = {} /\ w \notin Occupied
    BY <1>3, <1>6, <2>2 DEF Table!MayTake
  <2>3. CASE /\ Matching(d) = {} /\ Occupied = Slots
             /\ \A t \in Slots : bdb.timestamp[w] <= bdb.timestamp[t]
    <3>1. \A t \in Slots : TableOf(bdb)[t].age = bdb.timestamp[t]
      BY <2>3, ReadTable DEF Occupied
    <3>. QED
      BY <1>3, <1>6, <2>3, <3>1 DEF Table!MayTake
  <2>. QED
    BY <1>3, <2>1, <2>2, <2>3
<1>8. \A t \in Slots \ Table!Vacant : TableOf(bdb)[t].age < new.age
  <2>. SUFFICES ASSUME NEW t \in Slots \ Table!Vacant PROVE TableOf(bdb)[t].age < new.age
    OBVIOUS
  <2>1. bdb.valid[t]
    BY <1>6 DEF Occupied
  <2>2. bdb.timestamp[t] < bdb.timestamp_counter
    BY <2>1 DEF AgeInv, Aged
  <2>. QED
    BY <2>1, <2>2, ReadTable
<1>9. Table!MayBecomeUnreadable
  BY <1>2, StoreUnreadable
<1>10. /\ TableOf(bdb)' = [TableOf(bdb) EXCEPT ![w] = TableOf(bdb)'[w]]
       /\ TableOf(bdb)'[w] \in [bond : Entries, age : Nat]
       /\ Table!MayTake(w, TableOf(bdb)'[w].bond)
       /\ \A t \in Slots \ Table!Vacant : t # w => TableOf(bdb)[t].age < TableOf(bdb)'[w].age
  <2>. HIDE DEF table
  <2>1. new.bond = d
    OBVIOUS
  <2>. QED
    BY <1>4, <1>5, <1>7, <1>8, <2>1
<1>. QED
  BY <1>3, <1>9, <1>10, Zenon DEF Table!AddBond

(* Every step of the code is a step of BondTable, or does not touch it.    *)

LEMMA TableStep ==
    ASSUME TypeInv, AgeInv, EraseInv, [Next]_vars
    PROVE  [UNCHANGED <<bdb, flash>> \/ Table!Next]_(Table!tableVars)
<1>0. bdb \in Tables /\ flash \in Tables \cup {Unreadable}
  BY DEF TypeInv, DbTypes
<1>1. CASE UNCHANGED <<bdb, flash>>
  BY <1>1
<1>2. CASE PairingSucceeds
  <2>1. sec_env' \in Entries
    BY LinkStep DEF LinkTypes
  <2>2. default_app_bdb_add_entry(sec_env', "paired")
    BY <1>2 DEF PairingSucceeds
  <2>3. Table!AddBond
    BY <1>0, <2>1, <2>2, StoreAdds
  <2>. QED
    BY <2>3 DEF Table!Next
<1>3. CASE RemoveEntry
  <2>1. \E S \in SUBSET Slots : Table!Forget(S)
    BY <1>0, <1>3, RemoveIsStore, StoreForgets DEF RemoveEntry
  <2>. QED
    BY <2>1 DEF Table!Next
<1>4. CASE EraseDone
  <2>1. CASE flash' = flash
    BY <1>4, <2>1 DEF EraseDone
  <2>2. CASE flash' = bdb
    <3>1. bdb' = bdb /\ bdb # Unreadable
      BY <1>0, <1>4, ReadTable DEF EraseDone
    <3>2. Table!Save
      BY <2>2, <3>1 DEF Table!Save
    <3>. QED
      BY <3>2 DEF Table!Next
  <2>3. CASE flash' = Unreadable
    <3>1. bdb' = bdb
      BY <1>4 DEF EraseDone
    <3>2. Table!MayBecomeUnreadable
      BY <2>3, ReadCleared DEF Table!MayBecomeUnreadable
    <3>3. TableOf(bdb)' = [s \in Slots |-> IF s \in {} THEN NoBond ELSE TableOf(bdb)[s]]
      BY <3>1 DEF TableOf
    <3>4. Table!Forget({})
      BY <3>2, <3>3 DEF Table!Forget
    <3>. QED
      BY <3>4 DEF Table!Next
  <2>. QED
    BY <1>4, <2>1, <2>2, <2>3, Zenon DEF EraseDone
<1>5. CASE Reset
  <2>1. CASE LoadedOrCleared
    <3>1. bdb' = (IF flash = Unreadable THEN Cleared ELSE flash) /\ flash' = bdb'
      BY <2>1 DEF LoadedOrCleared
    <3>2. bdb' \in Tables /\ bdb' # Unreadable
      BY <1>0, <3>1, MadeTables, SectorAssumption
    <3>3. flash' = (IF flash = Unreadable THEN Cleared ELSE flash) /\ flash' # Unreadable
      BY <3>1, <3>2
    <3>4. /\ TableOf(bdb)' = TableOf(IF flash = Unreadable THEN Cleared ELSE flash)
          /\ TableOf(IF flash = Unreadable THEN Cleared ELSE flash)'
             = TableOf(IF flash = Unreadable THEN Cleared ELSE flash)
      BY <3>1, <3>3, Zenon DEF TableOf
    <3>. QED
      BY <3>4 DEF Table!Reset, Table!Next
  <2>2. CASE FlashStaysBusy /\ flash = Unreadable
    <3>1. bdb' = Cleared /\ flash' = flash
      BY <2>2 DEF FlashStaysBusy
    <3>2. /\ TableOf(bdb)' = TableOf(IF flash = Unreadable THEN Cleared ELSE flash)
          /\ TableOf(IF flash = Unreadable THEN Cleared ELSE flash)'
             = TableOf(IF flash = Unreadable THEN Cleared ELSE flash)
      BY <2>2, <3>1, Zenon DEF TableOf
    <3>. QED
      BY <3>2 DEF Table!Reset, Table!Next
  <2>3. LoadedOrCleared \/ (FlashStaysBusy /\ flash = Unreadable)
    BY <1>5 DEF Reset, default_app_bdb_init, FlashStaysBusy, EraseInv
  <2>. QED
    BY <2>1, <2>2, <2>3 DEF Table!Next
<1>. QED
  BY <1>1, <1>2, <1>3, <1>4, <1>5
  DEF Next, vars, dbVars, secVars, gapc_connection_req_ind, gapc_disconnect_ind, PairingReq, LtkExch,
      IrkExch, PairingFails, gapc_encrypt_req_ind, AddrResolved, StoreReturns, PowerDown, StoreWaits,
      EraseEnds, EraseTimesOut, app_easy_security_ral_sync_with_bdb

(* Bonds are replaced by the rule of default_app_bdb_add_entry, forgotten  *)
(* when they are removed, and a reset brings back those last saved or      *)
(* none, however stores nest: the database implements BondTable.           *)
THEOREM DatabaseIsABondTable == Spec => ImplementsBondTable
<1>1. Init => Table!Init
  <2>. SUFFICES ASSUME Init PROVE Table!Init
    OBVIOUS
  <2>1. bdb = Cleared /\ flash = Cleared
    BY DEF Init, DbInit
  <2>. QED
    BY <2>1, ReadCleared DEF Table!Init
<1>2. TypeInv /\ AgeInv /\ EraseInv /\ [Next]_vars =>
        [UNCHANGED <<bdb, flash>> \/ Table!Next]_(Table!tableVars)
  BY TableStep
<1>. QED
  BY <1>1, <1>2, TypeCorrect, LaterBondsAreYounger, ErasedSectorHasNoTable, PTL
  DEF Spec, ImplementsBondTable

-----------------------------------------------------------------------------
(* The right key for every peer. *)

(* Every peer has a resolving key of its own that it never changes, and    *)
(* its address is not the number of a random one.  The searches look at    *)
(* the resolving key without its flag and at the address without its type: *)
(* they need as much.                                                      *)
FaithfulPeers ==
    /\ \A p \in Peers : \E k \in Nat \ {0} : IrksOf[p] = {k}
    /\ \A p, q \in Peers : IrksOf[p] = IrksOf[q] => p = q
    /\ \A p, q \in Peers, n \in 0..MaxPairings : p # 100 * q + n

AddressOf(a, p) ==
    IF p \notin Private THEN a = <<"public", p>>
    ELSE a = <<"id", p>> \/ \E n \in 0..MaxPairings : a = <<"rpa", 100 * p + n>>

(* A bond as pairing makes it, and what the peers still know of it.        *)
IsBond(d) ==
    /\ d.id \in Peers /\ AddressOf(d.bda, d.id)
    /\ d.has_irk /\ d.irk \in IrksOf[d.id] /\ d.ltk \in 1..MaxPairings
KnowsBond(d) ==
    \A p \in Peers : IF p = d.id THEN own[p].ltk \in {0, d.ltk} ELSE own[p].ltk # d.ltk

Bonded == {s \in Slots : bdb.data[s] # NoData}

(* A slot is empty or has the last bond of its peer, of which there is no  *)
(* other.                                                                  *)
BondInv ==
    /\ \A p \in Peers : own[p].irk \in IrksOf[p] /\ own[p].ltk <= pairings
    /\ \A s \in Bonded : /\ bdb.valid[s] /\ IsBond(bdb.data[s]) /\ KnowsBond(bdb.data[s])
                         /\ bdb.data[s].ltk <= pairings
    /\ \A s, t \in Bonded : bdb.data[s].id = bdb.data[t].id => s = t

(* The link shows an address of its peer, what is paired is the peer's,    *)
(* and an address is resolved with the keys of all bonds.                  *)
KeyInv ==
    /\ phase # "none" => AddressOf(link.addr, link.peer)
    /\ phase \in {"keyed", "encrypted", "identified"} => sec_env.ltk = FreshKey
    /\ phase = "identified" =>
         sec_env.has_irk /\ sec_env.id = link.peer /\ sec_env.irk = own[link.peer].irk
    /\ resolving # NoResolving /\ phase = "idle" =>
         /\ resolving.irk = own[link.peer].irk /\ own[link.peer].ltk # 0
         /\ \A s \in Bonded : bdb.data[s].irk \in resolving.keys

(* A resolving key tells the peer.                                         *)
LEMMA KeyTells ==
    ASSUME FaithfulPeers, NEW p \in Peers, NEW k \in IrksOf[p]
    PROVE  k # 0 /\ IrksOf[p] = {k} /\ \A q \in Peers : k \in IrksOf[q] => p = q
<1>1. k # 0 /\ IrksOf[p] = {k}
  BY DEF FaithfulPeers
<1>2. ASSUME NEW q \in Peers, k \in IrksOf[q]
      PROVE  p = q
  <2>1. IrksOf[q] = {k}
    BY <1>2 DEF FaithfulPeers
  <2>. QED
    BY <1>1, <2>1 DEF FaithfulPeers
<1>. QED
  BY <1>1, <1>2

(* What a link shows of its peer, and what a search compares it with.      *)
Sought(type, v, p) ==
    \/ type = "BDA" /\ v = p /\ p \notin Private
    \/ type = "ID" /\ v = p
    \/ type = "IRK" /\ v = own[p].irk

Matches(type, v, d) ==
    \/ type = "BDA" /\ d.bda[2] = v
    \/ type = "IRK" /\ d.irk = v
    \/ type = "ID" /\ d.id = v

(* An address of one peer does not have the number of another one.         *)

LEMMA AddressTells ==
    ASSUME FaithfulPeers, NEW p \in Peers, NEW q \in Peers, NEW a, AddressOf(a, q), a[2] = p
    PROVE  p = q
<1>1. CASE a = <<"public", q>> \/ a = <<"id", q>>
  BY <1>1
<1>2. ASSUME NEW n \in 0..MaxPairings, a = <<"rpa", 100 * q + n>>
      PROVE  FALSE
  <2>1. p = 100 * q + n
    BY <1>2
  <2>. QED
    BY <2>1 DEF FaithfulPeers
<1>. QED
  BY <1>1, <1>2 DEF AddressOf

(* A slot is found by what the link shows of a peer if it has its bond.    *)

LEMMA MatchTells ==
    ASSUME FaithfulPeers, TypeInv, BondInv, NEW p \in Peers, NEW type, NEW v, Sought(type, v, p),
           NEW s \in Slots
    PROVE  Matches(type, v, bdb.data[s]) <=> s \in Bonded /\ bdb.data[s].id = p
<1>. DEFINE d == bdb.data[s]
<1>0. own[p].irk \in IrksOf[p] /\ own[p].irk # 0 /\ p # 0
  BY KeyTells, PeerAssumption DEF BondInv
<1>1. CASE s \notin Bonded
  <2>1. d = NoData
    BY <1>1 DEF Bonded
  <2>2. d.bda[2] = 0 /\ d.irk = 0 /\ d.id = 0
    BY <2>1 DEF NoData, NoAddr
  <2>. HIDE DEF d
  <2>. QED
    BY <1>0, <1>1, <2>2 DEF Matches, Sought, d
<1>2. CASE s \in Bonded
  <2>1. d.id \in Peers /\ AddressOf(d.bda, d.id) /\ d.irk \in IrksOf[d.id]
    BY <1>2 DEF BondInv, IsBond
  <2>. HIDE DEF d
  <2>2. CASE d.id = p
    <3>1. d.irk = own[p].irk
      BY <1>0, <2>1, <2>2, KeyTells
    <3>2. p \notin Private => d.bda[2] = p
      BY <2>1, <2>2 DEF AddressOf
    <3>. QED
      BY <1>2, <2>2, <3>1, <3>2 DEF Matches, Sought, d
  <2>3. CASE d.id # p
    <3>1. d.irk # own[p].irk
      BY <1>0, <2>1, <2>3, KeyTells
    <3>2. d.bda[2] # p
      BY <2>1, <2>3, AddressTells
    <3>. QED
      BY <2>3, <3>1, <3>2 DEF Matches, Sought, d
  <2>. QED
    BY <2>2, <2>3
<1>. QED
  BY <1>1, <1>2

(* The search finds the key the peer encrypts with, if it is in the table. *)
LEMMA FoundBond ==
    ASSUME FaithfulPeers, TypeInv, BondInv, NEW p \in Peers, NEW type, NEW v, Sought(type, v, p),
           own[p].ltk # 0
    PROVE  /\ Found(type, v) # NotFound =>
                Found(type, v) \in Slots /\ bdb.data[Found(type, v)].ltk = own[p].ltk
           /\ Found(type, v) = NotFound =>
                \A s \in Slots : bdb.data[s].ltk # own[p].ltk
<1>. DEFINE S == {s \in Slots : Matches(type, v, bdb.data[s])}
<1>1. Found(type, v) = First(S)
  <2>1. type \in {"BDA", "ID", "IRK"}
    BY DEF Sought
  <2>2. S = {s \in Slots : \/ type = "EDIV" /\ bdb.data[s].ltk = v
                           \/ type = "BDA"  /\ bdb.data[s].bda[2] = v
                           \/ type = "IRK"  /\ bdb.data[s].irk = v
                           \/ type = "ID"   /\ bdb.data[s].id = v}
    BY <2>1 DEF Matches
  <2>. QED
    BY <2>2 DEF Found
<1>2. S = {s \in Slots : s \in Bonded /\ bdb.data[s].id = p}
  BY MatchTells
<1>3. CASE Found(type, v) # NotFound
  <2>1. First(S) \in S
    BY <1>1, <1>3, FirstSlot
  <2>2. Found(type, v) \in Bonded /\ bdb.data[Found(type, v)].id = p
    BY <1>1, <1>2, <2>1
  <2>. QED
    BY <1>3, <2>2 DEF Bonded, BondInv, KnowsBond
<1>4. CASE Found(type, v) = NotFound
  <2>1. S = {}
    BY <1>1, <1>4, FirstSlot
  <2>2. \A s \in Bonded : bdb.data[s].id # p
    BY <1>2, <2>1 DEF Bonded
  <2>3. \A s \in Bonded : bdb.data[s].ltk # own[p].ltk
    BY <2>2 DEF BondInv, KnowsBond
  <2>4. \A s \in Slots \ Bonded : bdb.data[s].ltk = 0
    BY DEF Bonded, NoData
  <2>. QED
    BY <1>4, <2>3, <2>4
<1>. QED
  BY <1>3, <1>4

(* The bonds stay the peers' when a new one is stored: it takes the slot   *)
(* of the peer if the peer had one.                                        *)
LEMMA AddedBond ==
    ASSUME FaithfulPeers, TypeInv, BondInv, KeyInv, Handler, PairingSucceeds
    PROVE  BondInv'
<1>. DEFINE p == link.peer
            d == sec_env'
            w == SlotToWrite(d)
<1>1. /\ p \in Peers /\ pairings \in Nat /\ pairings < MaxPairings
      /\ own \in [Peers -> [irk : Irks, ltk : Keys]] /\ sec_env \in Entries
      /\ bdb \in Tables
  BY PairingAssumption
  DEF PairingSucceeds, TypeInv, LinkInv, LinkTypes, DbTypes, Keys, PairingPhases
<1>2. own[p].irk \in IrksOf[p] /\ own[p].irk # 0
  BY <1>1, KeyTells DEF BondInv
<1>3. /\ AddressOf(link.addr, p) /\ sec_env.ltk = pairings + 1
      /\ sec_env.has_irk /\ sec_env.id = p /\ sec_env.irk = own[p].irk
  BY <1>1, <1>2 DEF PairingSucceeds, KeyInv, FreshKey
<1>4. /\ d.bda = link.addr /\ d.ltk = pairings + 1 /\ d.has_irk /\ d.id = p /\ d.irk = own[p].irk
  BY <1>1, <1>3 DEF PairingSucceeds, Entries
<1>5. IsBond(d) /\ d # NoData
  BY <1>1, <1>2, <1>3, <1>4, PairingAssumption, PeerAssumption DEF IsBond, NoData
<1>6. /\ bdb'.data = [bdb.data EXCEPT ![w] = d] /\ bdb'.valid = [bdb.valid EXCEPT ![w] = TRUE]
      /\ own' = [own EXCEPT ![p].ltk = pairings + 1] /\ pairings' = pairings + 1
  BY DEF PairingSucceeds, default_app_bdb_add_entry, bond_db_store_ext, FreshKey
<1>7. /\ w \in Slots
      /\ Matching(d) # {} => w \in Matching(d)
  BY <1>1, WrittenSlot
<1>. HIDE DEF w, d
<1>8. /\ bdb'.data[w] = d /\ bdb'.valid[w]
      /\ \A s \in Slots : s # w => bdb'.data[s] = bdb.data[s] /\ bdb'.valid[s] = bdb.valid[s]
  BY <1>1, <1>6, <1>7 DEF Tables
<1>9. /\ own'[p].irk = own[p].irk /\ own'[p].ltk = pairings + 1
      /\ \A q \in Peers : q # p => own'[q] = own[q]
  BY <1>1, <1>6
<1>10. ASSUME NEW s \in Bonded, bdb.data[s].id = p
       PROVE  s = w
  <2>1. /\ bdb.valid[s] /\ bdb.data[s].has_irk /\ bdb.data[s].irk \in IrksOf[p]
        /\ s \in Slots
    BY <1>10 DEF BondInv, IsBond, Bonded
  <2>2. bdb.data[s].irk = d.irk
    BY <1>1, <1>2, <1>4, <2>1, KeyTells
  <2>3. s \in Matching(d)
    BY <1>4, <2>1, <2>2 DEF Matching, Occupied, SamePeer
  <2>4. w \in Slots /\ bdb.valid[w] /\ SamePeer(bdb.data[w], d)
    BY <1>7, <2>3 DEF Matching, Occupied
  <2>5. w \in Bonded
    <3>. SUFFICES ASSUME bdb.data[w] = NoData PROVE FALSE
      BY <2>4 DEF Bonded
    <3>1. ~bdb.data[w].has_irk /\ bdb.data[w].bda = NoAddr
      BY DEF NoData
    <3>2. d.bda = NoAddr
      BY <2>4, <3>1 DEF SamePeer
    <3>. QED
      BY <1>3, <1>4, <3>2 DEF AddressOf, NoAddr
  <2>6. bdb.data[w].irk = d.irk /\ bdb.data[w].id \in Peers /\ bdb.data[w].irk \in IrksOf[bdb.data[w].id]
    BY <1>4, <2>4, <2>5 DEF BondInv, IsBond, SamePeer
  <2>7. bdb.data[w].id = p
    BY <1>1, <1>2, <1>4, <2>6, KeyTells
  <2>. QED
    BY <1>10, <2>5, <2>7 DEF BondInv
<1>11. Bonded' = Bonded \cup {w}
  BY <1>5, <1>7, <1>8 DEF Bonded
<1>12. \A q \in Peers : own'[q].irk \in IrksOf[q] /\ own'[q].ltk <= pairings'
  <2>. SUFFICES ASSUME NEW q \in Peers
                PROVE  own'[q].irk \in IrksOf[q] /\ own'[q].ltk <= pairings'
    OBVIOUS
  <2>1. own[q].ltk \in Nat /\ own[q].ltk <= pairings /\ own[q].irk \in IrksOf[q]
    BY <1>1, PairingAssumption DEF BondInv, Keys
  <2>. QED
    BY <1>1, <1>6, <1>9, <2>1
<1>13. ASSUME NEW s \in Bonded'
       PROVE  /\ bdb'.valid[s] /\ IsBond(bdb'.data[s])
              /\ KnowsBond(bdb.data[s])'
              /\ bdb'.data[s].ltk <= pairings'
  <2>1. CASE s = w
    <3>1. \A q \in Peers : IF q = d.id THEN own'[q].ltk \in {0, d.ltk} ELSE own'[q].ltk # d.ltk
      <4>. SUFFICES ASSUME NEW q \in Peers
                    PROVE  IF q = d.id THEN own'[q].ltk \in {0, d.ltk} ELSE own'[q].ltk # d.ltk
        OBVIOUS
      <4>1. own[q].ltk \in Nat /\ own[q].ltk <= pairings
        BY <1>1, PairingAssumption DEF BondInv, Keys
      <4>. QED
        BY <1>1, <1>4, <1>9, <4>1
    <3>. QED
      BY <1>1, <1>4, <1>5, <1>6, <1>8, <2>1, <3>1 DEF KnowsBond
  <2>2. CASE s # w
    <3>1. s \in Bonded /\ s \in Slots /\ bdb'.data[s] = bdb.data[s] /\ bdb'.valid[s] = bdb.valid[s]
      BY <1>8, <1>11, <2>2 DEF Bonded
    <3>2. /\ bdb.valid[s] /\ IsBond(bdb.data[s]) /\ KnowsBond(bdb.data[s])
          /\ bdb.data[s].ltk <= pairings /\ bdb.data[s].ltk \in Nat
      BY <3>1, PairingAssumption DEF BondInv, IsBond
    <3>3. bdb.data[s].id # p
      BY <1>10, <2>2, <3>1
    <3>4. KnowsBond(bdb.data[s])'
      BY <1>1, <1>9, <3>1, <3>2, <3>3 DEF KnowsBond
    <3>. QED
      BY <1>1, <1>6, <3>1, <3>2, <3>4
  <2>. QED
    BY <2>1, <2>2
<1>14. ASSUME NEW s \in Bonded', NEW t \in Bonded', bdb'.data[s].id = bdb'.data[t].id
       PROVE  s = t
  <2>1. \A x \in Bonded' : x # w => x \in Bonded /\ bdb'.data[x] = bdb.data[x] /\ bdb.data[x].id # p
    BY <1>8, <1>10, <1>11 DEF Bonded
  <2>. QED
    BY <1>4, <1>8, <1>14, <2>1 DEF BondInv
<1>15. \A s \in Bonded' : IsBond(bdb.data[s])'
  BY <1>13 DEF IsBond, AddressOf
<1>. QED
  BY <1>12, <1>13, <1>14, <1>15 DEF BondInv

(* Every step keeps the bonds those of the peers, one for each.            *)

LEMMA BondStep ==
    ASSUME FaithfulPeers, TypeInv, BondInv, KeyInv, FlashInv, [Next]_vars
    PROVE  BondInv'
<1>1. CASE UNCHANGED <<bdb, own, pairings>>
  BY <1>1 DEF BondInv, Bonded, IsBond, KnowsBond, AddressOf
<1>2. CASE \E p \in Peers : gapc_connection_req_ind(p)
  <2>0. PICK p \in Peers : gapc_connection_req_ind(p)
    BY <1>2
  <2>1. PICK known \in MayKnow(p) : own' = [own EXCEPT ![p] = known]
    BY <2>0 DEF gapc_connection_req_ind
  <2>2. UNCHANGED <<bdb, pairings>>
    BY <1>2 DEF gapc_connection_req_ind, dbVars
  <2>3. known.irk \in IrksOf[p] /\ known.ltk \in {0, own[p].ltk}
    BY DEF MayKnow, BondInv
  <2>4. \A q \in Peers : own'[q].irk \in IrksOf[q] /\ own'[q].ltk \in {0, own[q].ltk}
    BY <2>1, <2>3 DEF BondInv, TypeInv, LinkTypes
  <2>5. \A q \in Peers : own'[q].ltk <= pairings
    BY <2>4, PairingAssumption DEF BondInv, TypeInv, LinkTypes, Keys
  <2>6. \A s \in Bonded : KnowsBond(bdb.data[s])'
    <3>1. \A s \in Bonded : bdb.data[s].ltk # 0 /\ KnowsBond(bdb.data[s])
      BY DEF BondInv, IsBond
    <3>. QED
      BY <2>2, <2>4, <3>1 DEF KnowsBond
  <2>. QED
    BY <2>2, <2>4, <2>5, <2>6 DEF BondInv, Bonded, IsBond, AddressOf
<1>3. ASSUME UNCHANGED <<own, pairings>>,
             \A s \in Slots : \/ bdb'.data[s] = NoData
                              \/ bdb'.data[s] = bdb.data[s] /\ bdb'.valid[s] = bdb.valid[s]
      PROVE  BondInv'
  <2>1. \A s \in Bonded' : s \in Bonded /\ bdb'.data[s] = bdb.data[s] /\ bdb'.valid[s] = bdb.valid[s]
    BY <1>3 DEF Bonded
  <2>. QED
    BY <1>3, <2>1 DEF BondInv, IsBond, KnowsBond, AddressOf
<1>4. CASE PairingSucceeds
  BY <1>4, AddedBond DEF PairingSucceeds
<1>5. CASE RemoveEntry
  <2>1. PICK S \in SUBSET Slots : bdb' = Emptied(S) \/ bdb' = Cleared
    BY <1>5, RemoveIsStore DEF RemoveEntry, bond_db_store_ext, TypeInv, DbTypes
  <2>2. \A s \in Slots : \/ bdb'.data[s] = NoData
                         \/ bdb'.data[s] = bdb.data[s] /\ bdb'.valid[s] = bdb.valid[s]
    <3>1. CASE bdb' = Cleared
      BY <3>1 DEF Cleared
    <3>2. CASE bdb' = Emptied(S)
      <4>. SUFFICES ASSUME NEW s \in Slots, s \notin S
                    PROVE  bdb'.data[s] = bdb.data[s] /\ bdb'.valid[s] = bdb.valid[s]
        BY <3>2 DEF Emptied
      <4>1. bdb.valid[s] \in BOOLEAN
        BY DEF TypeInv, DbTypes, Tables
      <4>. QED
        BY <3>2, <4>1 DEF Emptied
    <3>. QED
      BY <2>1, <3>1, <3>2
  <2>. QED
    BY <1>3, <1>5, <2>2 DEF RemoveEntry, secVars
<1>6. CASE Reset
  <2>1. bdb' = Cleared \/ bdb' = bdb
    BY <1>6 DEF Reset, default_app_bdb_init, LoadedOrCleared, FlashStaysBusy, FlashInv
  <2>2. \A s \in Slots : \/ bdb'.data[s] = NoData
                         \/ bdb'.data[s] = bdb.data[s] /\ bdb'.valid[s] = bdb.valid[s]
    BY <2>1 DEF Cleared
  <2>. QED
    BY <1>3, <1>6, <2>2 DEF Reset
<1>. QED
  BY <1>1, <1>2, <1>4, <1>5, <1>6
  DEF Next, vars, dbVars, secVars, gapc_disconnect_ind, PairingReq, LtkExch, IrkExch, PairingFails,
      gapc_encrypt_req_ind, AddrResolved, StoreReturns, EraseDone, PowerDown, StoreWaits, EraseEnds, EraseTimesOut,
      app_easy_security_ral_sync_with_bdb

(* Every step keeps what is known of the link true.                        *)

LEMMA KeyStep ==
    ASSUME FaithfulPeers, TypeInv, PairInv, BondInv, KeyInv, [Next]_vars
    PROVE  KeyInv'
<1>1. CASE UNCHANGED <<link, phase, sec_env, resolving, own, pairings, bdb>>
  BY <1>1 DEF KeyInv, Bonded, FreshKey, AddressOf
<1>2. CASE \E p \in Peers : gapc_connection_req_ind(p)
  <2>1. PICK p \in Peers : gapc_connection_req_ind(p)
    BY <1>2
  <2>2. PICK known \in MayKnow(p) : link' = [peer |-> p, addr |-> AddrOf(p, known.irk)]
    BY <2>1 DEF gapc_connection_req_ind
  <2>3. pairings \in 0..MaxPairings
    BY DEF TypeInv, LinkTypes, Keys
  <2>4. AddressOf(AddrOf(p, known.irk), p)
    BY <2>3 DEF AddressOf, AddrOf
  <2>5. link'.peer = p /\ AddressOf(link'.addr, p)
    BY <2>2, <2>4
  <2>6. phase' = "idle" /\ resolving = NoResolving /\ resolving' = resolving
    BY <2>1 DEF gapc_connection_req_ind
  <2>. QED
    BY <2>5, <2>6 DEF KeyInv, AddressOf
<1>3. CASE gapc_disconnect_ind
  BY <1>3 DEF gapc_disconnect_ind, KeyInv
<1>4. CASE PairingReq
  BY <1>4 DEF PairingReq, KeyInv, AddressOf
<1>5. CASE LtkExch
  <2>1. sec_env'.ltk = FreshKey
    BY <1>5 DEF LtkExch, TypeInv, LinkTypes, Entries
  <2>. QED
    BY <1>5, <2>1 DEF LtkExch, KeyInv, AddressOf, FreshKey
<1>6. CASE IrkExch
  <2>1. phase \in {"keyed", "encrypted"} /\ phase' = "identified" /\ UNCHANGED <<link, own, pairings>>
    BY <1>6 DEF IrkExch, Protected
  <2>2. /\ sec_env'.irk = own[link.peer].irk /\ sec_env'.id = link.peer /\ sec_env'.has_irk
        /\ sec_env'.ltk = sec_env.ltk
    BY <1>6 DEF IrkExch, TypeInv, LinkTypes, Entries
  <2>. QED
    BY <2>1, <2>2 DEF KeyInv, AddressOf, FreshKey
<1>7. CASE PairingSucceeds
  BY <1>7 DEF PairingSucceeds, KeyInv, AddressOf
<1>8. CASE PairingFails
  BY <1>8 DEF PairingFails, KeyInv, AddressOf, PairingPhases
<1>9. CASE gapc_encrypt_req_ind
  <2>0. UNCHANGED <<link, own, pairings, bdb>> /\ phase \in {"idle", "keyed"} /\ resolving = NoResolving
        /\ (phase = "idle" => own[link.peer].ltk # 0)
    BY <1>9 DEF gapc_encrypt_req_ind, dbVars
  <2>1. CASE phase = "keyed"
    <3>1. pairing_in_progress
      BY <2>1 DEF PairInv, PairingPhases
    <3>2. app_easy_security_accept_encryption(sec_env) /\ UNCHANGED resolving
      BY <1>9, <3>1 DEF gapc_encrypt_req_ind, default_app_on_encrypt_req_ind
    <3>. QED
      BY <2>0, <2>1, <3>2 DEF app_easy_security_accept_encryption, KeyInv, AddressOf, FreshKey
  <2>2. CASE phase = "idle"
    <3>1. ~pairing_in_progress
      BY <2>2 DEF PairInv, PairingPhases
    <3>2. \/ phase' \in {"closing", "secured"} /\ UNCHANGED resolving
          \/ /\ phase' = "idle"
             /\ resolving' = [irk |-> own[link.peer].irk, keys |-> StoredIrks]
          \/ phase' = "closing"
      BY <1>9, <2>2, <3>1
      DEF gapc_encrypt_req_ind, default_app_on_encrypt_req_ind, app_easy_security_resolve_bdaddr,
          app_easy_security_accept_encryption, app_easy_security_reject_encryption, AcceptIfFound
    <3>3. CASE phase' \in {"closing", "secured"}
      BY <2>0, <2>2, <3>3 DEF KeyInv, AddressOf
    <3>4. CASE phase' = "idle" /\ resolving' = [irk |-> own[link.peer].irk, keys |-> StoredIrks]
      <4>1. \A s \in Bonded : bdb.data[s].irk \in StoredIrks
        BY DEF BondInv, IsBond, StoredIrks, Bonded
      <4>. QED
        BY <2>0, <2>2, <3>4, <4>1 DEF KeyInv, AddressOf, Bonded
    <3>. QED
      BY <3>2, <3>3, <3>4
  <2>. QED
    BY <2>0, <2>1, <2>2
<1>10. CASE AddrResolved
  <2>1. phase \in {"idle", "none"} /\ resolving' = NoResolving /\ UNCHANGED <<link, own, pairings, bdb>>
    BY <1>10 DEF AddrResolved, PairInv, dbVars
  <2>2. phase = "none" => phase' = "none"
    BY <1>10 DEF AddrResolved
  <2>3. phase = "idle" => phase' \in {"closing", "secured"}
    BY <1>10 DEF AddrResolved, AcceptIfFound, app_easy_security_accept_encryption,
       app_easy_security_reject_encryption
  <2>. QED
    BY <2>1, <2>2, <2>3 DEF KeyInv, AddressOf
<1>11. CASE RemoveEntry
  <2>1. PICK S \in SUBSET Slots : bdb' = Emptied(S) \/ bdb' = Cleared
    BY <1>11, RemoveIsStore DEF RemoveEntry, bond_db_store_ext, TypeInv, DbTypes
  <2>2. \A s \in Bonded' : s \in Bonded /\ bdb'.data[s] = bdb.data[s]
    BY <2>1 DEF Bonded, Emptied, Cleared
  <2>. QED
    BY <1>11, <2>2 DEF RemoveEntry, secVars, KeyInv, AddressOf, FreshKey
<1>12. CASE Reset
  BY <1>12 DEF Reset, KeyInv
<1>. QED
  BY <1>1, <1>2, <1>3, <1>4, <1>5, <1>6, <1>7, <1>8, <1>9, <1>10, <1>11, <1>12
  DEF Next, vars, dbVars, secVars, StoreReturns, EraseDone, PowerDown, StoreWaits, EraseEnds, EraseTimesOut,
      app_easy_security_ral_sync_with_bdb

(* The invariants hold at first.                                           *)
LEMMA InitBonds == Init => BondInv /\ KeyInv
<1>. SUFFICES ASSUME Init PROVE BondInv /\ KeyInv
  OBVIOUS
<1>1. Bonded = {}
  BY DEF Init, DbInit, Bonded, Cleared
<1>2. \A p \in Peers : own[p].irk \in IrksOf[p] /\ own[p].ltk <= pairings
  <2>. SUFFICES ASSUME NEW p \in Peers
                PROVE  own[p].irk \in IrksOf[p] /\ own[p].ltk <= pairings
    OBVIOUS
  <2>1. IrksOf[p] \in SUBSET Nat /\ IrksOf[p] # {}
    BY PeerAssumption
  <2>2. \E s \in IrksOf[p] : \A t \in IrksOf[p] : s <= t
    BY <2>1, LeastElement
  <2>3. Lowest(IrksOf[p]) \in IrksOf[p]
    BY <2>2 DEF Lowest
  <2>4. own[p].ltk = 0 /\ pairings = 0
    BY DEF Init
  <2>. QED
    BY <2>3, <2>4 DEF Init
<1>. QED
  BY <1>1, <1>2 DEF Init, BondInv, KeyInv

(* Every bond in the table is the last one of its peer, and the only one.  *)
THEOREM OneBondForEachPeer ==
    ASSUME FaithfulPeers, LinkQuirks = {}, "ends_in_store" \notin FlashQuirks
    PROVE  Spec => [](BondInv /\ KeyInv)
<1>1. TypeInv /\ PairInv /\ FlashInv /\ (BondInv /\ KeyInv) /\ [Next]_vars => (BondInv /\ KeyInv)'
  BY BondStep, KeyStep
<1>. QED
  BY <1>1, InitBonds, TypeCorrect, PairingIsStoredOnce, FlashFollowsTable, PTL DEF Spec

(* What an idle link is answered is what the search for its peer finds.    *)
LEMMA Answered ==
    ASSUME FaithfulPeers, TypeInv, PairInv, BondInv, KeyInv,
           gapc_encrypt_req_ind \/ AddrResolved, phase = "idle", phase' # "idle"
    PROVE  \/ cipher' = own[link.peer].ltk /\ phase' = "secured"
           \/ /\ cipher' = cipher /\ phase' = "closing"
              /\ \A s \in Slots : bdb.data[s].ltk # own[link.peer].ltk
<1>. DEFINE p == link.peer
<1>1. p \in Peers /\ own[p].ltk # 0 /\ AddressOf(link.addr, p) /\ ~pairing_in_progress
  BY DEF TypeInv, LinkInv, KeyInv, PairInv, PairingPhases, gapc_encrypt_req_ind, AddrResolved
<1>. SUFFICES \/ cipher' = own[p].ltk /\ phase' = "secured"
              \/ /\ cipher' = cipher /\ phase' = "closing"
                 /\ \A s \in Slots : bdb.data[s].ltk # own[p].ltk
  OBVIOUS
<1>. HIDE DEF p
<1>2. ASSUME NEW slot, AcceptIfFound(slot),
             slot # NotFound => bdb.data[slot].ltk = own[p].ltk,
             slot = NotFound => \A s \in Slots : bdb.data[s].ltk # own[p].ltk
      PROVE  \/ cipher' = own[p].ltk /\ phase' = "secured"
             \/ /\ cipher' = cipher /\ phase' = "closing"
                /\ \A s \in Slots : bdb.data[s].ltk # own[p].ltk
  BY <1>2 DEF AcceptIfFound, app_easy_security_accept_encryption, app_easy_security_reject_encryption
<1>3. ASSUME NEW type, NEW v, Sought(type, v, p), AcceptIfFound(Found(type, v))
      PROVE  \/ cipher' = own[p].ltk /\ phase' = "secured"
             \/ /\ cipher' = cipher /\ phase' = "closing"
                /\ \A s \in Slots : bdb.data[s].ltk # own[p].ltk
  BY <1>1, <1>2, <1>3, FoundBond
<1>4. CASE gapc_encrypt_req_ind
  <2>1. CASE AcceptIfFound(Found("EDIV", own[p].ltk))
    <3>. DEFINE S == {s \in Slots : bdb.data[s].ltk = own[p].ltk}
    <3>1. Found("EDIV", own[p].ltk) = First(S)
      BY DEF Found
    <3>2. First(S) # NotFound => First(S) \in S
      BY FirstSlot
    <3>3. First(S) = NotFound => S = {}
      BY FirstSlot
    <3>. QED
      BY <1>2, <2>1, <3>1, <3>2, <3>3
  <2>2. CASE /\ link.addr[1] # "rpa"
             /\ AcceptIfFound(Found(IF link.addr[1] = "id" THEN "ID" ELSE "BDA", link.addr[2]))
    <3>1. CASE link.addr = <<"public", p>> /\ p \notin Private
      <4>1. Sought("BDA", p, p) /\ AcceptIfFound(Found("BDA", p))
        BY <2>2, <3>1 DEF Sought
      <4>. QED
        BY <1>3, <4>1
    <3>2. CASE link.addr = <<"id", p>>
      <4>1. Sought("ID", p, p) /\ AcceptIfFound(Found("ID", p))
        BY <2>2, <3>2 DEF Sought
      <4>. QED
        BY <1>3, <4>1
    <3>. QED
      BY <1>1, <2>2, <3>1, <3>2 DEF AddressOf
  <2>3. CASE app_easy_security_resolve_bdaddr
    <3>1. StoredIrks = {} /\ app_easy_security_reject_encryption
      BY <2>3 DEF app_easy_security_resolve_bdaddr
    <3>2. Bonded = {}
      BY <3>1 DEF StoredIrks, BondInv, IsBond, Bonded
    <3>3. \A s \in Slots : bdb.data[s].ltk = 0
      BY <3>2 DEF Bonded, NoData
    <3>. QED
      BY <1>1, <3>1, <3>3 DEF app_easy_security_reject_encryption, p
  <2>. QED
    BY <1>1, <1>4, <2>1, <2>2, <2>3 DEF gapc_encrypt_req_ind, default_app_on_encrypt_req_ind, p
<1>5. CASE AddrResolved
  <2>1. /\ resolving.irk = own[p].irk
        /\ \A s \in Bonded : bdb.data[s].irk \in resolving.keys
    BY <1>5 DEF AddrResolved, KeyInv, p
  <2>2. CASE resolving.irk \in resolving.keys
    <3>1. Sought("IRK", own[p].irk, p) /\ AcceptIfFound(Found("IRK", own[p].irk))
      BY <1>5, <2>1, <2>2 DEF AddrResolved, Sought
    <3>. QED
      BY <1>3, <3>1
  <2>3. CASE resolving.irk \notin resolving.keys
    <3>1. AcceptIfFound(NotFound)
      BY <1>5, <2>3 DEF AddrResolved
    <3>2. ASSUME NEW s \in Slots
          PROVE  bdb.data[s].ltk # own[p].ltk
      <4>1. CASE s \notin Bonded
        BY <1>1, <4>1 DEF Bonded, NoData
      <4>2. CASE s \in Bonded
        <5>1. bdb.data[s].irk # own[p].irk /\ IsBond(bdb.data[s]) /\ KnowsBond(bdb.data[s])
          BY <2>1, <2>3, <4>2 DEF BondInv
        <5>2. bdb.data[s].id # p
          BY <1>1, <5>1, KeyTells DEF BondInv, IsBond
        <5>. QED
          BY <1>1, <5>1, <5>2 DEF KnowsBond
      <4>. QED
        BY <4>1, <4>2
    <3>. QED
      BY <1>2, <3>1, <3>2
  <2>. QED
    BY <2>2, <2>3
<1>. QED
  BY <1>4, <1>5 DEF p

(* The steps that give the host a key, or turn an idle link away.          *)
LEMMA KeyGiven ==
    ASSUME FaithfulPeers, TypeInv, PairInv, BondInv, KeyInv, [Next]_vars
    PROVE  /\ cipher' \notin {0, cipher} =>
                cipher' = IF phase = "keyed" THEN FreshKey ELSE own[link.peer].ltk
           /\ phase = "idle" /\ phase' = "closing" =>
                \A s \in Occupied : bdb.data[s].ltk # own[link.peer].ltk
<1>1. CASE gapc_encrypt_req_ind \/ AddrResolved
  <2>1. CASE phase = "idle" /\ phase' # "idle"
    BY <1>1, <2>1, Answered DEF Occupied
  <2>2. CASE phase = "idle" /\ phase' = "idle"
    <3>1. cipher' = cipher
      BY <1>1, <2>2
      DEF gapc_encrypt_req_ind, default_app_on_encrypt_req_ind, app_easy_security_resolve_bdaddr,
          app_easy_security_accept_encryption, app_easy_security_reject_encryption, AcceptIfFound,
          AddrResolved
    <3>. QED
      BY <2>2, <3>1
  <2>3. CASE phase # "idle"
    <3>1. CASE gapc_encrypt_req_ind
      <4>1. phase = "keyed" /\ pairing_in_progress
        BY <2>3, <3>1 DEF gapc_encrypt_req_ind, PairInv, PairingPhases
      <4>2. cipher' = sec_env.ltk
        BY <3>1, <4>1 DEF gapc_encrypt_req_ind, default_app_on_encrypt_req_ind,
           app_easy_security_accept_encryption
      <4>. QED
        BY <4>1, <4>2 DEF KeyInv
    <3>2. CASE AddrResolved
      <4>1. phase = "none"
        BY <2>3, <3>2 DEF AddrResolved, PairInv
      <4>. QED
        BY <3>2, <4>1 DEF AddrResolved
    <3>. QED
      BY <1>1, <3>1, <3>2
  <2>. QED
    BY <2>1, <2>2, <2>3
<1>2. CASE ~(gapc_encrypt_req_ind \/ AddrResolved)
  <2>1. cipher' \in {0, cipher} /\ ~(phase = "idle" /\ phase' = "closing")
    BY <1>2
    DEF Next, vars, dbVars, secVars, gapc_connection_req_ind, gapc_disconnect_ind, PairingReq, LtkExch,
        IrkExch, PairingSucceeds, PairingFails, PairingPhases, RemoveEntry, StoreReturns, StoreWaits,
        app_easy_security_ral_sync_with_bdb, Reset
  <2>. QED
    BY <2>1
<1>. QED
  BY <1>1, <1>2

(* The key given to the host for a link is the one the peer encrypts with. *)
THEOREM RightKeyIsAlwaysGiven ==
    ASSUME FaithfulPeers, LinkQuirks = {}, "ends_in_store" \notin FlashQuirks
    PROVE  Spec => RightKeyIsGiven
<1>1. TypeInv /\ PairInv /\ (BondInv /\ KeyInv) /\ [Next]_vars =>
        [cipher' \notin {0, cipher} =>
           cipher' = IF phase = "keyed" THEN FreshKey ELSE own[link.peer].ltk]_vars
  BY KeyGiven
<1>. QED
  BY <1>1, TypeCorrect, PairingIsStoredOnce, OneBondForEachPeer, PTL DEF Spec, RightKeyIsGiven

(* A peer whose bond is in the table is never turned away.                 *)
THEOREM BondedPeerIsAlwaysServed ==
    ASSUME FaithfulPeers, LinkQuirks = {}, "ends_in_store" \notin FlashQuirks
    PROVE  Spec => BondedPeerIsServed
<1>1. TypeInv /\ PairInv /\ (BondInv /\ KeyInv) /\ [Next]_vars =>
        [phase = "idle" /\ phase' = "closing" =>
           \A s \in Occupied : bdb.data[s].ltk # own[link.peer].ltk]_vars
  BY KeyGiven
<1>. QED
  BY <1>1, TypeCorrect, PairingIsStoredOnce, OneBondForEachPeer, PTL DEF Spec, BondedPeerIsServed
=============================================================================
