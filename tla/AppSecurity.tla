---------------------------- MODULE AppSecurity ----------------------------
(***************************************************************************)
(* Pairing and encryption of one link (app_security_task.c,                *)
(* app_easy_security.c and the default handlers), on top of the bond       *)
(* database: peers connect, pair, come back and ask for encryption with    *)
(* the key of their bond.  With controller privacy the resolving list of   *)
(* the controller (RAL) is filled from the database after a reset.         *)
(*                                                                         *)
(* The host and the peers are external: `phase' is what the host has told  *)
(* the application of the link, `own' what the peers know of themselves.   *)
(***************************************************************************)
EXTENDS BondDb

CONSTANTS
    Peers,         \* the public or identity addresses of the peers, positive
    IrksOf,        \* peer -> the resolving keys it may have; {0}: none
    Private,       \* peers that connect from random resolvable addresses
    Legacy,        \* peers that pair without Secure Connections
    RalSize,       \* entries for peers in the resolving list
    PrivacyModes,  \* builds: with controller privacy (TRUE) and without
    MaxPairings,   \* bound: completed pairings
    LinkQuirks     \* what links do beyond the ordinary, see below

(* "reconnect_in_save"  a link is lost and another one made while the bond *)
(*                      of the first is being stored (a sector erase)      *)
(* "silent_loss"        the host does not report GAPC_PAIRING_FAILED when  *)
(*                      a link is lost while it pairs                      *)
LinkQuirkNames == {"reconnect_in_save", "silent_loss"}

ASSUME PeerAssumption ==
    /\ Peers \subseteq Nat \ {0} /\ Private \subseteq Peers /\ Legacy \subseteq Peers
    /\ \A p \in Peers : IrksOf[p] \subseteq Nat /\ IrksOf[p] # {}
    /\ \A p \in Private : 0 \notin IrksOf[p]
ASSUME ModeAssumption == PrivacyModes \subseteq BOOLEAN /\ PrivacyModes # {}
ASSUME RalAssumption == RalSize \in Nat
ASSUME PairingAssumption == MaxPairings \in Nat
ASSUME LinkAssumption == LinkQuirks \subseteq LinkQuirkNames

VARIABLES
    link,                 \* NoLink, or the peer and the address it shows
    phase,                \* how far the link got, see Phases
    pairing_in_progress,  \* of app_env
    sec_env,              \* app_sec_env, the bond data in use
    cipher,               \* the key given to the host for this link, or 0
    resolving,            \* the address resolution under way, or NoResolving
    own,                  \* peer -> its resolving key and the key of its bond
    pairings,             \* completed pairings
    ral,                  \* controller's list: identity -> resolving key
    sync,                 \* app_easy_security_ral_sync_with_bdb, or NoSync
    privacy               \* the build

secVars == <<link, phase, pairing_in_progress, sec_env, cipher, resolving, own, pairings,
             ral, sync, privacy>>
vars == <<dbVars, secVars>>

NoLink      == [peer |-> 0, addr |-> NoAddr]
NoResolving == [irk |-> 0, keys |-> {}]
NoRal       == [p \in {} |-> 0]
NoSync      == [idx |-> 0, nb |-> -1]

PairingPhases == {"requested", "keyed", "encrypted", "identified"}
Phases == {"none", "idle", "secured", "closing"} \cup PairingPhases

Irks  == {0} \cup UNION {IrksOf[p] : p \in Peers}
Addrs == {NoAddr} \cup ({"public", "id"} \X Peers)
         \cup ({"rpa"} \X {100 * p + n : p \in Peers, n \in 0..MaxPairings})
Keys  == 0..MaxPairings
Entries == [bda : Addrs, irk : Irks, id : Peers \cup {0}, has_irk : BOOLEAN, ltk : Keys]
Tables == [valid : [Slots -> BOOLEAN], data : [Slots -> Entries],
           timestamp : [Slots -> Nat], timestamp_counter : Nat]

(* A sector without the headers of a table is none.                        *)
ASSUME SectorAssumption == Unreadable \notin Tables

TypeOK ==
    /\ bdb \in Tables /\ flash \in Tables \cup {Unreadable}
    /\ erasing \in BOOLEAN /\ powered \in BOOLEAN /\ gave_up \in BOOLEAN
    /\ stack \in Seq([pc : {"wait", "power_down"}, after : {"none", "paired"}])
    /\ Len(stack) <= MaxNesting
    /\ link \in [peer : Peers \cup {0}, addr : Addrs] /\ phase \in Phases
    /\ pairing_in_progress \in BOOLEAN /\ sec_env \in Entries /\ cipher \in Keys
    /\ resolving \in [irk : Irks, keys : SUBSET Irks]
    /\ own \in [Peers -> [irk : Irks, ltk : Keys]] /\ pairings \in Keys
    /\ DOMAIN ral \subseteq Peers \cup {0} /\ ral \in [DOMAIN ral -> Irks]
    /\ sync \in [idx : 0..NumSlots, nb : -1..NumSlots] /\ privacy \in BOOLEAN

Up == sync = NoSync
Handler == HandlersRun /\ Up

-----------------------------------------------------------------------------
(* The link. *)

HasRoom(list) == Cardinality(DOMAIN list) < RalSize

(* An identity gets into the list once, and only while there is room: the  *)
(* application asserts that there is (default_app_on_ral_cmp_evt), and a   *)
(* production build goes on without.                                       *)
Added(list, id, irk) ==
    IF HasRoom(list) /\ id \notin DOMAIN list
    THEN [i \in DOMAIN list \cup {id} |-> IF i = id THEN irk ELSE list[i]]
    ELSE list

Removed(list, id) == [i \in DOMAIN list \ {id} |-> list[i]]

(* The controller shows the identity of a peer whose key is in its list.   *)
AddrOf(p, irk) ==
    IF p \notin Private THEN <<"public", p>>
    ELSE IF privacy /\ p \in DOMAIN ral /\ ral[p] = irk THEN <<"id", p>>
    ELSE <<"rpa", 100 * p + pairings>>

(* What a peer may still know when it comes back: its owner may have       *)
(* deleted its bond or reset it altogether.                                *)
MayKnow(p) == {own[p]} \cup [irk : IrksOf[p], ltk : {0}]

(* An address resolution takes less time than a new connection. *)
gapc_connection_req_ind(p) ==
    /\ Handler
    /\ link = NoLink /\ resolving = NoResolving
    /\ pairing_in_progress /\ stack # << >> => "reconnect_in_save" \in LinkQuirks
    /\ \E known \in MayKnow(p) :
         /\ own' = [own EXCEPT ![p] = known]
         /\ link' = [peer |-> p, addr |-> AddrOf(p, known.irk)]
    /\ phase' = "idle"
    /\ UNCHANGED <<dbVars, pairing_in_progress, sec_env, cipher, resolving, pairings,
                   ral, sync, privacy>>

gapc_disconnect_ind ==
    /\ Handler
    /\ link # NoLink
    /\ phase \in PairingPhases => "silent_loss" \in LinkQuirks
    /\ link' = NoLink /\ phase' = "none" /\ cipher' = 0
    /\ UNCHANGED <<dbVars, pairing_in_progress, sec_env, resolving, own, pairings, ral,
                   sync, privacy>>

-----------------------------------------------------------------------------
(* Pairing: gapc_bond_req_ind_handler and gapc_bond_ind_handler. *)

PairingReq ==
    /\ Handler
    /\ phase = "idle" /\ resolving = NoResolving
    /\ own[link.peer].ltk = 0 /\ pairings < MaxPairings
    /\ phase' = "requested"
    /\ pairing_in_progress' = TRUE
    /\ sec_env' = [sec_env EXCEPT !.has_irk = FALSE]
    /\ UNCHANGED <<dbVars, link, cipher, resolving, own, pairings, ral, sync, privacy>>

FreshKey == pairings + 1

(* Secure Connections: the host hands over the key.  Legacy: the           *)
(* application makes it (app_sec_gen_ltk).                                 *)
LtkExch ==
    /\ Handler
    /\ phase = "requested"
    /\ phase' = "keyed"
    /\ sec_env' = [sec_env EXCEPT !.ltk = FreshKey]
    /\ UNCHANGED <<dbVars, link, pairing_in_progress, cipher, resolving, own, pairings, ral,
                   sync, privacy>>

(* The link is encrypted, by the keyed link or by the short term key. *)
Protected == phase = (IF link.peer \in Legacy THEN "keyed" ELSE "encrypted")

(* Mutant: the key only gets into the list at the next reset. *)
IrkExch_not_listed ==
    /\ Handler
    /\ Protected /\ own[link.peer].irk # 0
    /\ phase' = "identified"
    /\ sec_env' = [sec_env EXCEPT !.irk = own[link.peer].irk, !.id = link.peer, !.has_irk = TRUE]
    /\ UNCHANGED <<dbVars, link, pairing_in_progress, cipher, resolving, own, pairings, ral,
                   sync, privacy>>

IrkExch ==
    /\ Handler
    /\ Protected /\ own[link.peer].irk # 0
    /\ phase' = "identified"
    /\ sec_env' = [sec_env EXCEPT !.irk = own[link.peer].irk, !.id = link.peer, !.has_irk = TRUE]
    /\ ral' = IF privacy THEN Added(Removed(ral, link.peer), link.peer, own[link.peer].irk)
              ELSE ral
    /\ UNCHANGED <<dbVars, link, pairing_in_progress, cipher, resolving, own, pairings, sync,
                   privacy>>

PairingSucceeds ==
    /\ Handler
    /\ phase \in {"keyed", "encrypted", "identified"}
    /\ IF own[link.peer].irk = 0 THEN Protected ELSE phase = "identified"
    /\ phase' = "secured"
    /\ sec_env' = [sec_env EXCEPT !.bda = link.addr]
    /\ default_app_bdb_add_entry(sec_env', "paired")
    /\ own' = [own EXCEPT ![link.peer].ltk = FreshKey]
    /\ pairings' = FreshKey
    /\ UNCHANGED <<link, pairing_in_progress, cipher, resolving, ral, sync, privacy>>

(* Mutant: the flag stays set. *)
PairingFails_in_progress ==
    /\ Handler
    /\ phase \in PairingPhases
    /\ phase' = "closing"
    /\ UNCHANGED <<dbVars, link, pairing_in_progress, sec_env, cipher, resolving, own, pairings,
                   ral, sync, privacy>>

PairingFails ==
    /\ Handler
    /\ phase \in PairingPhases
    /\ phase' = "closing"
    /\ pairing_in_progress' = FALSE
    /\ UNCHANGED <<dbVars, link, sec_env, cipher, resolving, own, pairings, ral, sync, privacy>>

-----------------------------------------------------------------------------
(* Encryption: default_app_on_encrypt_req_ind and what follows. *)

app_easy_security_accept_encryption(env) ==
    /\ sec_env' = env
    /\ cipher' = env.ltk
    /\ phase' = IF phase = "keyed" THEN "encrypted" ELSE "secured"

app_easy_security_reject_encryption ==
    /\ phase' = "closing"
    /\ UNCHANGED <<sec_env, cipher>>

AcceptIfFound(slot) ==
    IF slot # NotFound THEN app_easy_security_accept_encryption(bdb.data[slot])
    ELSE app_easy_security_reject_encryption

StoredIrks == {bdb.data[s].irk : s \in {t \in Slots : bdb.data[t].has_irk}}

(* A random resolvable address is given to the host with the stored keys. *)
app_easy_security_resolve_bdaddr ==
    IF StoredIrks = {} THEN app_easy_security_reject_encryption /\ UNCHANGED resolving
    ELSE /\ resolving' = [irk |-> own[link.peer].irk, keys |-> StoredIrks]
         /\ UNCHANGED <<sec_env, cipher, phase>>

default_app_on_encrypt_req_ind ==
    \/ /\ pairing_in_progress
       /\ app_easy_security_accept_encryption(sec_env)
       /\ UNCHANGED resolving
    \/ /\ ~pairing_in_progress /\ phase = "idle" /\ link.peer \in Legacy
       /\ AcceptIfFound(Found("EDIV", own[link.peer].ltk))
       /\ UNCHANGED resolving
    \/ /\ ~pairing_in_progress /\ (phase = "keyed" \/ link.peer \notin Legacy)
       /\ link.addr[1] # "rpa"
       /\ AcceptIfFound(Found(IF link.addr[1] = "id" THEN "ID" ELSE "BDA", link.addr[2]))
       /\ UNCHANGED resolving
    \/ /\ ~pairing_in_progress /\ (phase = "keyed" \/ link.peer \notin Legacy)
       /\ link.addr[1] = "rpa"
       /\ app_easy_security_resolve_bdaddr

(* A peer with a bond asks for encryption, and so does pairing with Secure *)
(* Connections once both sides have computed the key.                      *)
gapc_encrypt_req_ind ==
    /\ Handler
    /\ resolving = NoResolving
    /\ \/ phase = "idle" /\ own[link.peer].ltk # 0
       \/ phase = "keyed" /\ link.peer \notin Legacy
    /\ default_app_on_encrypt_req_ind
    /\ UNCHANGED <<dbVars, link, pairing_in_progress, own, pairings, ral, sync, privacy>>

(* The answer of the host: default_app_on_addr_solved_ind or               *)
(* default_app_on_addr_resolve_failed.  The link may be gone by now.       *)
AddrResolved ==
    /\ Handler
    /\ resolving # NoResolving
    /\ resolving' = NoResolving
    /\ LET slot == IF resolving.irk \in resolving.keys THEN Found("IRK", resolving.irk)
                   ELSE NotFound
       IN IF phase # "none" THEN AcceptIfFound(slot)
          ELSE /\ sec_env' = IF slot # NotFound THEN bdb.data[slot] ELSE sec_env
               /\ UNCHANGED <<phase, cipher>>
    /\ UNCHANGED <<dbVars, link, pairing_in_progress, own, pairings, ral, sync, privacy>>

-----------------------------------------------------------------------------
(* The database at work. *)

(* The application removes bonds, from a button or a command. *)
RemoveEntry ==
    /\ Handler
    /\ \E s \in Slots \cup {Found("BDA", p) : p \in Peers}, which \in {"THIS", "ALL_BUT_THIS", "ALL"} :
         default_app_bdb_remove_entry(s, which)
    /\ UNCHANGED secVars

(* A store returns to its caller; the pairing handler then clears its flag. *)
StoreReturns ==
    /\ EraseDone \/ PowerDown
    /\ pairing_in_progress' = (pairing_in_progress /\ Top.after # "paired")
    /\ UNCHANGED <<link, phase, sec_env, cipher, resolving, own, pairings, ral, sync, privacy>>

StoreWaits == (EraseEnds \/ EraseTimesOut) /\ UNCHANGED secVars

(* Controller privacy: the list is filled before anything else happens.    *)
(* The index moves only when its slot holds a resolving key.               *)
app_easy_security_ral_sync_with_bdb ==
    /\ ~Up
    /\ IF sync.idx < sync.nb
       THEN LET found == bdb.valid[sync.idx] /\ bdb.data[sync.idx].has_irk IN
            /\ sync' = IF found THEN [sync EXCEPT !.idx = sync.idx + 1] ELSE sync
            /\ ral' = IF found THEN Added(ral, bdb.data[sync.idx].id, bdb.data[sync.idx].irk)
                      ELSE ral
       ELSE sync' = NoSync /\ UNCHANGED ral
    /\ UNCHANGED <<dbVars, link, phase, pairing_in_progress, sec_env, cipher, resolving, own,
                   pairings, privacy>>

NumberOfIrks(table) == Cardinality({s \in Slots : table.data[s].has_irk})

(* The device resets: the peers keep what they know. *)
Reset ==
    /\ default_app_bdb_init
    /\ link' = NoLink /\ phase' = "none" /\ cipher' = 0 /\ resolving' = NoResolving
    /\ pairing_in_progress' = FALSE /\ sec_env' = NoData /\ ral' = NoRal
    /\ sync' = IF privacy THEN [idx |-> 0, nb |-> NumberOfIrks(bdb')] ELSE NoSync
    /\ UNCHANGED <<own, pairings, privacy>>

Init ==
    /\ DbInit
    /\ link = NoLink /\ phase = "none" /\ cipher = 0 /\ resolving = NoResolving
    /\ pairing_in_progress = FALSE /\ sec_env = NoData /\ ral = NoRal /\ sync = NoSync
    /\ own \in [Peers -> [irk : Irks, ltk : {0}]]
    /\ \A p \in Peers : own[p].irk = Lowest(IrksOf[p])
    /\ pairings = 0
    /\ privacy \in PrivacyModes

Next ==
    \/ \E p \in Peers : gapc_connection_req_ind(p)
    \/ gapc_disconnect_ind
    \/ PairingReq \/ LtkExch \/ IrkExch \/ PairingSucceeds \/ PairingFails
    \/ gapc_encrypt_req_ind \/ AddrResolved
    \/ RemoveEntry \/ StoreReturns \/ StoreWaits
    \/ app_easy_security_ral_sync_with_bdb
    \/ Reset

Spec == Init /\ [][Next]_vars

(* The loop that fills the list runs without a break. *)
FairSpec == Spec /\ WF_vars(app_easy_security_ral_sync_with_bdb)

-----------------------------------------------------------------------------
(* Properties. *)

(* A key given to the host for a link is the key the peer encrypts with:   *)
(* that of the pairing under way, or of the last bond with this peer.      *)
RightKeyIsGiven ==
    [][cipher' \notin {0, cipher} =>
         cipher' = IF phase = "keyed" THEN FreshKey ELSE own[link.peer].ltk]_vars

(* A peer is only turned away (default_app_on_encrypt_req_ind rejects) if  *)
(* the database has no entry with the key of its bond any more.            *)
BondedPeerIsServed ==
    [][phase = "idle" /\ phase' = "closing" =>
         \A s \in Occupied : bdb.data[s].ltk # own[link.peer].ltk]_vars

(* The flag the encryption handler goes by agrees with the host: set while *)
(* the link pairs, and clear again when the link has paired and the bond   *)
(* is stored, or when it has failed.                                       *)
PairingFlagAgrees ==
    /\ phase \in PairingPhases => pairing_in_progress
    /\ stack = << >> /\ phase \notin PairingPhases => ~pairing_in_progress

(* With controller privacy the list of the controller has the identity and *)
(* the resolving key of every bond, so bonded peers are seen under their   *)
(* identity, as long as it has room: bonds that are removed or replaced    *)
(* stay in the list until the next reset, and may fill it.                 *)
InRal(d) == d.id \in DOMAIN ral /\ ral[d.id] = d.irk

BondedIdentityIsListed ==
    privacy /\ Up /\ HasRoom(ral) =>
        \A s \in Occupied : bdb.data[s].has_irk => InRal(bdb.data[s])

(* Filling the resolving list comes to an end, unless another reset cuts   *)
(* it short (app_easy_security_ral_sync_with_bdb returns).                 *)
RalSyncEnds == <>[][~Reset]_vars => (~Up ~> Up)

Table == INSTANCE BondTable WITH
    Bonds <- Entries, Empty <- NoBond,
    table <- TableOf(bdb), saved <- TableOf(IF flash = Unreadable THEN Cleared ELSE flash)

(* The database keeps the promise of BondTable, through stores inside      *)
(* stores and resets in the middle of them: this is Table!Spec, with the   *)
(* steps that touch neither the table nor the sector named as stuttering.  *)
ImplementsBondTable ==
    Table!Init /\ [][UNCHANGED <<bdb, flash>> \/ Table!Next]_(Table!tableVars)
=============================================================================
