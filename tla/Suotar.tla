------------------------------- MODULE Suotar -------------------------------
(***************************************************************************)
(* The SUOTA receiver (app_suotar.c, app_suotar_task.c): an initiator on   *)
(* the BLE link sends a firmware image in blocks, the receiver writes it   *)
(* to the bank of the older image and sets its valid flag at the end, and  *)
(* the secondary bootloader picks the image to run after a reset.          *)
(*                                                                         *)
(* A handler that writes the flash is a job of single flash operations:    *)
(* power can be lost and an operation can fail between any two of them.    *)
(* Nothing else happens during a job, the handlers run to completion.      *)
(***************************************************************************)
EXTENDS UpdateFlash, Sequences, FiniteSets

CONSTANTS
    PdSize,           \* SUOTA_OVERALL_PD_SIZE, the block buffer, in units
    FactoryImages,    \* what production programs into the two banks
    InitiatorHabits,  \* what the initiator does beyond the protocol, see below
    FlashFaults       \* the flash operations that may fail

(* "force_bank"    ask for bank 1 or 2 instead of the older one            *)
(* "end_early"     end the session before the whole image was sent         *)
(* "stray"         send requests outside of a session, for other devices   *)
(*                 or of a wrong length                                    *)
(* "any_data"      send lengths and pieces of any image at any time,       *)
(*                 whatever the last status said                           *)
Habits == {"force_bank", "end_early", "stray", "any_data"}
Faults == {"read", "erase", "write"}

ASSUME PdAssumption == PdSize \in 1..SectorSize
ASSUME FactoryAssumption ==
    FactoryImages \subseteq [Banks -> Versions \cup {Nothing}]
ASSUME ChoiceAssumption == InitiatorHabits \subseteq Habits /\ FlashFaults \subseteq Faults

VARIABLES
    flash,        \* address -> contents
    running,      \* the image the device runs: what the last reset loaded
    suota_state,  \* the RAM of the receiver; pd holds the first
                  \* suota_block_idx units of suota_all_pd
    job,          \* the flash operations left in the handler that runs
    connected,
    status,       \* the last status notification the initiator got
    peer          \* the initiator: image it sends, units of it sent, and
                  \* sent units at the start of the current block

vars == <<flash, running, suota_state, job, connected, status, peer>>

Devices  == {"IMG_SPI_FLASH", "IMG_I2C_EEPROM", "IMG_INT"}
Statuses == {"NONE", "IMG_STARTED", "CMP_OK", "SRV_EXIT", "CRC_ERR", "PATCH_LEN_ERR",
             "INT_MEM_ERR", "INVAL_MEM_TYPE", "EXT_MEM_READ_ERR", "EXT_MEM_WRITE_ERR",
             "INVAL_IMG_BANK", "INVAL_IMG_HDR", "INVAL_IMG_SIZE", "INVAL_PRODUCT_HDR",
             "SAME_IMG_ERR"}

(* The file of an image: header, code and, last, a unit that makes the     *)
(* XOR of the file zero.                                                   *)
ADDITINAL_CRC_SIZE == 1
FileLen(v) == ImageLen[v] + ADDITINAL_CRC_SIZE
File(v)    == {Chunk(v, p) : p \in 0..(FileLen(v) - 1)}

NoPeer == [ver |-> Nothing, sent |-> 0, blk |-> 0]
NoJob  == [kind |-> "none", ops |-> << >>]

app_suotar_init ==
    [mem_dev |-> "INVAL_DEV", mem_base_add |-> 0, gpio_map |-> FALSE,
     new_patch_len |-> 0, suota_image_bank |-> 0, pd |-> << >>, suota_img_idx |-> 0,
     crc_calc |-> {}, suota_image_len |-> 0, reboot_requested |-> FALSE]

(* A single flash operation; an unchecked one may fail unnoticed. *)
EraseOp(a, checked) == [op |-> "erase", at |-> SectorOf(a), unit |-> Blank, checked |-> checked]
ProgramOp(a, u)     == [op |-> "program", at |-> a, unit |-> u, checked |-> TRUE]
FlagOp(a)           == [op |-> "flag", at |-> a, unit |-> Blank, checked |-> TRUE]
FlashOps == [op : {"erase", "program", "flag"}, at : Addresses, unit : Contents,
             checked : BOOLEAN]

app_suota_state ==
    [mem_dev : Devices \cup {"INVAL_DEV"}, mem_base_add : Addresses,
     gpio_map : BOOLEAN, new_patch_len : 0..PdSize, suota_image_bank : 0..2,
     pd : Seq(Chunks), suota_img_idx : 0..(BankSize + 1), crc_calc : SUBSET Chunks,
     suota_image_len : Nat, reboot_requested : BOOLEAN]
Peers == [ver : Versions \cup {Nothing}, sent : Nat, blk : Nat]

TypeOK ==
    /\ flash \in [Addresses -> Contents]
    /\ running \in Versions \cup {Nothing, Corrupt}
    /\ suota_state \in app_suota_state
    /\ job \in [kind : {"none", "block", "end"}, ops : Seq(FlashOps)]
    /\ connected \in BOOLEAN
    /\ status \in Statuses
    /\ peer \in Peers

(* What mkimage and the production tool put into the flash: images with a  *)
(* valid flag and image id 0xFF.                                           *)
FactoryUnit(images, a) ==
    LET InBank == {b \in Banks : /\ images[b] # Nothing
                                 /\ a \in Offset(b)..(Offset(b) + ImageLen[images[b]] - 1)}
    IN  IF a < Offset(1) \/ a >= ProductHeader THEN Foreign
        ELSE IF InBank = {} THEN Blank
        ELSE LET b == CHOOSE b \in InBank : TRUE
             IN  IF a = Offset(b) THEN Header(images[b], MaxId, TRUE)
                 ELSE Chunk(images[b], a - Offset(b))

Init ==
    /\ \E images \in FactoryImages :
          flash = [a \in Addresses |-> FactoryUnit(images, a)]
    /\ running = loadActiveImage(flash)
    /\ suota_state = app_suotar_init
    /\ job = NoJob
    /\ connected = FALSE
    /\ status = "NONE"
    /\ peer = NoPeer

Idle == running \in Versions /\ job = NoJob

-----------------------------------------------------------------------------
(* Choice of the bank and of the image id (app_read_image_headers). *)

(* Mutant: the newer image is taken for the older one. *)
app_find_new_img(id1, id2) ==
    CASE id1 = MaxId /\ id2 = MaxId -> 1
      [] id1 = MaxId /\ id2 = 0 -> 2
      [] id2 = MaxId /\ id1 = 0 -> 1
      [] OTHER -> IF id1 > id2 THEN 1 ELSE 2

app_find_old_img(id1, id2) ==
    CASE id1 = MaxId /\ id2 = MaxId -> 1
      [] id1 = MaxId /\ id2 = 0 -> 1
      [] id2 = MaxId /\ id1 = 0 -> 2
      [] OTHER -> IF id1 > id2 THEN 2 ELSE 1

(* Mutant: the id overflows its byte. *)
app_get_image_id_overflow(id) == id + 1

app_get_image_id(id) == IF id = MaxId THEN 0 ELSE id + 1

(* Mutant: the first bank, whatever it holds. *)
new_bank_first == 1

new_bank ==
    LET bank == suota_state.suota_image_bank
    IN  CASE bank # 0 -> bank
          [] bank = 0 /\ ~IsValid(flash, 1) -> 1
          [] bank = 0 /\ IsValid(flash, 1) /\ ~IsValid(flash, 2) -> 2
          [] OTHER -> app_find_old_img(HeaderOf(flash, 1).id, HeaderOf(flash, 2).id)

(* Mutant: the id of the image that is overwritten is counted up. *)
imageid_own(b) ==
    IF IsValid(flash, b) THEN app_get_image_id(HeaderOf(flash, b).id) ELSE 1

imageid(b) ==
    IF IsValid(flash, 3 - b) THEN app_get_image_id(HeaderOf(flash, 3 - b).id) ELSE 1

(* Mutant: the header is written with its valid flag. *)
NewHeader_valid(v, b) == Header(v, imageid(b), TRUE)

NewHeader(v, b) == Header(v, imageid(b), FALSE)

(* The reasons to refuse the first block, in the order of the code. *)
HeaderStatus(first, b) ==
    LET v == first.ver
    IN  IF first.pos # 0 THEN "INVAL_IMG_HDR"
        ELSE IF flash[ProductHeader] # Foreign \/ ~suota_state.gpio_map
             THEN "INVAL_PRODUCT_HDR"
        ELSE IF ImageLen[v] - 1 > BankSize - 1 THEN "INVAL_IMG_SIZE"
        ELSE IF IsValid(flash, b) /\ HeaderOf(flash, b).ver = v THEN "SAME_IMG_ERR"
        ELSE "CMP_OK"

(* app_flash_write_data with delayed sector erase: a write that starts at  *)
(* a sector erases it first, one that reaches the end of its sector erases *)
(* the next one; the result of the erase is not looked at.                 *)
(* Mutant: a write that starts at a sector erases nothing. *)
DelayedErase_none(a, size) == << >>

DelayedErase(a, size) ==
    IF SectorOf(a) = a THEN <<EraseOp(a, FALSE)>>
    ELSE IF SectorOf(a + size) # SectorOf(a) THEN <<EraseOp(a + size, FALSE)>>
    ELSE << >>

app_flash_write_data(a, units) ==
    DelayedErase(a, Len(units)) \o [i \in 1..Len(units) |-> ProgramOp(a + i - 1, units[i])]

app_read_image_headers(b, block) ==
    <<EraseOp(Offset(b), TRUE)>>
        \o app_flash_write_data(Offset(b), <<NewHeader(block[1].ver, b)>>)
        \o app_flash_write_data(Offset(b) + 1, Tail(block))

-----------------------------------------------------------------------------
(* The handler of a complete block (app_suotar_img_hdlr). *)

(* XOR of the block into crc_calc; the XOR of distinct units is taken to   *)
(* be zero only for whole files.                                           *)
Xor(crc, block) ==
    LET odd == {c \in {block[i] : i \in DOMAIN block} :
                    Cardinality({i \in DOMAIN block : block[i] = c}) % 2 = 1}
    IN  (crc \ odd) \cup (odd \ crc)

IsZero(crc) == \A v \in Versions : {c \in crc : c.ver = v} \in {{}, File(v)}

FirstUnits(block, n) == SubSeq(block, 1, IF n < Len(block) THEN n ELSE Len(block))

(* The first block: choose the bank, check the header, prepare the flash.  *)
FirstBlock(crc, block) ==
    LET s      == suota_state
        b      == new_bank
        len    == IF block[1].pos = 0 THEN ImageLen[block[1].ver] ELSE s.suota_image_len
        Refuse(why) ==
            /\ suota_state' = [s EXCEPT !.crc_calc = crc, !.suota_image_len = len, !.pd = << >>]
            /\ status' = why
            /\ UNCHANGED job
    IN  \/ /\ HeaderStatus(block[1], b) = "CMP_OK"
           /\ suota_state' = [s EXCEPT !.crc_calc = crc, !.suota_image_len = len, !.pd = block,
                                       !.mem_base_add = Offset(b)]
           /\ job' = [kind |-> "block", ops |-> app_read_image_headers(b, block)]
           /\ UNCHANGED status
        \/ /\ HeaderStatus(block[1], b) # "CMP_OK"
           /\ Refuse(HeaderStatus(block[1], b))
        \/ /\ "read" \in FlashFaults /\ block[1].pos = 0
           /\ Refuse("EXT_MEM_READ_ERR")

(* A later block: the trailing checksum unit is not written. *)
LaterBlock(crc, block) ==
    LET s    == suota_state
        code == FirstUnits(block, s.suota_image_len - s.suota_img_idx)
    IN  \/ /\ s.suota_image_len + ADDITINAL_CRC_SIZE >= s.suota_img_idx + Len(block)
           /\ suota_state' = [s EXCEPT !.crc_calc = crc, !.pd = code]
           /\ job' = [kind |-> "block",
                      ops  |-> app_flash_write_data(s.mem_base_add + s.suota_img_idx, code)]
           /\ UNCHANGED status
        \/ /\ s.suota_image_len + ADDITINAL_CRC_SIZE < s.suota_img_idx + Len(block)
           /\ suota_state' = [s EXCEPT !.crc_calc = crc, !.pd = << >>]
           /\ status' = "EXT_MEM_WRITE_ERR"
           /\ UNCHANGED job

app_suotar_img_hdlr(block) ==
    LET s   == suota_state
        crc == Xor(s.crc_calc, block)
    IN  \/ s.mem_dev = "IMG_SPI_FLASH" /\ s.suota_img_idx = 0 /\ FirstBlock(crc, block)
        \/ s.mem_dev = "IMG_SPI_FLASH" /\ s.suota_img_idx # 0 /\ LaterBlock(crc, block)
        \/ /\ s.mem_dev # "IMG_SPI_FLASH"
           /\ suota_state' = [s EXCEPT !.crc_calc = crc, !.pd = block]
           /\ status' = "INVAL_MEM_TYPE"
           /\ UNCHANGED job

-----------------------------------------------------------------------------
(* The flash operations of the handler that runs. *)

Applied(o) ==
    CASE o.op = "erase"   -> Erase(flash, o.at)
      [] o.op = "program" -> Program(flash, o.at, o.unit)
      [] o.op = "flag"    -> SetFlag(flash, o.at)

flash_operation ==
    /\ job.ops # << >>
    /\ flash' = Applied(Head(job.ops))
    /\ job' = [job EXCEPT !.ops = Tail(@)]
    /\ UNCHANGED <<running, suota_state, connected, status, peer>>

CanFail(o) == IF o.op = "erase" THEN "erase" \in FlashFaults ELSE "write" \in FlashFaults

(* An erase inside app_flash_write_data fails and the write goes on. *)
unchecked_fault ==
    /\ job.ops # << >> /\ CanFail(Head(job.ops)) /\ ~Head(job.ops).checked
    /\ job' = [job EXCEPT !.ops = Tail(@)]
    /\ UNCHANGED <<flash, running, suota_state, connected, status, peer>>

(* app_suotar_stop and app_suotar_reset. *)
Stopped(s) == [s EXCEPT !.mem_dev = "INVAL_DEV", !.pd = << >>, !.new_patch_len = 0]

(* The handler gives up at the first operation that fails. *)
checked_fault ==
    /\ job.ops # << >> /\ CanFail(Head(job.ops)) /\ Head(job.ops).checked
    /\ suota_state' = IF job.kind = "end" THEN Stopped(suota_state)
                      ELSE [suota_state EXCEPT !.pd = << >>]
    /\ job' = NoJob
    /\ status' = "EXT_MEM_WRITE_ERR"
    /\ peer' = IF job.kind = "end" THEN NoPeer ELSE peer
    /\ UNCHANGED <<flash, running, connected>>

handler_returns ==
    /\ job.kind # "none" /\ job.ops = << >>
    /\ suota_state' = IF job.kind = "end" THEN Stopped(suota_state)
                      ELSE [suota_state EXCEPT !.pd = << >>,
                                               !.suota_img_idx = @ + Len(suota_state.pd)]
    /\ job' = NoJob
    /\ status' = "CMP_OK"
    /\ peer' = IF job.kind = "end" THEN NoPeer ELSE [peer EXCEPT !.blk = peer.sent]
    /\ UNCHANGED <<flash, running, connected>>

-----------------------------------------------------------------------------
(* The messages of the initiator.  It follows the protocol: after an error *)
(* status it starts again, or sends again the block the flash refused, and *)
(* it ends the session after the whole file, unless it has other habits.   *)

Listening == Idle /\ connected
MayGoOn   == status \in {"NONE", "IMG_STARTED", "CMP_OK"}
Sending   == peer.ver # Nothing
Strays    == "stray" \in InitiatorHabits
AnyData   == "any_data" \in InitiatorHabits
BlockDone == peer.sent = peer.blk

peer_sends_again ==
    /\ Listening /\ status \in {"EXT_MEM_WRITE_ERR", "EXT_MEM_READ_ERR"}
    /\ peer' = [peer EXCEPT !.sent = peer.blk]
    /\ status' = "NONE"
    /\ UNCHANGED <<flash, running, suota_state, job, connected>>

(* The lengths announced: of the pieces that are left, if not astray. *)
MayAnnounce(len) ==
    \/ MayGoOn /\ BlockDone /\ Strays
    \/ MayGoOn /\ BlockDone /\ Sending /\ len \in 1..(FileLen(peer.ver) - peer.sent)
    \/ AnyData

suotar_patch_len_ind(len) ==
    /\ Listening /\ MayAnnounce(len)
    /\ \/ /\ len = 0
          /\ status' = "PATCH_LEN_ERR"
          /\ UNCHANGED suota_state
       \/ /\ len # 0 /\ suota_state.mem_dev = "INVAL_DEV"
          /\ UNCHANGED <<status, suota_state>>
       \/ /\ len > PdSize /\ suota_state.mem_dev \in Devices
          /\ status' = "INT_MEM_ERR"
          /\ UNCHANGED suota_state
       \/ /\ len \in 1..PdSize /\ suota_state.mem_dev \in Devices
          /\ suota_state' = [suota_state EXCEPT !.new_patch_len = len]
          /\ UNCHANGED status
    /\ UNCHANGED <<flash, running, job, connected, peer>>

(* Data is taken whenever a device is selected and a length announced.     *)
suotar_patch_data_ind(units) ==
    LET s     == suota_state
        block == s.pd \o units
    IN  \/ /\ s.mem_dev = "INVAL_DEV"
           /\ status' = "INVAL_MEM_TYPE"
           /\ UNCHANGED <<suota_state, job>>
        \/ /\ s.mem_dev \in Devices /\ s.new_patch_len = 0
           /\ status' = "PATCH_LEN_ERR"
           /\ UNCHANGED <<suota_state, job>>
        \/ /\ s.mem_dev \in Devices /\ s.new_patch_len # 0 /\ Len(block) > PdSize
           /\ status' = "INT_MEM_ERR"
           /\ UNCHANGED <<suota_state, job>>
        \/ /\ s.mem_dev \in Devices /\ s.new_patch_len # 0
           /\ Len(block) <= PdSize /\ Len(block) # s.new_patch_len
           /\ suota_state' = [s EXCEPT !.pd = block]
           /\ status' = IF Len(block) > s.new_patch_len THEN "PATCH_LEN_ERR" ELSE status
           /\ UNCHANGED job
        \/ /\ s.mem_dev \in Devices /\ Len(block) = s.new_patch_len
           /\ app_suotar_img_hdlr(block)

Piece(v, p, n) == [i \in 1..n |-> Chunk(v, p + i - 1)]

(* The next n units of the file, if the initiator follows the protocol. *)
InTurn(v, p, n) ==
    /\ MayGoOn /\ v = peer.ver /\ p = peer.sent
    /\ Strays \/ (/\ suota_state.new_patch_len # 0
                  /\ Len(suota_state.pd) + n <= suota_state.new_patch_len)

peer_sends_data(v, p, n) ==
    /\ Listening /\ (InTurn(v, p, n) \/ AnyData)
    /\ suotar_patch_data_ind(Piece(v, p, n))
    /\ peer' = IF v = peer.ver /\ p = peer.sent THEN [peer EXCEPT !.sent = @ + n] ELSE peer
    /\ UNCHANGED <<flash, running, connected>>

suotar_gpio_map_ind ==
    /\ Listening
    /\ suota_state' = [suota_state EXCEPT !.gpio_map = TRUE]
    /\ status' = IF suota_state.mem_dev \in {"IMG_SPI_FLASH", "IMG_I2C_EEPROM"}
                 THEN status ELSE "INVAL_MEM_TYPE"
    /\ UNCHANGED <<flash, running, job, connected, peer>>

(* Mutant: the image index of the last session is kept. *)
Started_keeps_img_idx(s) == [s EXCEPT !.pd = << >>, !.new_patch_len = 0, !.crc_calc = {}]

Started(s) == [s EXCEPT !.pd = << >>, !.suota_img_idx = 0, !.new_patch_len = 0,
                        !.crc_calc = {}]

(* The bank number is also stored as base address, in unit 0, and stays    *)
(* when it is refused, as do the index, the announced length and the XOR.  *)
Selected(dev) == [suota_state EXCEPT !.mem_dev = dev, !.mem_base_add = 0]

(* The requests of app_suotar_read_mem, one disjunct of its switch each.   *)
start_session(dev, bank, v) ==
    /\ dev \in {"IMG_SPI_FLASH", "IMG_I2C_EEPROM"}
    /\ bank \in {1, 2} => "force_bank" \in InitiatorHabits
    /\ dev # "IMG_SPI_FLASH" \/ bank > 2 => Strays
    /\ \/ /\ bank <= 2
          /\ suota_state' = Started([Selected(dev) EXCEPT !.suota_image_bank = bank])
          /\ status' = "IMG_STARTED"
          /\ peer' = [ver |-> v, sent |-> 0, blk |-> 0]
       \/ /\ bank > 2
          /\ suota_state' = Selected(dev)
          /\ status' = "INVAL_IMG_BANK"
          /\ peer' = NoPeer
    /\ UNCHANGED job

select_internal ==
    /\ Strays
    /\ suota_state' = Selected("IMG_INT")
    /\ status' = "INVAL_MEM_TYPE"
    /\ peer' = NoPeer
    /\ UNCHANGED job

service_exit ==
    /\ suota_state' = Stopped(suota_state)
    /\ status' = "SRV_EXIT"
    /\ peer' = NoPeer
    /\ UNCHANGED job

MayEnd == \/ Sending /\ peer.sent = FileLen(peer.ver) /\ BlockDone /\ MayGoOn
          \/ "end_early" \in InitiatorHabits

image_end ==
    /\ MayEnd
    /\ \/ /\ ~IsZero(suota_state.crc_calc)
          /\ suota_state' = Stopped(suota_state)
          /\ status' = "CRC_ERR"
          /\ peer' = NoPeer
          /\ UNCHANGED job
       \/ /\ IsZero(suota_state.crc_calc) /\ suota_state.mem_dev # "IMG_SPI_FLASH"
          /\ suota_state' = Stopped(suota_state)
          /\ status' = "EXT_MEM_WRITE_ERR"
          /\ peer' = NoPeer
          /\ UNCHANGED job
       \/ /\ IsZero(suota_state.crc_calc) /\ suota_state.mem_dev = "IMG_SPI_FLASH"
          /\ job' = [kind |-> "end", ops |-> <<FlagOp(suota_state.mem_base_add)>>]
          /\ UNCHANGED <<suota_state, status, peer>>

request_reboot ==
    /\ suota_state' = [suota_state EXCEPT !.reboot_requested = TRUE]
    /\ UNCHANGED <<job, status, peer>>

(* Also a device for patches, of which only the base address is stored.    *)
unknown_device ==
    /\ Strays
    /\ \/ suota_state' = [suota_state EXCEPT !.mem_dev = "INVAL_DEV"]
       \/ suota_state' = Selected("INVAL_DEV")
    /\ status' = "INVAL_MEM_TYPE"
    /\ peer' = NoPeer
    /\ UNCHANGED job

suotar_patch_mem_dev_ind ==
    /\ Listening
    /\ \/ \E dev \in Devices, bank \in 0..3, v \in Versions : start_session(dev, bank, v)
       \/ select_internal
       \/ service_exit
       \/ image_end
       \/ request_reboot
       \/ unknown_device
    /\ UNCHANGED <<flash, running, connected>>

-----------------------------------------------------------------------------
(* The link and the power supply. *)

Restart ==
    /\ running' = loadActiveImage(flash)
    /\ suota_state' = app_suotar_init
    /\ job' = NoJob
    /\ connected' = FALSE
    /\ status' = "NONE"
    /\ peer' = NoPeer
    /\ UNCHANGED flash

Connect ==
    /\ Idle /\ ~connected
    /\ connected' = TRUE
    /\ UNCHANGED <<flash, running, suota_state, job, status, peer>>

(* The receiver keeps its session, only the status value is reset; the     *)
(* application restarts the chip when a reboot was requested.              *)
Disconnect ==
    /\ Listening
    /\ IF suota_state.reboot_requested THEN Restart
       ELSE /\ connected' = FALSE
            /\ status' = "NONE"
            /\ peer' = NoPeer
            /\ UNCHANGED <<flash, running, suota_state, job>>

(* Power is lost, also in the middle of a handler. *)
PowerCycle == Restart

Next ==
    \/ suotar_patch_mem_dev_ind
    \/ \E len \in 0..(PdSize + 1) : suotar_patch_len_ind(len)
    \/ \E v \in Versions, n \in 1..PdSize : \E p \in 0..(FileLen(v) - n) : peer_sends_data(v, p, n)
    \/ suotar_gpio_map_ind
    \/ flash_operation \/ unchecked_fault \/ checked_fault \/ handler_returns
    \/ peer_sends_again
    \/ Connect \/ Disconnect \/ PowerCycle

Spec == Init /\ [][Next]_vars

-----------------------------------------------------------------------------
(* Properties. *)

(* A reset at any moment boots an intact image: neither a power loss in    *)
(* the middle of an update nor a failed one leaves the device without.     *)
AlwaysBootable == loadActiveImage(flash) \in Versions

(* The valid flag "set to STATUS_VALID_IMAGE at the end of the image       *)
(* update" (app_suotar.h) stands on complete images only, so the receiver, *)
(* which looks at flags, never overwrites the only good image.             *)
FlaggedImageIsIntact == \A b \in Banks : IsValid(flash, b) => CrcMatches(flash, b)

(* The CMP_OK that answers IMG_END means that the next reset runs the new  *)
(* image: receiver and bootloader agree on which image is the newest, also *)
(* when the image id wraps around.                                         *)
CompletedImageBoots ==
    [][job.kind = "end" /\ job' = NoJob /\ status' = "CMP_OK"
         => loadActiveImage(flash) = peer.ver]_vars

(* Two valid images carry consecutive ids, unless they are both from the   *)
(* factory, also when the initiator chooses the bank.  On that, and on     *)
(* nothing else, rests the comparison of ids by app_find_old_img and       *)
(* findlatest.  It takes an initiator that ends a session only after the   *)
(* file and without errors: the flag is set on whatever header is there.   *)
IdsAreConsecutive ==
    IsValid(flash, 1) /\ IsValid(flash, 2) =>
        LET id1 == HeaderOf(flash, 1).id
            id2 == HeaderOf(flash, 2).id
        IN  \/ id1 = MaxId /\ id2 = MaxId
            \/ (id1 + 1) % (MaxId + 1) = id2
            \/ (id2 + 1) % (MaxId + 1) = id1

(* A block is answered with CMP_OK when its units are in the flash at      *)
(* their place: what the initiator need not send again is stored.          *)
AcknowledgedIsWritten ==
    status = "CMP_OK" /\ job = NoJob =>
        \A p \in 1..(peer.blk - 1) : p < ImageLen[peer.ver] =>
            flash[suota_state.mem_base_add + p] = Chunk(peer.ver, p)

(* The bootloader starts only code that it loaded and checked: it returns  *)
(* "Success (0) or Error Code" for the "latest and valid" image.           *)
RunsIntactImage == running # Corrupt

(* Nothing outside the two banks is ever written: the receiver trusts the  *)
(* initiator to send data only in turn.  Under "any_data" it fails, since  *)
(* after INVAL_IMG_BANK data goes to the refused number as base address.   *)
OutsideBanksUntouched ==
    \A a \in Addresses : SectorOf(a) = 0 \/ a >= ProductHeader => flash[a] = Foreign

(* Writing and committing look like one atomic change of the image that a  *)
(* reset would boot, see ImageUpdate.                                      *)
Update == INSTANCE ImageUpdate WITH
              installed <- loadActiveImage(flash),
              offered   <- IF job.kind = "end" THEN peer.ver ELSE Nothing

UpdateIsAtomic == Update!Spec
==============================================================================
