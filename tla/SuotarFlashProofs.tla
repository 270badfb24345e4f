-------------------------- MODULE SuotarFlashProofs --------------------------
(* What the flash holds while the SUOTA receiver writes to it: the parts   *)
(* of an image that were confirmed, a bank that is ready for the rest, and *)
(* a valid flag on complete images only.                                   *)
EXTENDS SuotarProofs

-----------------------------------------------------------------------------
(* What a step can be.                                                     *)

(* The flash is not written, and no image is further than it was.          *)
QuietStep ==
    /\ flash' = flash /\ job' = NoJob
    /\ Open' => Open /\ job.kind # "end" /\ UNCHANGED <<Idx, Base, Len0, peer.ver>>

(* The first block of an image is accepted.                                *)
FirstBlockStep ==
    \E n \in 1..PdSize :
       /\ job = NoJob /\ Idx = 0 /\ Len(Received(n)) \in 1..PdSize /\ DataArrives(n)
       /\ HeaderStatus(Received(n)[1], new_bank) = "CMP_OK"
       /\ flash' = flash /\ Base' = Offset(new_bank) /\ Idx' = 0 /\ Pd' = Received(n)
       /\ peer'.ver = peer.ver
       /\ job' = [kind |-> "block", ops |-> app_read_image_headers(new_bank, Received(n))]

(* A later block is accepted.                                              *)
LaterBlockStep ==
    \E n \in 1..PdSize :
       /\ job = NoJob /\ Open /\ Len(Received(n)) \in 1..PdSize /\ DataArrives(n)
       /\ flash' = flash /\ Pd' = LaterCode(n) /\ UNCHANGED <<Idx, Base, Len0, peer.ver>>
       /\ job' = [kind |-> "block", ops |-> app_flash_write_data(Base + Idx, LaterCode(n))]

(* The initiator ends the session after the whole image.                   *)
EndStep ==
    /\ job = NoJob /\ Open /\ peer.sent = FileLen(peer.ver) /\ peer.blk = peer.sent
    /\ job' = [kind |-> "end", ops |-> <<FlagOp(Base)>>]
    /\ UNCHANGED <<flash, suota_state, peer>>

(* The handler of a block is done.                                         *)
BlockDoneStep ==
    /\ job.kind = "block" /\ job.ops = << >> /\ job' = NoJob
    /\ Idx' = Idx + Len(Pd)
    /\ UNCHANGED <<flash, Base, Len0, peer.ver>>

(* Data that starts no handler is quiet.                                   *)
LEMMA DataSteps ==
    ASSUME TypeInv, NEW n \in 1..PdSize, DataArrives(n)
    PROVE  QuietStep \/ FirstBlockStep \/ LaterBlockStep
<1>. DEFINE B == Received(n)
            crc == Xor(suota_state.crc_calc, B)
<1>1. /\ job = NoJob /\ Sending /\ flash' = flash
      /\ suota_state \in app_suota_state /\ peer \in Peers
  BY DataFacts
<1>2. peer'.ver = peer.ver /\ DataArrives(n)
  <2>1. peer' = [peer EXCEPT !.sent = peer.sent + n]
    BY DataCases
  <2>. QED
    BY <1>1, <2>1 DEF Peers
<1>. HIDE DEF B, crc
<1>3. ASSUME UNCHANGED <<Idx, job>>, UNCHANGED <<Base, Len0>> \/ Idx = 0
      PROVE  QuietStep
  BY <1>1, <1>2, <1>3 DEF QuietStep, NoJob, Open, Sending
<1>4. CASE UNCHANGED <<suota_state, job>>
  BY <1>3, <1>4 DEF Idx, Base, Len0
<1>5. CASE suota_state' = [suota_state EXCEPT !.pd = B] /\ UNCHANGED job
  <2>1. UNCHANGED <<Idx, Base, Len0, job>>
    BY <1>1, <1>5 DEF app_suota_state, Idx, Base, Len0
  <2>. QED
    BY <1>3, <2>1
<1>6. CASE app_suotar_img_hdlr(B) /\ Len(B) \in 1..PdSize
  <2>1. CASE /\ suota_state' = [suota_state EXCEPT !.crc_calc = crc, !.pd = B] /\ UNCHANGED job
    <3>1. UNCHANGED <<Idx, Base, Len0, job>>
      BY <1>1, <2>1 DEF app_suota_state, Idx, Base, Len0
    <3>. QED
      BY <1>3, <3>1
  <2>2. CASE Idx = 0 /\ FirstBlock(crc, B)
    <3>. DEFINE b == new_bank
                len == IF B[1].pos = 0 THEN ImageLen[B[1].ver] ELSE Len0
    <3>1. \/ /\ HeaderStatus(B[1], b) = "CMP_OK"
             /\ suota_state' = [suota_state EXCEPT !.crc_calc = crc, !.suota_image_len = len, !.pd = B,
                                                   !.mem_base_add = Offset(b)]
             /\ job' = [kind |-> "block", ops |-> app_read_image_headers(b, B)]
          \/ /\ suota_state' = [suota_state EXCEPT !.crc_calc = crc, !.suota_image_len = len,
                                                   !.pd = << >>]
             /\ UNCHANGED job
      BY <2>2 DEF FirstBlock, Len0
    <3>. HIDE DEF len, b
    <3>2. CASE suota_state' = [suota_state EXCEPT !.crc_calc = crc, !.suota_image_len = len,
                                                  !.pd = << >>] /\ UNCHANGED job
      <4>1. UNCHANGED <<Idx, job>>
        BY <1>1, <3>2 DEF app_suota_state, Idx
      <4>. QED
        BY <1>3, <2>2, <4>1
    <3>3. CASE /\ HeaderStatus(B[1], b) = "CMP_OK"
               /\ suota_state' = [suota_state EXCEPT !.crc_calc = crc, !.suota_image_len = len,
                                                     !.pd = B, !.mem_base_add = Offset(b)]
               /\ job' = [kind |-> "block", ops |-> app_read_image_headers(b, B)]
      <4>1. Idx' = Idx /\ Base' = Offset(b) /\ Pd' = B
        BY <1>1, <3>3 DEF app_suota_state, Idx, Base, Pd
      <4>2. /\ Idx = 0 /\ Len(Received(n)) \in 1..PdSize
            /\ HeaderStatus(Received(n)[1], new_bank) = "CMP_OK"
            /\ Base' = Offset(new_bank) /\ Idx' = 0 /\ Pd' = Received(n)
            /\ job' = [kind |-> "block", ops |-> app_read_image_headers(new_bank, Received(n))]
        BY <1>6, <2>2, <3>3, <4>1 DEF B, b
      <4>. QED
        BY <1>1, <1>2, <4>2 DEF FirstBlockStep
    <3>. QED
      BY <3>1, <3>2, <3>3
  <2>3. CASE Idx # 0 /\ LaterBlock(crc, B)
    <3>1. \/ /\ suota_state' = [suota_state EXCEPT !.crc_calc = crc, !.pd = LaterCode(n)]
             /\ job' = [kind |-> "block", ops |-> app_flash_write_data(Base + Idx, LaterCode(n))]
          \/ /\ suota_state' = [suota_state EXCEPT !.crc_calc = crc, !.pd = << >>]
             /\ UNCHANGED job
      BY <2>3 DEF LaterBlock, LaterCode, Base, Idx, Len0, B
    <3>2. UNCHANGED <<Idx, Base, Len0>> /\ Open
      BY <1>1, <2>3, <3>1 DEF app_suota_state, Idx, Base, Len0, Open
    <3>3. CASE UNCHANGED job
      BY <1>3, <3>2, <3>3
    <3>4. CASE /\ suota_state' = [suota_state EXCEPT !.crc_calc = crc, !.pd = LaterCode(n)]
               /\ job' = [kind |-> "block", ops |-> app_flash_write_data(Base + Idx, LaterCode(n))]
      <4>1. Pd' = LaterCode(n)
        BY <1>1, <3>4 DEF app_suota_state, Pd
      <4>2. Len(Received(n)) \in 1..PdSize
        BY <1>6 DEF B
      <4>. QED
        BY <1>1, <1>2, <3>2, <3>4, <4>1, <4>2 DEF LaterBlockStep
    <3>. QED
      BY <3>1, <3>3, <3>4
  <2>. QED
    BY <1>6, <2>1, <2>2, <2>3 DEF app_suotar_img_hdlr, Idx, crc
<1>. QED
  BY <1>4, <1>5, <1>6, DataCases DEF B

(* The requests are quiet, but for the end of an image: an initiator that  *)
(* does not end early has sent all of it.                                  *)
LEMMA RequestSteps ==
    ASSUME TypeInv, suotar_patch_mem_dev_ind, WholeFiles
    PROVE  QuietStep \/ EndStep
<1>1. job = NoJob /\ flash' = flash /\ suota_state \in app_suota_state /\ peer \in Peers
  BY DEF suotar_patch_mem_dev_ind, Listening, Idle, TypeInv, TypeOK
<1>2. ASSUME job' = job, peer' = NoPeer
      PROVE  QuietStep
  BY <1>1, <1>2 DEF QuietStep, Open, Sending, NoPeer
<1>3. ASSUME NEW dev \in Devices, NEW bank \in 0..3, NEW v \in Versions, start_session(dev, bank, v)
      PROVE  QuietStep
  <2>1. CASE peer' = NoPeer
    BY <1>2, <1>3, <2>1 DEF start_session
  <2>2. CASE bank <= 2 /\ suota_state' = Started([Selected(dev) EXCEPT !.suota_image_bank = bank])
    <3>. DEFINE s == Selected(dev)
                r == [s EXCEPT !.suota_image_bank = bank]
    <3>1. r \in app_suota_state
      <4>1. s \in app_suota_state
        <5>1. 0 \in Addresses
          BY Places, LayoutAssumption DEF Addresses
        <5>. QED
          BY <1>1, <5>1 DEF Selected, app_suota_state
      <4>2. bank \in 0..2
        BY <2>2
      <4>. HIDE DEF s
      <4>. QED
        BY <4>1, <4>2 DEF app_suota_state
    <3>2. Started(r).suota_img_idx = 0
      BY <3>1, StartedFields
    <3>. HIDE DEF r
    <3>3. Idx' = 0
      BY <2>2, <3>2 DEF Idx, r
    <3>. QED
      BY <1>1, <1>3, <3>3 DEF start_session, QuietStep, Open
  <2>. QED
    BY <1>3, <2>1, <2>2 DEF start_session
<1>4. ASSUME image_end
      PROVE  QuietStep \/ EndStep
  <2>1. CASE job' = job /\ peer' = NoPeer
    BY <1>2, <2>1
  <2>2. CASE /\ job' = [kind |-> "end", ops |-> <<FlagOp(suota_state.mem_base_add)>>]
             /\ UNCHANGED <<suota_state, status, peer>>
    <3>1. Sending /\ peer.sent = FileLen(peer.ver) /\ peer.sent = peer.blk
      BY <1>4 DEF image_end, MayEnd, BlockDone, WholeFiles
    <3>2. FileLen(peer.ver) # 0
      BY <1>1, <3>1, SentImage
    <3>3. Open
      BY <3>1, <3>2 DEF TypeInv, SessionInv, PeerInv, Open
    <3>. QED
      BY <1>1, <2>2, <3>1, <3>3 DEF EndStep, Base
  <2>. QED
    BY <1>4, <2>1, <2>2 DEF image_end
<1>5. ASSUME request_reboot
      PROVE  QuietStep
  <2>1. UNCHANGED <<Idx, Base, Len0, peer, job>>
    BY <1>1, <1>5 DEF request_reboot, app_suota_state, Idx, Base, Len0
  <2>. QED
    BY <1>1, <2>1 DEF QuietStep, NoJob, Open, Sending
<1>6. ASSUME select_internal
      PROVE  QuietStep
  BY <1>2, <1>6 DEF select_internal
<1>7. ASSUME service_exit \/ unknown_device
      PROVE  QuietStep
  BY <1>2, <1>7 DEF service_exit, unknown_device
<1>. QED
  BY <1>3, <1>4, <1>5, <1>6, <1>7 DEF suotar_patch_mem_dev_ind

(* A handler that is done, or gives up, has stored a block or nothing.     *)
LEMMA HandlerSteps ==
    ASSUME TypeInv, handler_returns \/ checked_fault
    PROVE  QuietStep \/ BlockDoneStep
<1>1. /\ job.kind \in {"block", "end"} /\ suota_state \in app_suota_state /\ peer \in Peers
      /\ job' = NoJob /\ flash' = flash
  <2>1. job.kind \in {"none", "block", "end"}
    BY DEF TypeInv, TypeOK
  <2>2. job.kind # "none"
    BY JobFacts DEF handler_returns, checked_fault
  <2>. QED
    BY <2>1, <2>2 DEF TypeInv, TypeOK, handler_returns, checked_fault
<1>2. CASE job.kind = "end"
  BY <1>1, <1>2 DEF handler_returns, checked_fault, QuietStep, Open, Sending, NoPeer
<1>3. CASE job.kind = "block" /\ checked_fault
  <2>1. UNCHANGED <<Idx, Base, Len0, peer>>
    BY <1>1, <1>3 DEF checked_fault, app_suota_state, Idx, Base, Len0
  <2>. QED
    BY <1>1, <1>3, <2>1 DEF QuietStep, Open, Sending
<1>4. CASE job.kind = "block" /\ handler_returns
  <2>. DEFINE k == Idx + Len(Pd)
  <2>1. /\ suota_state' = [suota_state EXCEPT !.pd = << >>, !.suota_img_idx = k]
        /\ peer' = [peer EXCEPT !.blk = peer.sent] /\ job.ops = << >>
    BY <1>4 DEF handler_returns, Idx, Pd
  <2>. HIDE DEF k
  <2>2. Idx' = k /\ UNCHANGED <<Base, Len0, peer.ver>>
    BY <1>1, <2>1 DEF app_suota_state, Idx, Base, Len0, Peers
  <2>. QED
    BY <1>1, <1>4, <2>1, <2>2 DEF BlockDoneStep, k
<1>. QED
  BY <1>1, <1>2, <1>3, <1>4

(* Every step is one of these, or goes on with the handler that runs.      *)
LEMMA StepCases ==
    ASSUME TypeInv, [Next]_vars, WholeFiles
    PROVE  \/ QuietStep \/ FirstBlockStep \/ LaterBlockStep \/ EndStep \/ BlockDoneStep
           \/ flash_operation \/ unchecked_fault \/ UNCHANGED vars
<1>1. suota_state \in app_suota_state /\ peer \in Peers
  BY DEF TypeInv, TypeOK
<1>2. ASSUME NEW len \in 0..(PdSize + 1), suotar_patch_len_ind(len)
      PROVE  QuietStep
  <2>1. UNCHANGED <<Idx, Base, Len0, peer, job, flash>>
    BY <1>1, <1>2 DEF suotar_patch_len_ind, app_suota_state, Idx, Base, Len0
  <2>. QED
    BY <1>2, <2>1 DEF suotar_patch_len_ind, Listening, Idle, QuietStep, NoJob, Open, Sending
<1>3. ASSUME suotar_gpio_map_ind
      PROVE  QuietStep
  <2>1. UNCHANGED <<Idx, Base, Len0, peer, job, flash>>
    BY <1>1, <1>3 DEF suotar_gpio_map_ind, app_suota_state, Idx, Base, Len0
  <2>. QED
    BY <1>3, <2>1 DEF suotar_gpio_map_ind, Listening, Idle, QuietStep, NoJob, Open, Sending
<1>4. ASSUME peer_sends_again
      PROVE  QuietStep
  <2>1. peer'.ver = peer.ver /\ UNCHANGED <<Idx, Base, Len0, job, flash>>
    BY <1>1, <1>4 DEF peer_sends_again, Peers, Idx, Base, Len0
  <2>. QED
    BY <1>4, <2>1 DEF peer_sends_again, Listening, Idle, QuietStep, NoJob, Open, Sending
<1>5. ASSUME Restart
      PROVE  QuietStep
  BY <1>5 DEF Restart, QuietStep, Open, Sending, NoPeer
<1>6. ASSUME Connect
      PROVE  QuietStep
  BY <1>6 DEF Connect, Idle, QuietStep, NoJob, Open, Sending, Idx, Base, Len0
<1>7. ASSUME Disconnect
      PROVE  QuietStep
  <2>1. CASE Restart
    BY <1>5, <2>1
  <2>2. CASE ~Restart
    BY <1>7, <2>2 DEF Disconnect, Listening, Idle, QuietStep, Open, Sending, NoPeer
  <2>. QED
    BY <2>1, <2>2
<1>8. CASE Next
  BY <1>2, <1>3, <1>4, <1>5, <1>6, <1>7, <1>8, RequestSteps, DataInTurn, DataSteps, HandlerSteps
  DEF Next, PowerCycle, WholeFiles
<1>. QED
  BY <1>8

-----------------------------------------------------------------------------
(* What the handlers write.                                                *)

(* What the image v puts at unit p of bank b before its flag is set.       *)
UnitOf(v, b, p) == IF p = 0 THEN NewHeader(v, b) ELSE Chunk(v, p)

(* A sector contains its start.                                            *)
LEMMA SectorStart ==
    ASSUME NEW a \in Nat
    PROVE  SectorOf(a) \in Nat /\ SectorOf(SectorOf(a)) = SectorOf(a)
<1>1. /\ SectorOf(a) \in Nat /\ SectorSize > 0 /\ SectorSize \in Nat
      /\ \A c \in Nat : SectorOf(a) <= c /\ c < SectorOf(a) + SectorSize => SectorOf(c) = SectorOf(a)
  BY Sector, LayoutAssumption
<1>2. SectorOf(a) <= SectorOf(a) /\ SectorOf(a) < SectorOf(a) + SectorSize
  BY <1>1
<1>. QED
  BY <1>1, <1>2

(* The operations of a first block: its sector is erased, its units        *)
(* follow, and perhaps the next sector is erased before the code.          *)
LEMMA FirstOps ==
    ASSUME TypeInv, NEW n \in 1..PdSize, DataArrives(n), Idx = 0,
           Len(Received(n)) \in 1..PdSize, HeaderStatus(Received(n)[1], new_bank) = "CMP_OK"
    PROVE  LET O == Offset(new_bank)
               L == Len(Received(n))
               F == app_read_image_headers(new_bank, Received(n))
           IN  /\ F \in Seq(FlashOps) /\ Len(F) \in Nat \ {0}
               /\ F[1].op = "erase" /\ F[1].at = O /\ F[1].checked = TRUE
               /\ \A i \in 1..Len(F) :
                     \/ F[i].op = "erase" /\ F[i].at = O
                     \/ F[i].op = "erase" /\ F[i].at = SectorOf(O + L) /\ SectorOf(O + L) # O
                     \/ \E p \in 0..(L - 1) :
                           /\ F[i].op = "program" /\ F[i].at = O + p /\ F[i].checked = TRUE
                           /\ F[i].unit = UnitOf(peer.ver, new_bank, p)
               /\ \A p \in 0..(L - 1) : \E i \in 2..Len(F) :
                     /\ F[i].op = "program" /\ F[i].at = O + p
                     /\ \A j \in (i + 1)..Len(F) : ~(F[j].op = "erase" /\ F[j].at = O)
<1>. DEFINE b == new_bank
            O == Offset(b)
            B == Received(n)
            L == Len(B)
            e == Erases(O + 1, L - 1)
            top == Erased(O + 1, L - 1)
            F == app_read_image_headers(b, B)
<1>1. /\ b \in Banks /\ peer.blk = 0 /\ NewHeader(peer.ver, b) \in Headers /\ B[1].ver = peer.ver
      /\ F \in Seq(FlashOps) /\ Len(F) = 2 + e + L /\ e \in 0..1
      /\ F[1] = EraseOp(O, TRUE) /\ F[2] = EraseOp(O, FALSE)
      /\ F[3] = ProgramOp(O, NewHeader(peer.ver, b))
      /\ \A i \in 1..(L - 1) : F[3 + e + i] = ProgramOp(O + i, B[1 + i])
      /\ e = 1 => F[4] = EraseOp(top, FALSE)
  BY FirstBlockFacts
<1>2. /\ peer.ver \in Versions /\ ImageLen[peer.ver] \in Nat /\ L <= ImageLen[peer.ver] + 1
      /\ \A i \in 1..L : B[i] = Chunk(peer.ver, i - 1)
  <2>1. /\ peer.ver \in Versions /\ ImageLen[peer.ver] \in Nat
        /\ peer.sent + n <= ImageLen[peer.ver] + 1
        /\ L = peer.sent + n - peer.blk /\ peer.sent \in Nat /\ n \in Nat
        /\ \A i \in 1..L : B[i] = Chunk(peer.ver, peer.blk + i - 1)
    BY DataFacts
  <2>2. L <= ImageLen[peer.ver] + 1
    BY <1>1, <2>1
  <2>3. \A i \in 1..L : peer.blk + i - 1 = i - 1
    BY <1>1, <2>1
  <2>. QED
    BY <2>1, <2>2, <2>3
<1>3. /\ O \in Nat /\ SectorOf(O) = O /\ L \in 1..SectorSize /\ L \in Nat \ {0} /\ SectorSize \in Nat
      /\ SectorSize >= 2 /\ BankSize \in Nat /\ SectorSize <= BankSize
      /\ \A x \in O..(O + BankSize) : x \in Addresses /\ SectorOf(x) \in Addresses
  <2>1. SectorSize \in Nat /\ SectorSize >= 2 /\ BankSize \in Nat /\ PdSize \in 1..SectorSize
    BY LayoutAssumption, PdAssumption
  <2>2. O \in Nat /\ BankSize >= SectorSize
        /\ \A x \in O..(O + BankSize) : x \in Addresses /\ SectorOf(x) \in Addresses
    BY <1>1, BankEnds
  <2>3. SectorOf(O) = O
    BY <1>1, BankStart DEF Banks
  <2>. QED
    BY <2>1, <2>2, <2>3
<1>4. SectorOf(O + 1) = O /\ O + 1 # O /\ O + 1 + (L - 1) = O + L
  <2>. HIDE DEF O, L
  <2>1. O \in Nat /\ L \in Nat /\ SectorOf(O) = O /\ SectorSize \in Nat /\ SectorSize >= 2
    BY <1>3
  <2>2. O <= O + 1 /\ O + 1 < O + SectorSize /\ O + 1 \in Nat
    BY <2>1
  <2>3. \A c \in Nat : O <= c /\ c < O + SectorSize => SectorOf(c) = O
    BY <2>1, Sector
  <2>4. SectorOf(O + 1) = O
    BY <2>2, <2>3
  <2>. QED
    BY <2>1, <2>4
<1>5. e = 1 => top = O + L /\ SectorOf(O + L) # O
  <2>. DEFINE a == O + 1
              m == L - 1
  <2>1. SectorOf(a) = O /\ SectorOf(a) # a /\ a + m = O + L
    BY <1>4
  <2>. HIDE DEF a, m, O
  <2>2. Erases(a, m) = 1 => SectorOf(a + m) # SectorOf(a)
    BY <2>1 DEF Erases
  <2>3. Erased(a, m) = a + m
    BY <2>1 DEF Erased
  <2>. QED
    BY <2>1, <2>2, <2>3 DEF a, m
<1>6. EraseOp(O, TRUE).op = "erase" /\ EraseOp(O, TRUE).at = O /\ EraseOp(O, TRUE).checked = TRUE
      /\ EraseOp(O, FALSE).op = "erase" /\ EraseOp(O, FALSE).at = O
  <2>1. O \in Nat /\ SectorOf(O) \in Addresses /\ SectorOf(O) = O
    <3>1. O \in O..(O + BankSize)
      BY <1>3
    <3>. QED
      BY <1>3, <3>1
  <2>. HIDE DEF O
  <2>. QED
    BY <2>1, OpFields
<1>7. e = 1 => F[4].op = "erase" /\ F[4].at = SectorOf(O + L)
  <2>1. O + L \in Nat /\ SectorOf(O + L) \in Addresses
    <3>1. O + L \in O..(O + BankSize)
      BY <1>3
    <3>. QED
      BY <1>3, <3>1
  <2>2. EraseOp(O + L, FALSE).op = "erase" /\ EraseOp(O + L, FALSE).at = SectorOf(O + L)
    <3>. HIDE DEF O, L
    <3>. QED
      BY <2>1, OpFields
  <2>. QED
    BY <1>1, <1>5, <2>2
<1>8. ASSUME NEW p \in 0..(L - 1)
      PROVE  LET o == ProgramOp(O + p, UnitOf(peer.ver, b, p))
             IN  o.op = "program" /\ o.at = O + p /\ o.checked = TRUE /\ o.unit = UnitOf(peer.ver, b, p)
  <2>1. O + p \in Addresses
    <3>1. O + p \in O..(O + BankSize)
      BY <1>3
    <3>. QED
      BY <1>3, <3>1
  <2>2. UnitOf(peer.ver, b, p) \in Contents
    <3>1. CASE p = 0
      BY <1>1, <3>1 DEF UnitOf, Contents
    <3>2. CASE p # 0
      <4>1. p \in 0..ImageLen[peer.ver]
        BY <1>2, <1>3
      <4>. QED
        BY <1>2, <3>2, <4>1, ChunkFields DEF UnitOf
    <3>. QED
      BY <3>1, <3>2
  <2>. DEFINE a == O + p
              u == UnitOf(peer.ver, b, p)
  <2>. HIDE DEF a, u
  <2>3. a \in Addresses /\ u \in Contents
    BY <2>1, <2>2 DEF a, u
  <2>. QED
    BY <2>3, OpFields DEF a, u
<1>9. \A i \in 1..(L - 1) : F[3 + e + i] = ProgramOp(O + i, UnitOf(peer.ver, b, i))
  <2>1. ASSUME NEW i \in 1..(L - 1)
        PROVE  F[3 + e + i] = ProgramOp(O + i, UnitOf(peer.ver, b, i))
    <3>1. 1 + i \in 1..L /\ 1 + i - 1 = i /\ i # 0
      BY <1>3
    <3>2. B[1 + i] = UnitOf(peer.ver, b, i)
      BY <1>2, <3>1 DEF UnitOf
    <3>. QED
      BY <1>1, <3>2
  <2>. QED
    BY <2>1
<1>10. F[3] = ProgramOp(O + 0, UnitOf(peer.ver, b, 0)) /\ 0 \in 0..(L - 1)
  <2>1. O + 0 = O
    BY <1>3
  <2>. QED
    BY <1>1, <1>3, <2>1 DEF UnitOf
<1>. HIDE DEF F, e, top, L, B, O, b
<1>11. ASSUME NEW i \in 1..Len(F)
       PROVE  \/ i = 1 \/ i = 2 \/ i = 3 \/ (i = 4 /\ e = 1)
              \/ i - 3 - e \in 1..(L - 1) /\ 3 + e + (i - 3 - e) = i
  <2>1. i \in Nat /\ i >= 1 /\ i <= 2 + e + L /\ L \in Nat \ {0} /\ e \in {0, 1}
    BY <1>1, <1>3
  <2>2. CASE e = 0
    BY <2>1, <2>2
  <2>3. CASE e = 1
    BY <2>1, <2>3
  <2>. QED
    BY <2>1, <2>2, <2>3
<1>12. ASSUME NEW i \in 1..Len(F)
       PROVE  \/ F[i].op = "erase" /\ F[i].at = O
              \/ F[i].op = "erase" /\ F[i].at = SectorOf(O + L) /\ SectorOf(O + L) # O
              \/ \E p \in 0..(L - 1) :
                    /\ F[i].op = "program" /\ F[i].at = O + p /\ F[i].checked = TRUE
                    /\ F[i].unit = UnitOf(peer.ver, b, p)
  <2>1. CASE i = 1 \/ i = 2
    BY <1>1, <1>6, <2>1
  <2>2. CASE i = 3
    <3>1. F[i] = ProgramOp(O + 0, UnitOf(peer.ver, b, 0)) /\ 0 \in 0..(L - 1)
      BY <1>10, <2>2
    <3>. QED
      BY <1>8, <3>1, Zenon
  <2>3. CASE i = 4 /\ e = 1
    BY <1>5, <1>7, <2>3
  <2>4. CASE i - 3 - e \in 1..(L - 1) /\ 3 + e + (i - 3 - e) = i
    <3>. DEFINE p == i - 3 - e
    <3>1. p \in 1..(L - 1) /\ F[3 + e + p] = ProgramOp(O + p, UnitOf(peer.ver, b, p)) /\ 3 + e + p = i
      BY <1>9, <2>4
    <3>. HIDE DEF p
    <3>2. p \in 0..(L - 1) /\ F[i] = ProgramOp(O + p, UnitOf(peer.ver, b, p))
      BY <1>3, <3>1
    <3>. QED
      BY <1>8, <3>2, Zenon
  <2>. QED
    BY <1>11, <2>1, <2>2, <2>3, <2>4
<1>13. ASSUME NEW p \in 0..(L - 1)
       PROVE  \E i \in 2..Len(F) :
                 /\ F[i].op = "program" /\ F[i].at = O + p
                 /\ \A j \in (i + 1)..Len(F) : ~(F[j].op = "erase" /\ F[j].at = O)
  <2>1. ASSUME NEW j \in 4..Len(F)
        PROVE  ~(F[j].op = "erase" /\ F[j].at = O)
    <3>1. j \in 1..Len(F) /\ j # 1 /\ j # 2 /\ j # 3
      BY <1>1, <1>3
    <3>2. CASE j = 4 /\ e = 1
      BY <1>5, <1>7, <3>2
    <3>3. CASE j - 3 - e \in 1..(L - 1) /\ 3 + e + (j - 3 - e) = j
      <4>. DEFINE q == j - 3 - e
      <4>1. q \in 1..(L - 1) /\ F[3 + e + q] = ProgramOp(O + q, UnitOf(peer.ver, b, q)) /\ 3 + e + q = j
        BY <1>9, <3>3
      <4>. HIDE DEF q
      <4>2. q \in 0..(L - 1) /\ F[j] = ProgramOp(O + q, UnitOf(peer.ver, b, q))
        BY <1>3, <4>1
      <4>3. F[j].op = "program"
        BY <1>8, <4>2, Zenon
      <4>. QED
        BY <4>3
    <3>. QED
      BY <1>11, <3>1, <3>2, <3>3
  <2>2. CASE p = 0
    <3>1. F[3].op = "program" /\ F[3].at = O + p
      BY <1>8, <1>10, <2>2, Zenon
    <3>2. 3 \in 2..Len(F) /\ 3 + 1 = 4
      BY <1>1, <1>3
    <3>. QED
      BY <2>1, <3>1, <3>2, Zenon
  <2>3. CASE p # 0
    <3>. DEFINE i == 3 + e + p
    <3>1. p \in 1..(L - 1) /\ i \in 2..Len(F) /\ i \in Nat /\ i >= 4
      BY <1>1, <1>3, <2>3
    <3>2. F[i].op = "program" /\ F[i].at = O + p
      BY <1>8, <1>9, <3>1, Zenon
    <3>. HIDE DEF i
    <3>3. \A j \in (i + 1)..Len(F) : j \in 4..Len(F)
      BY <1>1, <1>3, <3>1
    <3>. QED
      BY <2>1, <3>1, <3>2, <3>3, Zenon
  <2>. QED
    BY <2>2, <2>3
<1>14. F \in Seq(FlashOps) /\ Len(F) \in Nat \ {0}
       /\ F[1].op = "erase" /\ F[1].at = O /\ F[1].checked = TRUE
  <2>1. Len(F) \in Nat \ {0}
    BY <1>1, <1>3
  <2>2. F[1].op = "erase" /\ F[1].at = O /\ F[1].checked = TRUE
    BY <1>1, <1>6, Zenon
  <2>. QED
    BY <1>1, <2>1, <2>2
<1>. QED
  BY <1>12, <1>13, <1>14 DEF F, O, L, B, b

(* The operations of a later block: its units in order, after at most one  *)
(* erase, of the sector that starts with it or of the next one.            *)
LEMMA LaterOps ==
    ASSUME TypeInv, NEW n \in 1..PdSize, DataArrives(n), Idx # 0,
           Len(Received(n)) \in 1..PdSize
    PROVE  LET a == Base + Idx
               m == Len(LaterCode(n))
               W == app_flash_write_data(a, LaterCode(n))
           IN  /\ m \in 0..SectorSize /\ Idx + m <= Len0 /\ W \in Seq(FlashOps)
               /\ \A i \in 1..Len(W) :
                     \/ /\ Erases(a, m) = 1 /\ W[i].op = "erase" /\ W[i].at = SectorOf(Erased(a, m))
                     \/ \E p \in Idx..(Idx + m - 1) :
                           /\ W[i].op = "program" /\ W[i].at = Base + p /\ W[i].checked = TRUE
                           /\ W[i].unit = Chunk(peer.ver, p)
               /\ \A p \in Idx..(Idx + m - 1) : \E i \in 1..Len(W) :
                     /\ W[i].op = "program" /\ W[i].at = Base + p
                     /\ Erases(a, m) = 1 => i # 1
                     /\ \A j \in (i + 1)..Len(W) : W[j].op = "program"
               /\ Erases(a, m) = 1 =>
                     /\ 1 \in 1..Len(W) /\ W[1].op = "erase" /\ W[1].at = SectorOf(Erased(a, m))
<1>. DEFINE a == Base + Idx
            C == LaterCode(n)
            m == Len(C)
            W == app_flash_write_data(a, C)
            e == Erases(a, m)
            top == Erased(a, m)
<1>1. /\ Target \in Banks /\ Base = Offset(Target) /\ Base \in Nat
      /\ Len0 = ImageLen[peer.ver] /\ Len0 <= BankSize
      /\ Idx = peer.blk /\ Idx <= Len0 /\ Idx < peer.sent + n /\ peer.sent + n <= Len0 + 1
      /\ m = IF peer.sent + n <= Len0 THEN peer.sent + n - Idx ELSE Len0 - Idx
      /\ C \in Seq(Chunks)
      /\ \A i \in 1..m : C[i] = Chunk(peer.ver, Idx + i - 1)
      /\ W \in Seq(FlashOps) /\ Len(W) = e + m /\ e \in 0..1
      /\ \A i \in 1..m : W[e + i] = ProgramOp(a + i - 1, C[i])
      /\ e = 1 => W[1] = EraseOp(top, FALSE)
  BY LaterBlockFacts
<1>2. /\ Idx \in Nat /\ Len0 \in Nat /\ peer.sent \in Nat /\ n \in Nat /\ peer.ver \in Versions
      /\ Len(Received(n)) = peer.sent + n - Idx /\ BankSize \in Nat /\ PdSize \in 1..SectorSize
      /\ SectorSize \in Nat
  BY <1>1, DataFacts, LayoutAssumption, PdAssumption
<1>3. m \in Nat /\ m <= SectorSize /\ Idx + m <= Len0
  <2>1. /\ Idx \in Nat /\ Len0 \in Nat /\ peer.sent \in Nat /\ n \in Nat /\ Idx <= Len0
        /\ Idx < peer.sent + n /\ peer.sent + n <= Len0 + 1 /\ SectorSize \in Nat
        /\ m = IF peer.sent + n <= Len0 THEN peer.sent + n - Idx ELSE Len0 - Idx
    BY <1>1, <1>2
  <2>2. peer.sent + n - Idx <= SectorSize
    BY <1>2
  <2>. HIDE DEF m
  <2>3. CASE peer.sent + n <= Len0
    BY <2>1, <2>2, <2>3
  <2>4. CASE ~(peer.sent + n <= Len0)
    BY <2>1, <2>2, <2>4
  <2>. QED
    BY <2>3, <2>4
<1>11. /\ m \in Nat /\ m <= SectorSize /\ Idx + m <= Len0 /\ Base \in Nat /\ Idx \in Nat
      /\ Len0 \in Nat /\ Len0 <= BankSize /\ BankSize \in Nat /\ e \in 0..1 /\ Len(W) = e + m
  BY <1>1, <1>2, <1>3
<1>4. /\ \A x \in Base..(Base + BankSize) : x \in Addresses /\ SectorOf(x) \in Addresses
      /\ a \in Nat /\ a + m <= Base + BankSize /\ top \in Base..(Base + BankSize)
  <2>1. \A x \in Base..(Base + BankSize) : x \in Addresses /\ SectorOf(x) \in Addresses
    BY <1>1, BankEnds
  <2>2. a \in Base..(Base + BankSize) /\ a + m \in Base..(Base + BankSize)
    <3>. HIDE DEF m, W
    <3>. QED
      BY <1>11
  <2>3. top \in {a, a + m}
    BY DEF Erased
  <2>4. Base \in Nat /\ BankSize \in Nat /\ m \in Nat
    BY <1>11
  <2>. HIDE DEF a, m, top
  <2>5. a \in Nat /\ a + m <= Base + BankSize /\ top \in Base..(Base + BankSize)
    BY <2>2, <2>3, <2>4
  <2>. QED
    BY <2>1, <2>5
<1>5. EraseOp(top, FALSE).op = "erase" /\ EraseOp(top, FALSE).at = SectorOf(top)
  <2>1. top \in Nat /\ SectorOf(top) \in Addresses
    <3>. HIDE DEF top, a
    <3>. QED
      BY <1>1, <1>2, <1>4
  <2>. HIDE DEF top
  <2>. QED
    BY <2>1, OpFields
<1>6. ASSUME NEW i \in 1..m
      PROVE  LET p == Idx + i - 1
             IN  /\ p \in Idx..(Idx + m - 1) /\ i = p - Idx + 1
                 /\ W[e + i].op = "program" /\ W[e + i].at = Base + p /\ W[e + i].checked = TRUE
                 /\ W[e + i].unit = Chunk(peer.ver, p)
  <2>. DEFINE p == Idx + i - 1
  <2>1. p \in Idx..(Idx + m - 1) /\ a + i - 1 = Base + p /\ p \in 0..Len0 /\ i = p - Idx + 1
        /\ Base + p \in Base..(Base + BankSize)
    <3>. HIDE DEF m, W
    <3>. QED
      BY <1>11
  <2>2. W[e + i] = ProgramOp(Base + p, Chunk(peer.ver, p))
    BY <1>1, <2>1
  <2>. HIDE DEF p
  <2>3. Base + p \in Addresses /\ Chunk(peer.ver, p) \in Contents
    <3>1. p \in 0..ImageLen[peer.ver]
      BY <1>1, <2>1
    <3>. QED
      BY <1>2, <1>4, <2>1, <3>1, ChunkFields
  <2>. DEFINE x == Base + p
              u == Chunk(peer.ver, p)
  <2>. HIDE DEF x, u
  <2>4. x \in Addresses /\ u \in Contents /\ W[e + i] = ProgramOp(x, u)
    BY <2>2, <2>3 DEF x, u
  <2>5. /\ W[e + i].op = "program" /\ W[e + i].at = x /\ W[e + i].checked = TRUE
        /\ W[e + i].unit = u
    BY <2>4, OpFields
  <2>. QED
    BY <2>1, <2>5 DEF p, x, u
<1>. HIDE DEF W, e, top, m, C
<1>7. ASSUME NEW i \in 1..Len(W)
      PROVE  \/ e = 1 /\ W[i].op = "erase" /\ W[i].at = SectorOf(top)
             \/ \E p \in Idx..(Idx + m - 1) :
                   /\ W[i].op = "program" /\ W[i].at = Base + p /\ W[i].checked = TRUE
                   /\ W[i].unit = Chunk(peer.ver, p)
  <2>1. CASE e = 1 /\ i = 1
    BY <1>1, <1>5, <2>1
  <2>2. CASE ~(e = 1 /\ i = 1)
    <3>. DEFINE k == i - e
    <3>1. k \in 1..m /\ e + k = i
      BY <1>1, <1>3, <2>2
    <3>. HIDE DEF k
    <3>2. LET p == Idx + k - 1
          IN  /\ p \in Idx..(Idx + m - 1)
              /\ W[i].op = "program" /\ W[i].at = Base + p /\ W[i].checked = TRUE
              /\ W[i].unit = Chunk(peer.ver, p)
      BY <1>6, <3>1
    <3>. QED
      BY <3>2, Zenon
  <2>. QED
    BY <2>1, <2>2
<1>8. ASSUME NEW p \in Idx..(Idx + m - 1)
      PROVE  \E i \in 1..Len(W) :
                 /\ W[i].op = "program" /\ W[i].at = Base + p
                 /\ e = 1 => i # 1
                 /\ \A j \in (i + 1)..Len(W) : W[j].op = "program"
  <2>. DEFINE k == p - Idx + 1
              i == e + k
  <2>1. k \in 1..m /\ Idx + k - 1 = p /\ i \in 1..Len(W) /\ (e = 1 => i # 1) /\ i \in Nat
    BY <1>11
  <2>. HIDE DEF k
  <2>2. W[e + k].op = "program" /\ W[e + k].at = Base + p
    BY <1>6, <2>1
  <2>3. ASSUME NEW j \in (i + 1)..Len(W)
        PROVE  W[j].op = "program"
    <3>. DEFINE l == j - e
    <3>1. l \in 1..m /\ e + l = j
      BY <1>11, <2>1
    <3>. HIDE DEF l
    <3>2. W[e + l].op = "program"
      BY <1>6, <3>1
    <3>. QED
      BY <3>1, <3>2
  <2>. QED
    BY <2>1, <2>2, <2>3
<1>9. e = 1 => 1 \in 1..Len(W) /\ W[1].op = "erase" /\ W[1].at = SectorOf(top)
  <2>1. e = 1 => 1 \in 1..Len(W)
    BY <1>1, <1>3
  <2>. QED
    BY <1>1, <1>5, <2>1
<1>10. m \in 0..SectorSize /\ W \in Seq(FlashOps)
  BY <1>1, <1>2, <1>3
<1>. QED
  BY <1>3, <1>7, <1>8, <1>9, <1>10 DEF W, e, top, m, C

-----------------------------------------------------------------------------
(* The rest of the flash.                                                  *)

(* A handler that ends a session sets the flag of the image it received.   *)
EndInv ==
    job.kind = "end" =>
        /\ Open /\ peer.sent = FileLen(peer.ver) /\ peer.blk = peer.sent
        /\ job.ops = <<FlagOp(Base)>> \/ job.ops = << >>

(* An operation on a sector of the banks, or on the unused one behind.     *)
BetweenOp(o) == SectorOf(o.at) >= SectorSize /\ SectorOf(o.at) + SectorSize <= ProductHeader

OutsideInv ==
    /\ EndInv /\ OutsideBanksUntouched
    /\ \A i \in 1..Len(job.ops) : BetweenOp(job.ops[i])

(* What an operation changes: nothing outside of its sector.               *)
LEMMA AppliedCell ==
    ASSUME flash \in [Addresses -> Contents], NEW o \in FlashOps, NEW x \in Addresses
    PROVE  /\ SectorOf(x) # SectorOf(o.at) => Applied(o)[x] = flash[x]
           /\ o.op = "erase" =>
                 Applied(o)[x] = IF SectorOf(x) = SectorOf(o.at) THEN Blank ELSE flash[x]
           /\ o.op = "program" =>
                 Applied(o)[x] = IF x = o.at THEN Programmed(flash[x], o.unit) ELSE flash[x]
           /\ o.op = "flag" /\ x # o.at => Applied(o)[x] = flash[x]
           /\ o.op = "flag" /\ x = o.at /\ flash[x] \in Headers =>
                 Applied(o)[x] = [flash[x] EXCEPT !.validflag = TRUE]
<1>1. o.op \in {"erase", "program", "flag"} /\ o.at \in Addresses /\ o.unit \in Contents
  BY DEF FlashOps
<1>. DEFINE a == o.at
            u == o.unit
<1>. HIDE DEF a, u
<1>2. /\ Erase(flash, a)[x] = IF SectorOf(x) = SectorOf(a) THEN Blank ELSE flash[x]
      /\ Program(flash, a, u)[x] = IF x = a THEN Programmed(flash[a], u) ELSE flash[x]
      /\ x # a => SetFlag(flash, a)[x] = flash[x]
      /\ flash[a] \in Headers => SetFlag(flash, a)[a] = [flash[a] EXCEPT !.validflag = TRUE]
  <2>1. a \in Addresses
    BY <1>1 DEF a
  <2>. QED
    BY <2>1, CellAfter
<1>3. /\ o.op = "erase" => Applied(o) = Erase(flash, a)
      /\ o.op = "program" => Applied(o) = Program(flash, a, u)
      /\ o.op = "flag" => Applied(o) = SetFlag(flash, a)
  BY <1>1 DEF Applied, a, u
<1>4. CASE o.op = "erase"
  BY <1>2, <1>3, <1>4 DEF a, u
<1>5. CASE o.op = "program"
  BY <1>2, <1>3, <1>5 DEF a, u
<1>6. CASE o.op = "flag"
  <2>1. Applied(o) = SetFlag(flash, a) /\ o.op # "erase" /\ o.op # "program"
    BY <1>3, <1>6
  <2>2. x # a => SetFlag(flash, a)[x] = flash[x]
    BY <1>2
  <2>3. flash[a] \in Headers => SetFlag(flash, a)[a] = [flash[a] EXCEPT !.validflag = TRUE]
    BY <1>2
  <2>4. SectorOf(x) # SectorOf(a) => x # a
    OBVIOUS
  <2>. QED
    BY <2>1, <2>2, <2>3, <2>4, Zenon DEF a
<1>. QED
  BY <1>1, <1>4, <1>5, <1>6

(* The operations that are left after one.                                 *)
LEMMA TailOps ==
    ASSUME NEW ops \in Seq(FlashOps), ops # << >>
    PROVE  /\ Head(ops) = ops[1] /\ Head(ops) \in FlashOps /\ 1 \in 1..Len(ops) /\ Len(ops) \in Nat \ {0}
           /\ Tail(ops) \in Seq(FlashOps) /\ Len(Tail(ops)) = Len(ops) - 1
           /\ \A i \in 1..Len(Tail(ops)) : Tail(ops)[i] = ops[i + 1] /\ i + 1 \in 1..Len(ops)
<1>. DEFINE T == Tail(ops)
<1>1. /\ Head(ops) = ops[1] /\ Head(ops) \in FlashOps /\ T \in Seq(FlashOps)
      /\ Len(T) = Len(ops) - 1 /\ \A i \in 1..Len(T) : T[i] = ops[i + 1]
  BY HeadTailProperties
<1>2. Len(ops) \in Nat
  BY LenProperties
<1>3. Len(ops) # 0
  BY EmptySeq
<1>. HIDE DEF T
<1>4. \A i \in 1..Len(T) : i + 1 \in 1..Len(ops)
  BY <1>1, <1>2, <1>3
<1>5. 1 \in 1..Len(ops) /\ Len(ops) \in Nat \ {0}
  BY <1>2, <1>3
<1>. QED
  BY <1>1, <1>4, <1>5 DEF T

(* The start of a bank and every address up to its end are between.        *)
LEMMA BetweenBanks ==
    ASSUME NEW b \in Banks, NEW x \in Offset(b)..(Offset(b) + BankSize), NEW o,
           o.at = x \/ o.at = SectorOf(x)
    PROVE  BetweenOp(o)
<1>1. x \in Nat /\ SectorOf(x) >= SectorSize /\ SectorOf(x) + SectorSize <= ProductHeader
  BY BankEnds, Places
<1>2. SectorOf(SectorOf(x)) = SectorOf(x)
  BY <1>1, SectorStart
<1>. QED
  BY <1>1, <1>2 DEF BetweenOp

(* The factory leaves the rest of the flash to the product.                *)
LEMMA OutsideInit == Init => OutsideInv
<1>. SUFFICES ASSUME Init PROVE OutsideInv
  OBVIOUS
<1>1. job.kind = "none" /\ job.ops = << >>
  BY DEF Init, NoJob
<1>2. OutsideBanksUntouched
  <2>1. PICK images \in FactoryImages : flash = [a \in Addresses |-> FactoryUnit(images, a)]
    BY DEF Init
  <2>2. ASSUME NEW a \in Addresses, SectorOf(a) = 0 \/ a >= ProductHeader
        PROVE  a < Offset(1) \/ a >= ProductHeader
    <3>1. a \in Nat /\ a < SectorOf(a) + SectorSize /\ SectorSize \in Nat
      BY Places, Sector, LayoutAssumption
    <3>2. Offset(1) = SectorSize
      BY LayoutAssumption DEF Offset
    <3>. QED
      BY <2>2, <3>1, <3>2
  <2>3. ASSUME NEW a \in Addresses, SectorOf(a) = 0 \/ a >= ProductHeader
        PROVE  flash[a] = Foreign
    BY <2>1, <2>2, <2>3 DEF FactoryUnit
  <2>. QED
    BY <2>3 DEF OutsideBanksUntouched
<1>. QED
  BY <1>1, <1>2 DEF OutsideInv, EndInv

(* No step of the session writes anywhere else.                            *)
LEMMA EndInvStep ==
    ASSUME TypeInv, EndInv, [Next]_vars, WholeFiles
    PROVE  EndInv'
<1>1. CASE QuietStep \/ BlockDoneStep
  BY <1>1 DEF QuietStep, BlockDoneStep, EndInv, NoJob
<1>2. CASE FirstBlockStep \/ LaterBlockStep
  <2>1. job'.kind = "block"
    BY <1>2 DEF FirstBlockStep, LaterBlockStep
  <2>. QED
    BY <2>1 DEF EndInv
<1>3. CASE EndStep
  <2>1. job'.ops = <<FlagOp(Base)>> /\ UNCHANGED <<Idx, Base, peer>>
    BY <1>3 DEF EndStep, Idx, Base
  <2>. QED
    BY <1>3, <2>1 DEF EndStep, EndInv, Open, Sending
<1>4. CASE flash_operation \/ unchecked_fault
  <2>1. /\ job.ops # << >> /\ job' = [job EXCEPT !.ops = Tail(job.ops)]
        /\ UNCHANGED <<suota_state, peer>>
    BY <1>4 DEF flash_operation, unchecked_fault
  <2>2. job'.kind = job.kind /\ job'.ops = Tail(job.ops)
    BY <2>1, JobFacts
  <2>3. UNCHANGED <<Idx, Base, peer>>
    BY <2>1 DEF Idx, Base
  <2>4. job.ops = <<FlagOp(Base)>> => Tail(job.ops) = << >>
    <3>. DEFINE o == FlagOp(Base)
    <3>. HIDE DEF o
    <3>1. job.ops = <<o>> => Tail(job.ops) = << >>
      OBVIOUS
    <3>. QED
      BY <3>1 DEF o
  <2>. QED
    BY <2>1, <2>2, <2>3, <2>4 DEF EndInv, Open, Sending
<1>5. CASE UNCHANGED vars
  BY <1>5 DEF vars, EndInv, Open, Sending, Idx, Base
<1>. QED
  BY <1>1, <1>2, <1>3, <1>4, <1>5, StepCases

(* No step writes outside the two banks, as every operation of a handler   *)
(* that is still to come aims into them.                                   *)
LEMMA OutsideStep ==
    ASSUME TypeInv, OutsideInv, [Next]_vars, WholeFiles
    PROVE  OutsideInv'
<1>1. EndInv'
  BY EndInvStep DEF OutsideInv
<1>2. ASSUME flash' = flash, \A i \in 1..Len(job'.ops) : BetweenOp(job'.ops[i])
      PROVE  OutsideInv'
  BY <1>1, <1>2 DEF OutsideInv, OutsideBanksUntouched
<1>3. CASE QuietStep \/ BlockDoneStep
  <2>1. flash' = flash /\ job'.ops = << >>
    BY <1>3 DEF QuietStep, BlockDoneStep, NoJob
  <2>. QED
    BY <1>2, <2>1
<1>4. CASE FirstBlockStep
  <2>1. PICK n \in 1..PdSize :
            /\ Idx = 0 /\ Len(Received(n)) \in 1..PdSize /\ DataArrives(n)
            /\ HeaderStatus(Received(n)[1], new_bank) = "CMP_OK" /\ flash' = flash
            /\ job' = [kind |-> "block", ops |-> app_read_image_headers(new_bank, Received(n))]
    BY <1>4 DEF FirstBlockStep
  <2>. DEFINE O == Offset(new_bank)
              L == Len(Received(n))
              F == app_read_image_headers(new_bank, Received(n))
  <2>2. \A i \in 1..Len(F) :
           \/ F[i].op = "erase" /\ F[i].at = O
           \/ F[i].op = "erase" /\ F[i].at = SectorOf(O + L) /\ SectorOf(O + L) # O
           \/ \E p \in 0..(L - 1) :
                 /\ F[i].op = "program" /\ F[i].at = O + p /\ F[i].checked = TRUE
                 /\ F[i].unit = UnitOf(peer.ver, new_bank, p)
    BY <2>1, FirstOps
  <2>3. /\ new_bank \in Banks /\ O \in Nat /\ L \in 1..SectorSize /\ SectorSize <= BankSize
        /\ SectorSize \in Nat /\ BankSize \in Nat
    <3>1. new_bank \in Banks
      BY BankChoice DEF TypeInv, TypeOK
    <3>. QED
      BY <2>1, <3>1, BankEnds, PdAssumption, LayoutAssumption
  <2>4. job'.ops = F
    BY <2>1
  <2>. HIDE DEF F, L
  <2>5. ASSUME NEW i \in 1..Len(F)
        PROVE  BetweenOp(F[i])
    <3>1. O \in O..(O + BankSize) /\ O + L \in O..(O + BankSize)
          /\ \A p \in 0..(L - 1) : O + p \in O..(O + BankSize)
      BY <2>3
    <3>. QED
      BY <2>2, <2>3, <3>1, BetweenBanks
  <2>. QED
    BY <1>2, <2>1, <2>4, <2>5
<1>5. CASE LaterBlockStep
  <2>1. PICK n \in 1..PdSize :
            /\ Idx # 0 /\ Len(Received(n)) \in 1..PdSize /\ DataArrives(n)
            /\ flash' = flash
            /\ job' = [kind |-> "block", ops |-> app_flash_write_data(Base + Idx, LaterCode(n))]
    BY <1>5 DEF LaterBlockStep, Open
  <2>. DEFINE a == Base + Idx
              m == Len(LaterCode(n))
              W == app_flash_write_data(a, LaterCode(n))
  <2>2. /\ m \in 0..SectorSize /\ Idx + m <= Len0
        /\ \A i \in 1..Len(W) :
              \/ /\ Erases(a, m) = 1 /\ W[i].op = "erase" /\ W[i].at = SectorOf(Erased(a, m))
              \/ \E p \in Idx..(Idx + m - 1) :
                    /\ W[i].op = "program" /\ W[i].at = Base + p /\ W[i].checked = TRUE
                    /\ W[i].unit = Chunk(peer.ver, p)
    BY <2>1, LaterOps
  <2>3. /\ Target \in Banks /\ Base = Offset(Target) /\ Base \in Nat /\ Len0 <= BankSize
        /\ Idx \in Nat /\ Len0 \in Nat /\ SectorSize \in Nat /\ BankSize \in Nat
    BY <2>1, LaterBlockFacts, LayoutAssumption, Fields DEF TypeInv, TypeOK
  <2>4. job'.ops = W
    BY <2>1
  <2>. HIDE DEF W, m
  <2>5. ASSUME NEW i \in 1..Len(W)
        PROVE  BetweenOp(W[i])
    <3>1. /\ a \in Base..(Base + BankSize) /\ a + m \in Base..(Base + BankSize)
          /\ \A p \in Idx..(Idx + m - 1) : Base + p \in Base..(Base + BankSize)
      <4>1. /\ m \in Nat /\ Idx + m <= Len0 /\ Len0 <= BankSize /\ Base \in Nat /\ Idx \in Nat
            /\ Len0 \in Nat /\ BankSize \in Nat
        BY <2>2, <2>3
      <4>. QED
        BY <4>1
    <3>2. Erased(a, m) \in Base..(Base + BankSize)
      BY <3>1 DEF Erased
    <3>. QED
      BY <2>2, <2>3, <3>1, <3>2, BetweenBanks
  <2>. QED
    BY <1>2, <2>1, <2>4, <2>5
<1>6. CASE EndStep
  <2>1. flash' = flash /\ job'.ops = <<FlagOp(Base)>> /\ Base = Offset(Target)
    BY <1>6 DEF EndStep, TypeInv, SessionInv, TargetInv
  <2>2. Target \in Banks /\ Base \in Addresses
    BY <2>1, Places DEF Target, Banks
  <2>3. BetweenOp(FlagOp(Base))
    <3>1. Base \in Offset(Target)..(Offset(Target) + BankSize)
      BY <2>1, <2>2, BankEnds, LayoutAssumption
    <3>2. FlagOp(Base).at = Base
      BY <2>2, OpFields
    <3>. QED
      BY <2>2, <3>1, <3>2, BetweenBanks
  <2>4. \A i \in 1..Len(job'.ops) : BetweenOp(job'.ops[i])
    <3>. DEFINE o == FlagOp(Base)
    <3>1. job'.ops = <<o>> /\ BetweenOp(o)
      BY <2>1, <2>3
    <3>. HIDE DEF o
    <3>. QED
      BY <3>1
  <2>. QED
    BY <1>2, <2>1, <2>4
<1>7. CASE flash_operation \/ unchecked_fault
  <2>1. /\ job.ops # << >> /\ job' = [job EXCEPT !.ops = Tail(job.ops)]
        /\ flash' = flash \/ flash' = Applied(Head(job.ops))
    BY <1>7 DEF flash_operation, unchecked_fault
  <2>2. job.ops \in Seq(FlashOps) /\ job'.ops = Tail(job.ops)
    BY <2>1, JobFacts
  <2>3. \A i \in 1..Len(job'.ops) : BetweenOp(job'.ops[i])
    BY <2>1, <2>2, TailOps DEF OutsideInv
  <2>4. Head(job.ops) \in FlashOps /\ BetweenOp(Head(job.ops))
    BY <2>1, <2>2, TailOps DEF OutsideInv
  <2>5. ASSUME NEW a \in Addresses, SectorOf(a) = 0 \/ a >= ProductHeader
        PROVE  flash'[a] = Foreign
    <3>. DEFINE o == Head(job.ops)
    <3>1. flash[a] = Foreign /\ flash \in [Addresses -> Contents]
      BY <2>5 DEF OutsideInv, OutsideBanksUntouched, TypeInv, TypeOK
    <3>2. SectorOf(a) # SectorOf(o.at)
      <4>1. a \in Nat /\ a < SectorOf(a) + SectorSize /\ SectorSize \in Nat /\ SectorSize >= 2
            /\ ProductHeader \in Nat /\ SectorOf(a) \in Nat
        BY Places, Sector, LayoutAssumption
      <4>2. SectorOf(o.at) >= SectorSize /\ SectorOf(o.at) + SectorSize <= ProductHeader
        BY <2>4 DEF BetweenOp
      <4>. QED
        BY <2>5, <4>1, <4>2
    <3>3. Applied(o)[a] = flash[a]
      <4>. HIDE DEF o
      <4>1. o \in FlashOps
        BY <2>4 DEF o
      <4>. QED
        BY <3>1, <3>2, <4>1, AppliedCell
    <3>. QED
      BY <2>1, <3>1, <3>3
  <2>. QED
    BY <1>1, <2>3, <2>5 DEF OutsideInv, OutsideBanksUntouched
<1>8. CASE UNCHANGED vars
  <2>1. flash' = flash /\ job' = job
    BY <1>8 DEF vars
  <2>. QED
    BY <1>2, <2>1 DEF OutsideInv
<1>. QED
  BY <1>3, <1>4, <1>5, <1>6, <1>7, <1>8, StepCases

(* An initiator that sends data only in turn, and ends sessions only after *)
(* the whole image, makes the receiver write nothing outside of the two    *)
(* banks, whatever it requests besides, however the flash fails, and also  *)
(* for images that fill a bank.  Both hypotheses are needed: the receiver  *)
(* checks neither.                                                         *)
THEOREM RestOfTheFlashIsUntouched ==
    ASSUME WholeFiles
    PROVE  Spec => []OutsideBanksUntouched
<1>1. Init => OutsideInv
  BY OutsideInit
<1>2. TypeInv /\ OutsideInv /\ [Next]_vars => OutsideInv'
  BY OutsideStep
<1>3. OutsideInv => OutsideBanksUntouched
  BY DEF OutsideInv
<1>10. Spec => []TypeInv
  BY TypeCorrect DEF WholeFiles
<1>. QED
  BY <1>1, <1>2, <1>3, <1>10, PTL DEF Spec

-----------------------------------------------------------------------------
(* What the flash holds of an image, and what the handler still owes it.   *)

Cell(p) == flash[Base + p]
Unit(p) == UnitOf(peer.ver, Target, p)

(* Erases that go unnoticed when they fail may leave anything but the      *)
(* header, whose sector is erased before by an operation that is checked.  *)
Sure(p)     == p = 0 \/ "erase" \notin FlashFaults
Reliable(o) == o.checked \/ "erase" \notin FlashFaults

Covers(o, x) == o.op = "erase" /\ o.at = SectorOf(x)

(* The operations put the unit u at x, where c is now, and leave it there. *)
Settled(ops, x, c, u) ==
    \/ c = u /\ \A j \in 1..Len(ops) : ~Covers(ops[j], x)
    \/ \E i \in 1..Len(ops) :
          /\ ops[i].op = "program" /\ ops[i].at = x
          /\ \A j \in (i + 1)..Len(ops) : ~Covers(ops[j], x)
          /\ \/ c \in {Blank, u}
             \/ \E j \in 1..(i - 1) : Covers(ops[j], x) /\ Reliable(ops[j])

(* The operations leave x in a state in which u can be written.            *)
Prepared(ops, x, c, u) ==
    \/ c \in {Blank, u}
    \/ \E j \in 1..Len(ops) : Covers(ops[j], x) /\ Reliable(ops[j])

(* What the operation o makes of c at x, if it writes nothing but u there. *)
Result(o, x, c, u) ==
    IF Covers(o, x) THEN Blank
    ELSE IF o.op = "program" /\ o.at = x THEN Programmed(c, u) ELSE c

(* The first operation brings x closer to u, or fails where a later one    *)
(* makes good for it.                                                      *)
LEMMA SettledStep ==
    ASSUME NEW ops \in Seq(FlashOps), ops # << >>, NEW x, NEW c, NEW u, Settled(ops, x, c, u)
    PROVE  /\ Settled(Tail(ops), x, Result(ops[1], x, c, u), u)
           /\ ops[1].op = "erase" /\ ~Reliable(ops[1]) => Settled(Tail(ops), x, c, u)
<1>. DEFINE T == Tail(ops)
            d == Result(ops[1], x, c, u)
<1>1. /\ 1 \in 1..Len(ops) /\ Len(ops) \in Nat \ {0} /\ Len(T) = Len(ops) - 1
      /\ \A i \in 1..Len(T) : T[i] = ops[i + 1] /\ i + 1 \in 1..Len(ops)
  BY TailOps
<1>2. c \in {Blank, u} => d \in {Blank, u}
  BY DEF Result, Programmed
<1>. HIDE DEF T
<1>3. CASE c = u /\ \A j \in 1..Len(ops) : ~Covers(ops[j], x)
  <2>1. \A j \in 1..Len(T) : ~Covers(T[j], x)
    BY <1>1, <1>3
  <2>2. d = u
    BY <1>1, <1>3 DEF Result, Programmed
  <2>. QED
    BY <1>3, <2>1, <2>2 DEF Settled, T
<1>4. ASSUME NEW i \in 1..Len(ops), ops[i].op = "program" /\ ops[i].at = x,
             \A j \in (i + 1)..Len(ops) : ~Covers(ops[j], x),
             c \in {Blank, u} \/ \E j \in 1..(i - 1) : Covers(ops[j], x) /\ Reliable(ops[j])
      PROVE  /\ Settled(T, x, d, u)
             /\ ops[1].op = "erase" /\ ~Reliable(ops[1]) => Settled(T, x, c, u)
  <2>1. CASE i = 1
    <3>1. \A j \in 1..Len(T) : ~Covers(T[j], x)
      <4>1. \A j \in 1..Len(T) : j + 1 \in (i + 1)..Len(ops)
        BY <1>1, <2>1
      <4>. QED
        BY <1>1, <1>4, <4>1
    <3>2. c \in {Blank, u}
      BY <1>4, <2>1
    <3>3. d = u /\ ops[1].op # "erase"
      BY <1>4, <2>1, <3>2 DEF Result, Covers, Programmed
    <3>. QED
      BY <3>1, <3>3 DEF Settled
  <2>2. CASE i # 1
    <3>. DEFINE k == i - 1
    <3>1. k \in 1..Len(T) /\ k + 1 = i /\ k \in Nat
      BY <1>1, <1>4, <2>2
    <3>. HIDE DEF k
    <3>2. T[k].op = "program" /\ T[k].at = x
      BY <1>1, <1>4, <3>1
    <3>3. \A j \in (k + 1)..Len(T) : ~Covers(T[j], x)
      <4>1. \A j \in (k + 1)..Len(T) : j \in 1..Len(T) /\ j + 1 \in (i + 1)..Len(ops)
        BY <1>1, <3>1
      <4>. QED
        BY <1>1, <1>4, <4>1
    <3>4. ASSUME NEW j \in 1..(i - 1), Covers(ops[j], x), Reliable(ops[j]), j # 1
          PROVE  \E l \in 1..(k - 1) : Covers(T[l], x) /\ Reliable(T[l])
      <4>. DEFINE l == j - 1
      <4>1. l \in 1..(k - 1) /\ l \in 1..Len(T) /\ l + 1 = j
        BY <1>1, <3>1, <3>4
      <4>. HIDE DEF l
      <4>2. T[l] = ops[j]
        BY <1>1, <4>1
      <4>. QED
        BY <3>4, <4>1, <4>2
    <3>5. d \in {Blank, u} \/ \E l \in 1..(k - 1) : Covers(T[l], x) /\ Reliable(T[l])
      <4>1. Covers(ops[1], x) => d = Blank
        BY DEF Result
      <4>. QED
        BY <1>2, <1>4, <3>4, <4>1
    <3>6. ~Reliable(ops[1]) =>
             c \in {Blank, u} \/ \E l \in 1..(k - 1) : Covers(T[l], x) /\ Reliable(T[l])
      BY <1>4, <3>4
    <3>7. Settled(T, x, d, u)
      BY <3>1, <3>2, <3>3, <3>5 DEF Settled
    <3>8. ~Reliable(ops[1]) => Settled(T, x, c, u)
      BY <3>1, <3>2, <3>3, <3>6 DEF Settled
    <3>. QED
      BY <3>7, <3>8
  <2>. QED
    BY <2>1, <2>2
<1>5. \/ c = u /\ \A j \in 1..Len(ops) : ~Covers(ops[j], x)
      \/ \E i \in 1..Len(ops) :
            /\ ops[i].op = "program" /\ ops[i].at = x
            /\ \A j \in (i + 1)..Len(ops) : ~Covers(ops[j], x)
            /\ c \in {Blank, u} \/ \E j \in 1..(i - 1) : Covers(ops[j], x) /\ Reliable(ops[j])
  BY DEF Settled
<1>. QED
  BY <1>3, <1>4, <1>5 DEF T

(* The same for a place that is only made ready.                           *)
LEMMA PreparedStep ==
    ASSUME NEW ops \in Seq(FlashOps), ops # << >>, NEW x, NEW c, NEW u, Prepared(ops, x, c, u)
    PROVE  /\ Prepared(Tail(ops), x, Result(ops[1], x, c, u), u)
           /\ ~Reliable(ops[1]) => Prepared(Tail(ops), x, c, u)
<1>. DEFINE T == Tail(ops)
            d == Result(ops[1], x, c, u)
<1>1. /\ 1 \in 1..Len(ops) /\ Len(ops) \in Nat \ {0} /\ Len(T) = Len(ops) - 1
      /\ \A i \in 1..Len(T) : T[i] = ops[i + 1] /\ i + 1 \in 1..Len(ops)
  BY TailOps
<1>2. c \in {Blank, u} => d \in {Blank, u}
  BY DEF Result, Programmed
<1>3. Covers(ops[1], x) => d = Blank
  BY DEF Result
<1>. HIDE DEF T, d
<1>4. ASSUME NEW j \in 1..Len(ops), Covers(ops[j], x), Reliable(ops[j]), j # 1
      PROVE  \E l \in 1..Len(T) : Covers(T[l], x) /\ Reliable(T[l])
  <2>. DEFINE l == j - 1
  <2>1. l \in 1..Len(T) /\ l + 1 = j
    BY <1>1, <1>4
  <2>. HIDE DEF l
  <2>2. T[l] = ops[j]
    BY <1>1, <2>1
  <2>. QED
    BY <1>4, <2>1, <2>2
<1>5. c \in {Blank, u} \/ \E j \in 1..Len(ops) : Covers(ops[j], x) /\ Reliable(ops[j])
  BY DEF Prepared
<1>6. Prepared(T, x, d, u)
  BY <1>2, <1>3, <1>4, <1>5 DEF Prepared
<1>7. ~Reliable(ops[1]) => Prepared(T, x, c, u)
  BY <1>4, <1>5 DEF Prepared
<1>. QED
  BY <1>6, <1>7 DEF T, d

(* With nothing left to do.                                                *)
LEMMA NothingLeft ==
    ASSUME NEW x, NEW c, NEW u
    PROVE  /\ Settled(<< >>, x, c, u) => c = u
           /\ Prepared(<< >>, x, c, u) => c \in {Blank, u}
<1>1. \A i \in 1..Len(<< >>) : FALSE
  OBVIOUS
<1>. QED
  BY <1>1 DEF Settled, Prepared

(* The sector after a, and the sectors of the next few addresses.          *)
LEMMA NextSector ==
    ASSUME NEW a \in Nat, NEW m \in 0..SectorSize
    PROVE  /\ a + m \in Nat /\ SectorOf(SectorOf(a) + SectorSize) = SectorOf(a) + SectorSize
           /\ SectorOf(a + m) \in {SectorOf(a), SectorOf(a) + SectorSize}
           /\ SectorOf(a) = a /\ m < SectorSize => SectorOf(a + m) = a
           /\ \A x \in a..(a + m) : SectorOf(x) = SectorOf(a) \/ SectorOf(x) = SectorOf(a + m)
<1>. DEFINE s == SectorOf(a)
            t == s + SectorSize
<1>1. /\ SectorSize \in Nat /\ SectorSize >= 2 /\ s \in Nat /\ s <= a /\ a < s + SectorSize
      /\ t \in Nat /\ SectorOf(s) = s /\ m \in Nat /\ m <= SectorSize
  BY LayoutAssumption, Sector, SectorStart
<1>2. SectorOf(t) = t
  <2>1. SectorOf(t) \in Nat /\ SectorOf(t) <= t /\ t < SectorOf(t) + SectorSize
    BY <1>1, Sector
  <2>2. SectorOf(s) # SectorOf(t) /\ s <= t
    BY <1>1, <2>1
  <2>3. SectorOf(s) + SectorSize <= SectorOf(t)
    BY <1>1, <2>2, SectorOrder
  <2>. QED
    BY <1>1, <2>1, <2>3
<1>3. ASSUME NEW x \in Nat, a <= x, x <= a + m
      PROVE  (x < t => SectorOf(x) = s) /\ (x >= t => SectorOf(x) = t)
  <2>1. x < t => s <= x /\ x < s + SectorSize
    BY <1>1, <1>3
  <2>2. x >= t => t <= x /\ x < t + SectorSize
    BY <1>1, <1>3
  <2>3. x < t => SectorOf(x) = s
    BY <1>1, <2>1, Sector
  <2>4. x >= t => SectorOf(x) = SectorOf(t)
    <3>1. \A c \in Nat : SectorOf(t) <= c /\ c < SectorOf(t) + SectorSize => SectorOf(c) = SectorOf(t)
      BY <1>1, Sector
    <3>. HIDE DEF t
    <3>. QED
      BY <1>2, <1>3, <2>2, <3>1
  <2>. QED
    BY <1>2, <2>3, <2>4
<1>. HIDE DEF s, t
<1>4. a + m \in Nat /\ a <= a + m /\ a + m <= a + m
  BY <1>1
<1>5. SectorOf(a + m) \in {s, t}
  BY <1>1, <1>3, <1>4
<1>6. s = a /\ m < SectorSize => SectorOf(a + m) = a
  <2>1. s = a /\ m < SectorSize => a + m < t
    BY <1>1 DEF t
  <2>. QED
    BY <1>3, <1>4, <2>1
<1>7. ASSUME NEW x \in a..(a + m)
      PROVE  SectorOf(x) = s \/ SectorOf(x) = SectorOf(a + m)
  <2>1. x \in Nat /\ a <= x /\ x <= a + m /\ (x >= t => a + m >= t) /\ (x >= t \/ x < t)
    BY <1>1, <1>4
  <2>. QED
    BY <1>3, <1>4, <2>1
<1>. QED
  BY <1>2, <1>4, <1>5, <1>6, <1>7 DEF s, t

(* The images are smaller than a bank, and a bank has two sectors or more. *)
Fits == BankSize > SectorSize /\ \A v \in Versions : ImageLen[v] < BankSize

(* The rest of the sector that holds unit n, if n is not its first one.    *)
Behind(n) == {p \in n..(BankSize - 1) : /\ SectorOf(Base + p) = SectorOf(Base + n)
                                        /\ SectorOf(Base + n) # Base + n}

Written(n) == \A p \in 0..(n - 1) : Sure(p) => Cell(p) = Unit(p)
Ready(n)   == \A p \in Behind(n) : Sure(p) => Cell(p) \in {Blank, Unit(p)}

(* Where the image will be when the handler is done.                       *)
Reach == Idx + Len(Pd)

(* An operation on the bank of the image, not before what is confirmed.    *)
OpInside(o) ==
    \/ o.op = "erase" /\ SectorOf(o.at) = o.at /\ o.at \in (Base + Idx)..(Base + BankSize - 1)
    \/ /\ o.op = "program" /\ o.checked = TRUE
       /\ \E p \in Idx..(BankSize - 1) : o.at = Base + p /\ o.unit = Unit(p)

BlockInv ==
    /\ Reach <= BankSize
    /\ \A i \in 1..Len(job.ops) : OpInside(job.ops[i])
    /\ \A p \in 0..(Reach - 1) : Sure(p) => Settled(job.ops, Base + p, Cell(p), Unit(p))
    /\ \A p \in Behind(Reach) : Sure(p) => Prepared(job.ops, Base + p, Cell(p), Unit(p))
    /\ Idx # 0 => Written(Idx) /\ Ready(Idx)
    /\ \/ Cell(0) \in {Blank, Unit(0)}
       \/ job.ops # << >> /\ Covers(job.ops[1], Base) /\ job.ops[1].checked = TRUE

(* The image is complete, and the header says so.                          *)
Flagged(n) ==
    /\ Cell(0) = Header(peer.ver, imageid(Target), TRUE)
    /\ \A p \in 1..(n - 1) : Sure(p) => Cell(p) = Unit(p)

StoreInv ==
    /\ Open /\ job.kind = "none" => Written(Idx) /\ Ready(Idx)
    /\ job.kind = "block" => BlockInv
    /\ job.kind = "end" => IF job.ops # << >> THEN Written(Len0) ELSE Flagged(Len0)

(* Where the image goes.                                                   *)
LEMMA TargetFacts ==
    ASSUME TypeInv, Open \/ job.kind = "block"
    PROVE  /\ Target \in Banks /\ 3 - Target \in Banks /\ Base = Offset(Target) /\ Base \in Nat
           /\ SectorOf(Base) = Base /\ Base >= SectorSize /\ Base \in Addresses
           /\ Idx \in Nat /\ Len0 \in Nat /\ Len0 <= BankSize /\ Len0 = ImageLen[peer.ver]
           /\ BankSize \in Nat /\ SectorSize \in Nat /\ SectorSize >= 2
           /\ peer.ver \in Versions /\ flash \in [Addresses -> Contents]
           /\ \A p \in 0..BankSize : Base + p \in Addresses
<1>1. /\ Sending /\ Base = Offset(Target) /\ Len0 = ImageLen[peer.ver] /\ Len0 <= BankSize
      /\ suota_state \in app_suota_state /\ peer \in Peers /\ flash \in [Addresses -> Contents]
  BY DEF TypeInv, TypeOK, SessionInv, TargetInv
<1>2. Target \in Banks /\ 3 - Target \in Banks
  BY DEF Target, Banks
<1>3. /\ Base \in Nat /\ SectorOf(Base) = Base /\ Base >= SectorSize /\ Base \in Addresses
      /\ \A x \in Base..(Base + BankSize) : x \in Addresses
  BY <1>1, <1>2, BankEnds, BankStart, Places DEF Banks
<1>4. BankSize \in Nat /\ SectorSize \in Nat /\ SectorSize >= 2
  BY LayoutAssumption
<1>5. \A p \in 0..BankSize : Base + p \in Base..(Base + BankSize)
  BY <1>3, <1>4
<1>6. peer.ver \in Versions /\ Idx \in Nat /\ Len0 \in Nat
  BY <1>1, SentImage, Fields
<1>. QED
  BY <1>1, <1>2, <1>3, <1>4, <1>5, <1>6

(* The header that is written depends on the other bank only.              *)
LEMMA UnitsStay ==
    ASSUME flash'[Offset(3 - Target)] = flash[Offset(3 - Target)], UNCHANGED <<Base, peer.ver>>
    PROVE  /\ Target' = Target /\ imageid(Target)' = imageid(Target)
           /\ \A p : Unit(p)' = Unit(p)
<1>1. Target' = Target
  BY DEF Target
<1>2. imageid(Target)' = imageid(Target)
  BY <1>1 DEF imageid, IsValid, HeaderOf
<1>. QED
  BY <1>1, <1>2 DEF Unit, UnitOf, NewHeader

(* An operation of a block changes cells of its bank only, of the part     *)
(* that is not confirmed.                                                  *)
LEMMA OpCell ==
    ASSUME TypeInv, job.kind = "block", NEW o \in FlashOps, OpInside(o)
    PROVE  /\ \A p \in 0..(BankSize - 1) :
                 Applied(o)[Base + p] = Result(o, Base + p, Cell(p), Unit(p))
           /\ \A p \in 0..(BankSize - 1) : p < Idx =>
                 Result(o, Base + p, Cell(p), Unit(p)) = Cell(p)
           /\ \A x \in Addresses : x < Base \/ x >= Base + BankSize => Applied(o)[x] = flash[x]
<1>1. /\ Target \in Banks /\ Base = Offset(Target) /\ Base \in Nat /\ Idx \in Nat
      /\ BankSize \in Nat /\ SectorSize \in Nat /\ SectorSize >= 2
      /\ flash \in [Addresses -> Contents] /\ \A p \in 0..BankSize : Base + p \in Addresses
  BY TargetFacts
<1>2. CASE o.op = "erase" /\ SectorOf(o.at) = o.at /\ o.at \in (Base + Idx)..(Base + BankSize - 1)
  <2>1. ASSUME NEW x \in Addresses
        PROVE  Applied(o)[x] = IF SectorOf(x) = o.at THEN Blank ELSE flash[x]
    <3>1. Applied(o)[x] = IF SectorOf(x) = SectorOf(o.at) THEN Blank ELSE flash[x]
      BY <1>1, <1>2, AppliedCell
    <3>. QED
      BY <1>2, <3>1
  <2>2. ASSUME NEW x \in Nat, SectorOf(x) = o.at
        PROVE  Base + Idx <= x /\ x < Base + BankSize
    <3>1. o.at \in Nat /\ o.at >= Base + Idx /\ o.at + SectorSize <= Base + BankSize
      <4>1. o.at \in Offset(Target)..(Offset(Target) + BankSize - 1)
        BY <1>1, <1>2
      <4>2. SectorOf(o.at) + SectorSize <= Offset(Target) + BankSize
        BY <1>1, <4>1, BankSectors
      <4>. QED
        BY <1>1, <1>2, <4>2
    <3>2. o.at <= x /\ x < o.at + SectorSize
      BY <2>2, Sector
    <3>. QED
      BY <1>1, <3>1, <3>2
  <2>3. ASSUME NEW p \in 0..(BankSize - 1)
        PROVE  /\ Applied(o)[Base + p] = Result(o, Base + p, Cell(p), Unit(p))
               /\ p < Idx => Result(o, Base + p, Cell(p), Unit(p)) = Cell(p)
    <3>1. Base + p \in Addresses /\ Base + p \in Nat /\ p \in Nat
      BY <1>1
    <3>2. Applied(o)[Base + p] = IF SectorOf(Base + p) = o.at THEN Blank ELSE Cell(p)
      BY <2>1, <3>1 DEF Cell
    <3>3. p < Idx => SectorOf(Base + p) # o.at
      BY <1>1, <2>2, <3>1
    <3>4. Result(o, Base + p, Cell(p), Unit(p)) = IF SectorOf(Base + p) = o.at THEN Blank ELSE Cell(p)
      BY <1>2 DEF Result, Covers
    <3>. QED
      BY <3>2, <3>3, <3>4
  <2>4. ASSUME NEW x \in Addresses, x < Base \/ x >= Base + BankSize
        PROVE  Applied(o)[x] = flash[x]
    <3>1. x \in Nat /\ SectorOf(x) # o.at
      BY <1>1, <2>2, <2>4, Places
    <3>. QED
      BY <2>1, <3>1
  <2>5. \A x \in Addresses : x < Base \/ x >= Base + BankSize => Applied(o)[x] = flash[x]
    BY <2>4
  <2>6. \A p \in 0..(BankSize - 1) : Applied(o)[Base + p] = Result(o, Base + p, Cell(p), Unit(p))
    BY <2>3
  <2>7. \A p \in 0..(BankSize - 1) : p < Idx => Result(o, Base + p, Cell(p), Unit(p)) = Cell(p)
    BY <2>3, Zenon
  <2>. QED
    BY <2>5, <2>6, <2>7, Zenon
<1>3. ASSUME o.op = "program", NEW q \in Idx..(BankSize - 1), o.at = Base + q, o.unit = Unit(q)
      PROVE  /\ \A p \in 0..(BankSize - 1) :
                    Applied(o)[Base + p] = Result(o, Base + p, Cell(p), Unit(p))
             /\ \A p \in 0..(BankSize - 1) : p < Idx =>
                    Result(o, Base + p, Cell(p), Unit(p)) = Cell(p)
             /\ \A x \in Addresses : x < Base \/ x >= Base + BankSize => Applied(o)[x] = flash[x]
  <2>1. ASSUME NEW x \in Addresses
        PROVE  Applied(o)[x] = IF x = o.at THEN Programmed(flash[x], Unit(q)) ELSE flash[x]
    <3>1. Applied(o)[x] = IF x = o.at THEN Programmed(flash[x], o.unit) ELSE flash[x]
      BY <1>1, <1>3, AppliedCell
    <3>. QED
      BY <1>3, <3>1, Zenon
  <2>2. ASSUME NEW p \in 0..(BankSize - 1)
        PROVE  /\ Applied(o)[Base + p] = Result(o, Base + p, Cell(p), Unit(p))
               /\ p < Idx => Result(o, Base + p, Cell(p), Unit(p)) = Cell(p)
    <3>1. Base + p \in Addresses /\ (Base + p = Base + q <=> p = q) /\ p \in Nat /\ q \in Nat /\ q >= Idx
      BY <1>1, <1>3
    <3>2. Applied(o)[Base + p] = IF Base + p = o.at THEN Programmed(Cell(p), Unit(q)) ELSE Cell(p)
      BY <2>1, <3>1 DEF Cell
    <3>3. Result(o, Base + p, Cell(p), Unit(p)) =
             IF Base + p = o.at THEN Programmed(Cell(p), Unit(p)) ELSE Cell(p)
      BY <1>3 DEF Result, Covers
    <3>4. p < Idx => p # q
      BY <1>1, <3>1
    <3>. QED
      BY <1>3, <3>1, <3>2, <3>3, <3>4
  <2>3. ASSUME NEW x \in Addresses, x < Base \/ x >= Base + BankSize
        PROVE  Applied(o)[x] = flash[x]
    <3>1. x \in Nat /\ x # o.at
      BY <1>1, <1>3, <2>3, Places
    <3>. QED
      BY <2>1, <3>1
  <2>. QED
    BY <2>2, <2>3
<1>. QED
  BY <1>2, <1>3 DEF OpInside

(* The two banks do not overlap.                                           *)
LEMMA BanksApart ==
    ASSUME NEW b \in Banks, NEW c \in Banks, b # c, NEW x \in Offset(c)..(Offset(c) + BankSize - 1)
    PROVE  x < Offset(b) \/ x >= Offset(b) + BankSize
<1>1. /\ Offset(2) = Offset(1) + BankSize /\ BankSize \in Nat /\ Offset(1) \in Nat
      /\ (b = 1 /\ c = 2) \/ (b = 2 /\ c = 1)
  BY LayoutAssumption DEF Offset, Banks
<1>2. CASE b = 1 /\ c = 2
  BY <1>1, <1>2
<1>3. CASE b = 2 /\ c = 1
  BY <1>1, <1>3
<1>. QED
  BY <1>1, <1>2, <1>3

(* A handler goes on with a block: what it owes becomes less.              *)
LEMMA BlockGoesOn ==
    ASSUME TypeInv, job.kind = "block", BlockInv, flash_operation \/ unchecked_fault
    PROVE  /\ BlockInv' /\ job'.kind = "block" /\ Target' = Target
           /\ \A x \in Addresses : x < Base \/ x >= Base + BankSize => flash'[x] = flash[x]
           /\ flash'[Base] \in {Blank, Unit(0)}
<1>. DEFINE ops == job.ops
            o == ops[1]
            T == Tail(ops)
<1>1. /\ ops # << >> /\ job' = [job EXCEPT !.ops = T] /\ UNCHANGED <<suota_state, peer>>
      /\ \/ flash' = Applied(Head(ops))
         \/ flash' = flash /\ CanFail(Head(ops)) /\ ~Head(ops).checked
  BY DEF flash_operation, unchecked_fault
<1>2. ops \in Seq(FlashOps) /\ job'.ops = T /\ job'.kind = "block"
  BY <1>1, JobFacts
<1>3. /\ Head(ops) = o /\ o \in FlashOps /\ OpInside(o)
      /\ Len(T) \in Nat /\ \A i \in 1..Len(T) : T[i] = ops[i + 1] /\ OpInside(T[i])
  BY <1>1, <1>2, TailOps, LenProperties DEF BlockInv
<1>4. UNCHANGED <<Idx, Base, Len0, Pd, peer.ver, Reach>>
  BY <1>1 DEF Idx, Base, Len0, Pd, Reach
<1>5. /\ Base \in Nat /\ Base \in Addresses /\ Idx \in Nat /\ BankSize \in Nat \ {0} /\ Target \in Banks
      /\ 3 - Target \in Banks /\ 3 - Target # Target /\ Base = Offset(Target)
      /\ Base + 0 = Base /\ SectorOf(Base) = Base
  BY TargetFacts, LayoutAssumption DEF Banks
<1>6. \A x \in Addresses : x < Base \/ x >= Base + BankSize => flash'[x] = flash[x]
  BY <1>1, <1>3, OpCell
<1>7. /\ Target' = Target /\ \A p : Unit(p)' = Unit(p)
  <2>1. Offset(3 - Target) \in Addresses
    BY <1>5, Places
  <2>2. Offset(3 - Target) < Base \/ Offset(3 - Target) >= Base + BankSize
    <3>. DEFINE c == 3 - Target
    <3>1. c \in Banks /\ c # Target /\ Offset(c) \in Offset(c)..(Offset(c) + BankSize - 1)
      BY <1>5, BankEnds
    <3>. HIDE DEF c
    <3>2. Offset(c) < Offset(Target) \/ Offset(c) >= Offset(Target) + BankSize
      BY <1>5, <3>1, BanksApart
    <3>. QED
      BY <1>5, <3>2 DEF c
  <2>3. flash'[Offset(3 - Target)] = flash[Offset(3 - Target)]
    BY <1>6, <2>1, <2>2
  <2>. QED
    BY <1>4, <2>3, UnitsStay
<1>8. \A p : Cell(p)' = flash'[Base + p]
  BY <1>4 DEF Cell
<1>9. CASE flash' = Applied(o)
  <2>1. /\ \A p \in 0..(BankSize - 1) :
              flash'[Base + p] = Result(o, Base + p, Cell(p), Unit(p))
        /\ \A p \in 0..(BankSize - 1) : p < Idx =>
              Result(o, Base + p, Cell(p), Unit(p)) = Cell(p)
    BY <1>3, <1>9, OpCell
  <2>2. \A p \in 0..(BankSize - 1) : Cell(p)' = Result(o, Base + p, Cell(p), Unit(p))
    BY <1>8, <2>1
  <2>3. Reach \in Nat /\ Reach <= BankSize
    <3>1. Idx + Len(Pd) \in Nat
      BY <1>5, NextIndex
    <3>. QED
      BY <3>1 DEF BlockInv, Reach
  <2>4. ASSUME NEW p \in 0..(Reach - 1), Sure(p)
        PROVE  Settled(T, Base + p, Cell(p)', Unit(p)')
    <3>1. p \in 0..(BankSize - 1) /\ Settled(ops, Base + p, Cell(p), Unit(p))
      BY <1>5, <2>3, <2>4 DEF BlockInv
    <3>2. Settled(T, Base + p, Result(o, Base + p, Cell(p), Unit(p)), Unit(p))
      BY <1>1, <1>2, <3>1, SettledStep
    <3>. QED
      BY <1>7, <2>2, <3>1, <3>2
  <2>5. ASSUME NEW p \in Behind(Reach), Sure(p)
        PROVE  Prepared(T, Base + p, Cell(p)', Unit(p)')
    <3>1. p \in 0..(BankSize - 1) /\ Prepared(ops, Base + p, Cell(p), Unit(p))
      BY <1>5, <2>3, <2>5 DEF BlockInv, Behind
    <3>2. Prepared(T, Base + p, Result(o, Base + p, Cell(p), Unit(p)), Unit(p))
      BY <1>1, <1>2, <3>1, PreparedStep
    <3>. QED
      BY <1>7, <2>2, <3>1, <3>2
  <2>6. ASSUME Idx # 0, NEW p \in 0..(Idx - 1), Sure(p)
        PROVE  Cell(p)' = Unit(p)'
    <3>1. p \in 0..(BankSize - 1) /\ p < Idx
      <4>1. Idx <= Reach
        BY <1>5, NextIndex, Fields DEF Reach, TypeInv, TypeOK
      <4>. QED
        BY <1>5, <2>3, <2>6, <4>1
    <3>2. Cell(p) = Unit(p)
      BY <2>6 DEF BlockInv, Written
    <3>. QED
      BY <1>7, <2>1, <2>2, <3>1, <3>2
  <2>7. ASSUME Idx # 0, NEW p \in Behind(Idx), Sure(p)
        PROVE  Cell(p)' \in {Blank, Unit(p)'}
    <3>1. p \in 0..(BankSize - 1)
      BY <1>5, <2>7 DEF Behind
    <3>2. Cell(p) \in {Blank, Unit(p)}
      BY <2>7 DEF BlockInv, Ready
    <3>3. Result(o, Base + p, Cell(p), Unit(p)) \in {Blank, Unit(p)}
      BY <3>2 DEF Result, Programmed
    <3>. QED
      BY <1>7, <2>2, <3>1, <3>3
  <2>8. 0 \in 0..(BankSize - 1)
    BY <1>5
  <2>9. flash'[Base] \in {Blank, Unit(0)} /\ Cell(0)' = flash'[Base]
    <3>1. flash'[Base] = Result(o, Base, Cell(0), Unit(0)) /\ Cell(0)' = flash'[Base]
      BY <1>5, <1>8, <2>1, <2>8
    <3>2. CASE Cell(0) \in {Blank, Unit(0)}
      BY <3>1, <3>2 DEF Result, Programmed
    <3>3. CASE Covers(o, Base)
      BY <3>1, <3>3 DEF Result
    <3>. QED
      BY <3>1, <3>2, <3>3 DEF BlockInv
  <2>10. BlockInv'
    <3>1. (Reach <= BankSize)'
      BY <1>4, <2>3
    <3>2. ASSUME NEW i \in 1..Len(job'.ops)
          PROVE  OpInside(job.ops[i])'
      <4>1. job'.ops[i] = T[i] /\ OpInside(T[i])
        BY <1>2, <1>3
      <4>. HIDE DEF T
      <4>. QED
        BY <4>1, <1>4, <1>7 DEF OpInside
    <3>3. Behind(Reach)' = Behind(Reach) /\ Behind(Idx)' = Behind(Idx)
      BY <1>4 DEF Behind
    <3>4. Cell(0)' \in {Blank, Unit(0)'}
      BY <1>7, <2>9
    <3>5. Idx' # 0 => Written(Idx)' /\ Ready(Idx)'
      BY <1>4, <2>6, <2>7, <3>3 DEF Written, Ready, Sure
    <3>6. \A p \in 0..(Reach' - 1) : Sure(p) => Settled(T, Base' + p, Cell(p)', Unit(p)')
      BY <1>4, <2>4
    <3>7. \A p \in Behind(Reach)' : Sure(p) => Prepared(T, Base' + p, Cell(p)', Unit(p)')
      BY <1>4, <2>5, <3>3
    <3>. QED
      BY <1>2, <3>1, <3>2, <3>4, <3>5, <3>6, <3>7 DEF BlockInv
  <2>. QED
    BY <1>2, <1>6, <1>7, <2>9, <2>10
<1>10. CASE flash' = flash /\ CanFail(o) /\ ~o.checked
  <2>1. o.op = "erase" /\ ~Reliable(o)
    BY <1>3, <1>10 DEF OpInside, CanFail, Reliable
  <2>2. \A p : Cell(p)' = Cell(p)
    BY <1>8, <1>10 DEF Cell
  <2>3. ASSUME NEW p \in 0..(Reach - 1), Sure(p)
        PROVE  Settled(T, Base + p, Cell(p)', Unit(p)')
    <3>1. Settled(ops, Base + p, Cell(p), Unit(p))
      BY <2>3 DEF BlockInv
    <3>2. Settled(T, Base + p, Cell(p), Unit(p))
      BY <1>1, <1>2, <2>1, <3>1, SettledStep
    <3>. QED
      BY <1>7, <2>2, <3>2
  <2>4. ASSUME NEW p \in Behind(Reach), Sure(p)
        PROVE  Prepared(T, Base + p, Cell(p)', Unit(p)')
    <3>1. Prepared(ops, Base + p, Cell(p), Unit(p))
      BY <2>4 DEF BlockInv
    <3>2. Prepared(T, Base + p, Cell(p), Unit(p))
      BY <1>1, <1>2, <2>1, <3>1, PreparedStep
    <3>. QED
      BY <1>7, <2>2, <3>2
  <2>5. Cell(0) \in {Blank, Unit(0)} /\ flash'[Base] = flash[Base] /\ Cell(0) = flash[Base]
    BY <1>5, <1>10 DEF BlockInv, Cell
  <2>6. BlockInv'
    <3>1. (Reach <= BankSize)'
      BY <1>4 DEF BlockInv
    <3>2. ASSUME NEW i \in 1..Len(job'.ops)
          PROVE  OpInside(job.ops[i])'
      <4>1. job'.ops[i] = T[i] /\ OpInside(T[i])
        BY <1>2, <1>3
      <4>. HIDE DEF T
      <4>. QED
        BY <4>1, <1>4, <1>7 DEF OpInside
    <3>3. Behind(Reach)' = Behind(Reach) /\ Behind(Idx)' = Behind(Idx)
      BY <1>4 DEF Behind
    <3>4. Cell(0)' \in {Blank, Unit(0)'}
      BY <1>7, <2>2, <2>5
    <3>5. Idx' # 0 => Written(Idx)' /\ Ready(Idx)'
      BY <1>4, <1>7, <2>2, <3>3 DEF BlockInv, Written, Ready, Sure
    <3>6. \A p \in 0..(Reach' - 1) : Sure(p) => Settled(T, Base' + p, Cell(p)', Unit(p)')
      BY <1>4, <2>3
    <3>7. \A p \in Behind(Reach)' : Sure(p) => Prepared(T, Base' + p, Cell(p)', Unit(p)')
      BY <1>4, <2>4, <3>3
    <3>. QED
      BY <1>2, <3>1, <3>2, <3>4, <3>5, <3>6, <3>7 DEF BlockInv
  <2>. QED
    BY <1>2, <1>6, <1>7, <2>5, <2>6
<1>. QED
  BY <1>1, <1>3, <1>9, <1>10

(* A first block begins: its handler owes the header and the first units.  *)
LEMMA FirstBlockBegins ==
    ASSUME TypeInv, Fits, FirstBlockStep
    PROVE  /\ BlockInv' /\ job'.kind = "block" /\ flash' = flash
           /\ Target' = new_bank /\ Base' = Offset(new_bank) /\ new_bank \in Banks
<1>1. PICK n \in 1..PdSize :
          /\ Idx = 0 /\ Len(Received(n)) \in 1..PdSize /\ DataArrives(n)
          /\ HeaderStatus(Received(n)[1], new_bank) = "CMP_OK"
          /\ flash' = flash /\ Base' = Offset(new_bank) /\ Idx' = 0 /\ Pd' = Received(n)
          /\ peer'.ver = peer.ver
          /\ job' = [kind |-> "block", ops |-> app_read_image_headers(new_bank, Received(n))]
  BY DEF FirstBlockStep
<1>. DEFINE b == new_bank
            O == Offset(b)
            L == Len(Received(n))
            F == app_read_image_headers(b, Received(n))
<1>2. /\ F \in Seq(FlashOps) /\ Len(F) \in Nat \ {0}
      /\ F[1].op = "erase" /\ F[1].at = O /\ F[1].checked = TRUE
      /\ \A i \in 1..Len(F) :
            \/ F[i].op = "erase" /\ F[i].at = O
            \/ F[i].op = "erase" /\ F[i].at = SectorOf(O + L) /\ SectorOf(O + L) # O
            \/ \E p \in 0..(L - 1) :
                  /\ F[i].op = "program" /\ F[i].at = O + p /\ F[i].checked = TRUE
                  /\ F[i].unit = UnitOf(peer.ver, b, p)
      /\ \A p \in 0..(L - 1) : \E i \in 2..Len(F) :
            /\ F[i].op = "program" /\ F[i].at = O + p
            /\ \A j \in (i + 1)..Len(F) : ~(F[j].op = "erase" /\ F[j].at = O)
  BY <1>1, FirstOps
<1>3. b \in Banks
  BY BankChoice DEF TypeInv, TypeOK
<1>4. /\ O \in Nat /\ SectorOf(O) = O /\ L \in Nat \ {0} /\ L <= SectorSize /\ L <= BankSize
      /\ SectorSize \in Nat /\ BankSize \in Nat /\ BankSize > SectorSize /\ SectorSize > 0
  <2>1. O \in Nat /\ SectorOf(O) = O
    BY <1>3, BankStart DEF Banks
  <2>2. /\ peer.ver \in Versions /\ ImageLen[peer.ver] \in Nat
        /\ peer.sent + n <= ImageLen[peer.ver] + 1
        /\ L = peer.sent + n - peer.blk /\ peer.sent \in Nat /\ peer.blk \in Nat /\ n \in Nat
    BY <1>1, DataFacts
  <2>3. L \in 1..PdSize /\ PdSize \in 1..SectorSize /\ SectorSize \in Nat /\ BankSize \in Nat
    BY <1>1, PdAssumption, LayoutAssumption
  <2>4. ImageLen[peer.ver] < BankSize /\ BankSize > SectorSize
    BY <2>2 DEF Fits
  <2>. HIDE DEF L, O
  <2>. QED
    BY <2>1, <2>2, <2>3, <2>4
<1>5. /\ Target' = b /\ job'.ops = F /\ job'.kind = "block" /\ Reach' = L /\ Idx' = 0 /\ Base' = O
      /\ flash' = flash
  <2>1. Target' = b
    BY <1>1, <1>3, Places DEF Target, Banks
  <2>2. Reach' = 0 + L
    BY <1>1 DEF Reach
  <2>. QED
    BY <1>1, <1>4, <2>1, <2>2
<1>6. /\ \A p : Unit(p)' = UnitOf(peer.ver, b, p)
      /\ \A p : Cell(p)' = flash[O + p]
  <2>1. imageid(Target)' = imageid(b)
    BY <1>5 DEF imageid, IsValid, HeaderOf
  <2>. HIDE DEF b
  <2>. QED
    BY <1>1, <1>5, <2>1 DEF Unit, UnitOf, NewHeader, Cell
<1>. HIDE DEF F, L, O, b
<1>7. SectorOf(O + L) # O => /\ SectorOf(SectorOf(O + L)) = SectorOf(O + L)
                             /\ SectorOf(O + L) \in O..(O + BankSize - 1)
  <2>1. O \in Nat /\ L \in 0..SectorSize
    BY <1>4
  <2>2. /\ SectorOf(SectorOf(O) + SectorSize) = SectorOf(O) + SectorSize
        /\ SectorOf(O + L) \in {SectorOf(O), SectorOf(O) + SectorSize}
    BY <2>1, NextSector
  <2>3. SectorOf(O + L) # O => SectorOf(O + L) = O + SectorSize
    BY <1>4, <2>2
  <2>4. O + SectorSize \in O..(O + BankSize - 1)
    BY <1>4
  <2>. QED
    BY <1>4, <2>2, <2>3, <2>4
<1>8. ASSUME NEW i \in 1..Len(job'.ops)
      PROVE  OpInside(job.ops[i])'
  <2>1. job'.ops[i] = F[i] /\ i \in 1..Len(F)
    BY <1>5
  <2>2. O \in O..(O + BankSize - 1)
    BY <1>4
  <2>3. \A p \in 0..(L - 1) : p \in 0..(BankSize - 1)
    BY <1>4
  <2>4. \/ F[i].op = "erase" /\ SectorOf(F[i].at) = F[i].at /\ F[i].at \in O..(O + BankSize - 1)
        \/ /\ F[i].op = "program" /\ F[i].checked = TRUE
           /\ \E p \in 0..(BankSize - 1) : F[i].at = O + p /\ F[i].unit = UnitOf(peer.ver, b, p)
    BY <1>2, <1>4, <1>7, <2>1, <2>2, <2>3
  <2>5. O + 0 = O
    BY <1>4
  <2>. QED
    BY <1>5, <1>6, <2>1, <2>4, <2>5 DEF OpInside
<1>9. ASSUME NEW x \in Nat, SectorOf(x) = O
      PROVE  Covers(F[1], x) /\ Reliable(F[1])
  BY <1>2, <1>9 DEF Covers, Reliable
<1>10. ASSUME NEW p \in 0..(L - 1), NEW c, NEW u
       PROVE  Settled(F, O + p, c, u)
  <2>1. O + p \in Nat /\ SectorOf(O + p) = O
    <3>1. p \in 0..SectorSize /\ p < SectorSize
      BY <1>4
    <3>. QED
      BY <1>4, <3>1, NextSector
  <2>2. PICK i \in 2..Len(F) : /\ F[i].op = "program" /\ F[i].at = O + p
                               /\ \A j \in (i + 1)..Len(F) : ~(F[j].op = "erase" /\ F[j].at = O)
    BY <1>2
  <2>3. i \in 1..Len(F) /\ 1 \in 1..(i - 1)
    BY <1>2
  <2>4. \A j \in (i + 1)..Len(F) : ~Covers(F[j], O + p)
    BY <2>1, <2>2 DEF Covers
  <2>. QED
    BY <1>9, <2>1, <2>2, <2>3, <2>4 DEF Settled
<1>11. ASSUME NEW p \in Behind(Reach)', NEW c, NEW u
       PROVE  Prepared(F, O + p, c, u)
  <2>1. p \in L..(BankSize - 1) /\ SectorOf(O + p) = SectorOf(O + L) /\ SectorOf(O + L) # O + L
    BY <1>5 DEF Behind
  <2>2. L < SectorSize
    <3>1. SectorOf(O + SectorSize) = O + SectorSize
      BY <1>4, NextSector
    <3>. QED
      BY <1>4, <2>1, <3>1
  <2>3. SectorOf(O + p) = O
    <3>1. L \in 0..SectorSize
      BY <1>4
    <3>2. SectorOf(O + L) = O
      BY <1>4, <2>2, <3>1, NextSector
    <3>. QED
      BY <2>1, <3>2
  <2>4. O + p \in Nat /\ 1 \in 1..Len(F)
    BY <1>2, <1>4, <2>1
  <2>. QED
    BY <1>9, <2>3, <2>4 DEF Prepared
<1>12. Len(F) # 0 /\ Covers(F[1], O) /\ F # << >>
  <2>1. F # << >>
    BY <1>2, EmptySeq
  <2>. QED
    BY <1>2, <1>4, <1>9, <2>1
<1>13. BlockInv'
  <2>1. (Reach <= BankSize)'
    BY <1>4, <1>5
  <2>2. \A p \in 0..(Reach' - 1) : Settled(F, O + p, Cell(p)', Unit(p)')
    BY <1>5, <1>10
  <2>3. \A p \in Behind(Reach)' : Prepared(F, O + p, Cell(p)', Unit(p)')
    BY <1>11
  <2>. QED
    BY <1>2, <1>5, <1>8, <1>12, <2>1, <2>2, <2>3 DEF BlockInv
<1>. QED
  BY <1>1, <1>3, <1>5, <1>13 DEF b

(* A later block begins: its handler owes the next units, and erases       *)
(* what was not erased before.                                             *)
LEMMA LaterBlockBegins ==
    ASSUME TypeInv, Fits, LaterBlockStep, Written(Idx), Ready(Idx)
    PROVE  /\ BlockInv' /\ job'.kind = "block" /\ flash' = flash
           /\ Target' = Target /\ Base' = Base
<1>1. PICK n \in 1..PdSize :
          /\ Open /\ Len(Received(n)) \in 1..PdSize /\ DataArrives(n)
          /\ flash' = flash /\ Pd' = LaterCode(n) /\ UNCHANGED <<Idx, Base, Len0, peer.ver>>
          /\ job' = [kind |-> "block", ops |-> app_flash_write_data(Base + Idx, LaterCode(n))]
  BY DEF LaterBlockStep
<1>. DEFINE a == Base + Idx
            m == Len(LaterCode(n))
            W == app_flash_write_data(a, LaterCode(n))
            e == Erases(a, m)
            top == Erased(a, m)
<1>2. /\ m \in 0..SectorSize /\ Idx + m <= Len0 /\ W \in Seq(FlashOps)
      /\ \A i \in 1..Len(W) :
            \/ /\ e = 1 /\ W[i].op = "erase" /\ W[i].at = SectorOf(top)
            \/ \E p \in Idx..(Idx + m - 1) :
                  /\ W[i].op = "program" /\ W[i].at = Base + p /\ W[i].checked = TRUE
                  /\ W[i].unit = Chunk(peer.ver, p)
      /\ \A p \in Idx..(Idx + m - 1) : \E i \in 1..Len(W) :
            /\ W[i].op = "program" /\ W[i].at = Base + p
            /\ e = 1 => i # 1
            /\ \A j \in (i + 1)..Len(W) : W[j].op = "program"
      /\ e = 1 => 1 \in 1..Len(W) /\ W[1].op = "erase" /\ W[1].at = SectorOf(top)
  BY <1>1, LaterOps DEF Open
<1>3. /\ Target \in Banks /\ Base = Offset(Target) /\ Base \in Nat /\ Idx \in Nat \ {0} /\ Len0 \in Nat
      /\ Len0 < BankSize /\ BankSize \in Nat /\ SectorSize \in Nat /\ SectorSize >= 2 /\ m \in Nat
      /\ m <= SectorSize /\ Idx + m < BankSize /\ a \in Nat
  <2>1. /\ Target \in Banks /\ Base = Offset(Target) /\ Base \in Nat /\ Idx \in Nat /\ Len0 \in Nat
        /\ BankSize \in Nat /\ SectorSize \in Nat /\ SectorSize >= 2 /\ Len0 = ImageLen[peer.ver]
        /\ peer.ver \in Versions
    BY <1>1, TargetFacts
  <2>2. Len0 < BankSize
    BY <2>1 DEF Fits
  <2>3. Idx # 0
    BY <1>1 DEF Open
  <2>4. m \in 0..SectorSize /\ Idx + m <= Len0
    BY <1>2
  <2>. HIDE DEF m
  <2>. QED
    BY <2>1, <2>2, <2>3, <2>4
<1>4. /\ Target' = Target /\ Idx' = Idx /\ Base' = Base /\ job'.ops = W /\ job'.kind = "block"
      /\ Reach' = Idx + m /\ flash' = flash
      /\ \A p : Unit(p)' = Unit(p)
      /\ \A p : Cell(p)' = Cell(p)
  <2>1. Target' = Target /\ \A p : Unit(p)' = Unit(p)
    BY <1>1, UnitsStay
  <2>2. \A p : Cell(p)' = Cell(p)
    BY <1>1 DEF Cell
  <2>. QED
    BY <1>1, <2>1, <2>2 DEF Reach
<1>. HIDE DEF W, m, e, top, a
<1>5. /\ SectorOf(a) \in Nat /\ SectorOf(a) <= a /\ a < SectorOf(a) + SectorSize
      /\ SectorOf(a + m) \in {SectorOf(a), SectorOf(a) + SectorSize}
      /\ SectorOf(SectorOf(a) + SectorSize) = SectorOf(a) + SectorSize
      /\ SectorOf(a) = a /\ m < SectorSize => SectorOf(a + m) = a
      /\ \A x \in a..(a + m) : SectorOf(x) = SectorOf(a) \/ SectorOf(x) = SectorOf(a + m)
  <2>1. a \in Nat /\ m \in 0..SectorSize
    BY <1>2, <1>3
  <2>2. SectorOf(a) \in Nat /\ SectorOf(a) <= a /\ a < SectorOf(a) + SectorSize
    BY <2>1, Sector
  <2>. QED
    BY <2>1, <2>2, NextSector
<1>6. /\ SectorOf(a) = a => e = 1 /\ top = a
      /\ SectorOf(a) # a /\ SectorOf(a + m) # SectorOf(a) => e = 1 /\ top = a + m
      /\ SectorOf(a) # a /\ SectorOf(a + m) = SectorOf(a) => e = 0
  BY DEF e, top, Erases, Erased
<1>7. e = 1 => /\ SectorOf(SectorOf(top)) = SectorOf(top)
               /\ SectorOf(top) \in a..(Base + BankSize - 1)
  <2>1. a + m < Base + BankSize /\ a <= a + m /\ a + m \in Nat /\ SectorOf(a + m) <= a + m
    <3>1. a + m < Base + BankSize /\ a <= a + m /\ a + m \in Nat
      BY <1>3 DEF a
    <3>. QED
      BY <3>1, Sector
  <2>2. CASE SectorOf(a) = a
    BY <1>3, <1>6, <2>1, <2>2
  <2>3. CASE SectorOf(a) # a /\ SectorOf(a + m) # SectorOf(a)
    <3>1. top = a + m /\ SectorOf(top) = SectorOf(a) + SectorSize
      BY <1>5, <1>6, <2>3
    <3>. QED
      BY <1>3, <1>5, <2>1, <3>1
  <2>. QED
    BY <1>6, <2>2, <2>3
<1>8. ASSUME NEW i \in 1..Len(job'.ops)
      PROVE  OpInside(job.ops[i])'
  <2>1. job'.ops[i] = W[i] /\ i \in 1..Len(W)
    BY <1>4
  <2>2. \A p \in Idx..(Idx + m - 1) : p \in Idx..(BankSize - 1) /\ Chunk(peer.ver, p) = Unit(p)
    BY <1>3 DEF Unit, UnitOf
  <2>3. \/ /\ W[i].op = "erase" /\ SectorOf(W[i].at) = W[i].at
           /\ W[i].at \in (Base + Idx)..(Base + BankSize - 1)
        \/ /\ W[i].op = "program" /\ W[i].checked = TRUE
           /\ \E p \in Idx..(BankSize - 1) : W[i].at = Base + p /\ W[i].unit = Unit(p)
    BY <1>2, <1>7, <2>1, <2>2 DEF a
  <2>. QED
    BY <1>4, <2>1, <2>3 DEF OpInside
<1>9. ASSUME NEW p \in Idx..(BankSize - 1), Sure(p), e = 1, SectorOf(Base + p) = SectorOf(top)
      PROVE  Covers(W[1], Base + p) /\ Reliable(W[1]) /\ 1 \in 1..Len(W)
  <2>1. p # 0
    BY <1>3
  <2>. QED
    BY <1>2, <1>9, <2>1 DEF Covers, Reliable, Sure
<1>10. ASSUME NEW p \in Idx..(BankSize - 1), Sure(p), SectorOf(Base + p) = SectorOf(a), SectorOf(a) # a
       PROVE  Cell(p) \in {Blank, Unit(p)}
  <2>1. p \in Behind(Idx)
    BY <1>10 DEF Behind, a
  <2>. QED
    BY <1>10, <2>1 DEF Ready
<1>11. ASSUME NEW p \in 0..(Idx + m - 1), Sure(p)
       PROVE  Settled(W, Base + p, Cell(p), Unit(p))
  <2>1. CASE p < Idx
    <3>1. Cell(p) = Unit(p)
      BY <1>3, <1>11, <2>1 DEF Written
    <3>2. ASSUME NEW j \in 1..Len(W), Covers(W[j], Base + p)
          PROVE  FALSE
      <4>1. e = 1 /\ W[j].at = SectorOf(top)
        BY <1>2, <3>2 DEF Covers
      <4>2. SectorOf(Base + p) >= a
        BY <1>7, <3>2, <4>1 DEF Covers
      <4>3. Base + p \in Nat /\ Base + p < a
        BY <1>3, <2>1 DEF a
      <4>4. SectorOf(Base + p) <= Base + p /\ SectorOf(Base + p) \in Nat
        BY <4>3, Sector
      <4>. QED
        BY <1>3, <4>2, <4>3, <4>4
    <3>. QED
      BY <3>1, <3>2 DEF Settled
  <2>2. CASE ~(p < Idx)
    <3>1. p \in Idx..(Idx + m - 1) /\ p \in Idx..(BankSize - 1) /\ Base + p \in a..(a + m)
      BY <1>3, <2>2 DEF a
    <3>2. PICK i \in 1..Len(W) : /\ W[i].op = "program" /\ W[i].at = Base + p
                                 /\ e = 1 => i # 1
                                 /\ \A j \in (i + 1)..Len(W) : W[j].op = "program"
      BY <1>2, <3>1
    <3>3. \A j \in (i + 1)..Len(W) : ~Covers(W[j], Base + p)
      BY <3>2 DEF Covers
    <3>4. CASE e = 1 /\ SectorOf(Base + p) = SectorOf(top)
      <4>1. Covers(W[1], Base + p) /\ Reliable(W[1]) /\ 1 \in 1..(i - 1)
        BY <1>9, <1>11, <3>1, <3>2, <3>4
      <4>. QED
        BY <3>2, <3>3, <4>1 DEF Settled
    <3>5. CASE ~(e = 1 /\ SectorOf(Base + p) = SectorOf(top))
      <4>1. SectorOf(Base + p) = SectorOf(a) \/ SectorOf(Base + p) = SectorOf(a + m)
        BY <1>5, <3>1
      <4>2. SectorOf(a) # a
        <5>1. ASSUME SectorOf(a) = a
              PROVE  SectorOf(Base + p) = a
          <6>. DEFINE k == p - Idx
          <6>1. Base + p = a + k /\ k \in 0..SectorSize /\ k < SectorSize
            BY <1>3, <3>1 DEF a
          <6>. HIDE DEF k
          <6>2. SectorOf(a + k) = a
            BY <1>3, <5>1, <6>1, NextSector
          <6>. QED
            BY <6>1, <6>2
        <5>. QED
          BY <1>6, <3>5, <5>1
      <4>3. SectorOf(Base + p) = SectorOf(a)
        BY <1>6, <3>5, <4>1, <4>2
      <4>. QED
        BY <1>10, <1>11, <3>1, <3>2, <3>3, <4>2, <4>3 DEF Settled
    <3>. QED
      BY <3>4, <3>5
  <2>. QED
    BY <2>1, <2>2
<1>12. ASSUME NEW p \in Behind(Reach)', Sure(p)
       PROVE  Prepared(W, Base + p, Cell(p), Unit(p))
  <2>1. /\ p \in (Idx + m)..(BankSize - 1) /\ Base + (Idx + m) = a + m
        /\ SectorOf(Base + p) = SectorOf(a + m) /\ SectorOf(a + m) # a + m
    <3>1. Base + (Idx + m) = a + m
      BY <1>3 DEF a
    <3>. QED
      BY <1>4, <3>1 DEF Behind
  <2>2. p \in Idx..(BankSize - 1)
    BY <1>3, <2>1
  <2>3. CASE SectorOf(a) = a
    <3>1. m < SectorSize
      BY <1>3, <1>5, <2>1, <2>3
    <3>2. SectorOf(Base + p) = SectorOf(top) /\ e = 1
      BY <1>5, <1>6, <2>1, <2>3, <3>1
    <3>. QED
      BY <1>9, <1>12, <2>2, <3>2 DEF Prepared
  <2>4. CASE SectorOf(a) # a /\ SectorOf(a + m) # SectorOf(a)
    <3>1. SectorOf(Base + p) = SectorOf(top) /\ e = 1
      BY <1>6, <2>1, <2>4
    <3>. QED
      BY <1>9, <1>12, <2>2, <3>1 DEF Prepared
  <2>5. CASE SectorOf(a) # a /\ SectorOf(a + m) = SectorOf(a)
    BY <1>10, <1>12, <2>1, <2>2, <2>5 DEF Prepared
  <2>. QED
    BY <2>3, <2>4, <2>5
<1>13. Cell(0) = Unit(0)
  BY <1>3 DEF Written, Sure
<1>14. BlockInv'
  <2>1. (Reach <= BankSize)'
    BY <1>3, <1>4
  <2>2. ASSUME NEW p \in 0..(Reach' - 1), Sure(p)
        PROVE  Settled(W, Base + p, Cell(p)', Unit(p)')
    <3>1. p \in 0..(Idx + m - 1)
      <4>1. Reach' = Idx + m /\ Idx \in Nat /\ m \in Nat
        BY <1>3, <1>4
      <4>. QED
        BY <4>1
    <3>2. Settled(W, Base + p, Cell(p), Unit(p))
      BY <1>11, <2>2, <3>1
    <3>. QED
      BY <1>4, <3>2
  <2>3. ASSUME NEW p \in Behind(Reach)', Sure(p)
        PROVE  Prepared(W, Base + p, Cell(p)', Unit(p)')
    <3>1. Prepared(W, Base + p, Cell(p), Unit(p))
      BY <1>12, <2>3
    <3>. QED
      BY <1>4, <3>1
  <2>4. Behind(Idx)' = Behind(Idx)
    BY <1>4 DEF Behind
  <2>5. Written(Idx)' /\ Ready(Idx)'
    BY <1>4, <2>4 DEF Written, Ready, Sure
  <2>. QED
    BY <1>4, <1>8, <1>13, <2>1, <2>2, <2>3, <2>5 DEF BlockInv
<1>. QED
  BY <1>4, <1>14

(* A handler that is done has stored its block.                            *)
LEMMA BlockIsStored ==
    ASSUME TypeInv, BlockInv, BlockDoneStep
    PROVE  Written(Idx)' /\ Ready(Idx)'
<1>1. /\ job.kind = "block" /\ job.ops = << >> /\ Idx' = Reach
      /\ UNCHANGED <<flash, Base, peer.ver>>
  BY DEF BlockDoneStep, Reach
<1>2. \A p : Unit(p)' = Unit(p) /\ Cell(p)' = Cell(p)
  BY <1>1, UnitsStay DEF Cell
<1>3. \A p \in 0..(Reach - 1) : Sure(p) => Cell(p) = Unit(p)
  BY <1>1, NothingLeft DEF BlockInv
<1>4. \A p \in Behind(Reach) : Sure(p) => Cell(p) \in {Blank, Unit(p)}
  BY <1>1, NothingLeft DEF BlockInv
<1>5. Behind(Idx)' = Behind(Reach)
  BY <1>1 DEF Behind
<1>. QED
  BY <1>1, <1>2, <1>3, <1>4, <1>5 DEF Written, Ready, Sure

(* A header with its flag.                                                 *)
LEMMA MarkedHeader ==
    ASSUME NEW v, NEW i
    PROVE  [Header(v, i, FALSE) EXCEPT !.validflag = TRUE] = Header(v, i, TRUE)
<1>. DEFINE r == Header(v, i, FALSE)
            k == TRUE
            R == [ver : {v}, id : {i}, validflag : BOOLEAN]
<1>1. r \in R
  BY Zenon DEF Header
<1>2. k \in BOOLEAN /\ k = TRUE
  OBVIOUS
<1>. HIDE DEF r, k
<1>3. [r EXCEPT !.validflag = k] \in R /\ [r EXCEPT !.validflag = k].validflag = k
  BY <1>1, <1>2
<1>. DEFINE h == [r EXCEPT !.validflag = k]
<1>. HIDE DEF h
<1>4. h.ver = v /\ h.id = i /\ h = [ver |-> h.ver, id |-> h.id, validflag |-> h.validflag]
  BY <1>3 DEF h
<1>. QED
  BY <1>2, <1>3, <1>4, Zenon DEF h, Header, k, r

(* Setting the flag: the header becomes that of a valid image.             *)
LEMMA FlagIsSet ==
    ASSUME TypeInv, EndInv, job.kind = "end", Written(Len0), flash_operation \/ unchecked_fault
    PROVE  /\ Flagged(Len0)' /\ job'.kind = "end" /\ job'.ops = << >> /\ Target' = Target /\ Base' = Base
           /\ flash'[Base] = Header(peer.ver, imageid(Target), TRUE) /\ Len0' = Len0
           /\ \A x \in Addresses : x # Base => flash'[x] = flash[x]
           /\ UNCHANGED <<peer, Idx, suota_state>>
<1>1. Open /\ job.ops # << >> /\ job.ops = <<FlagOp(Base)>>
  BY DEF EndInv, flash_operation, unchecked_fault
<1>2. /\ Target \in Banks /\ 3 - Target \in Banks /\ Base = Offset(Target) /\ Base \in Addresses
      /\ Base \in Nat /\ Len0 \in Nat /\ Len0 <= BankSize /\ BankSize \in Nat /\ Len0 = ImageLen[peer.ver]
      /\ peer.ver \in Versions /\ flash \in [Addresses -> Contents]
      /\ \A p \in 0..BankSize : Base + p \in Addresses
  BY <1>1, TargetFacts
<1>. DEFINE o == FlagOp(Base)
<1>3. o \in FlashOps /\ o.op = "flag" /\ o.at = Base /\ o.checked = TRUE
  BY <1>2, OpFields
<1>4. Head(job.ops) = o /\ Tail(job.ops) = << >> /\ job.ops = <<o>>
  <2>1. job.ops = <<o>>
    BY <1>1
  <2>. HIDE DEF o
  <2>. QED
    BY <2>1
<1>. HIDE DEF o
<1>5. /\ flash' = Applied(o) /\ job' = [job EXCEPT !.ops = Tail(job.ops)]
      /\ UNCHANGED <<suota_state, peer>>
  BY <1>3, <1>4 DEF flash_operation, unchecked_fault
<1>6. job'.ops = << >> /\ job'.kind = "end" /\ UNCHANGED <<Base, Len0, Idx, peer>>
  BY <1>1, <1>4, <1>5, JobFacts DEF Base, Len0, Idx
<1>7. flash[Base] = NewHeader(peer.ver, Target)
  <2>1. 0 \in 0..(Len0 - 1) /\ Base + 0 = Base
    BY <1>2, ImageAssumption
  <2>2. Cell(0) = Unit(0)
    BY <2>1 DEF Written, Sure
  <2>. QED
    BY <2>1, <2>2 DEF Cell, Unit, UnitOf
<1>8. flash'[Base] = Header(peer.ver, imageid(Target), TRUE)
  <2>1. flash[Base] \in Headers
    BY <1>2, <1>7, NewHeaderFields
  <2>2. Applied(o)[Base] = [flash[Base] EXCEPT !.validflag = TRUE]
    BY <1>2, <1>3, <2>1, AppliedCell
  <2>3. flash'[Base] = [flash[Base] EXCEPT !.validflag = TRUE]
    BY <1>5, <2>2
  <2>. QED
    BY <1>7, <2>3, MarkedHeader DEF NewHeader
<1>9. \A x \in Addresses : x # Base => flash'[x] = flash[x]
  BY <1>2, <1>3, <1>5, AppliedCell
<1>10. Offset(3 - Target) \in Addresses /\ Offset(3 - Target) # Base
  BY <1>2, Places DEF Banks
<1>11. /\ Target' = Target /\ imageid(Target)' = imageid(Target)
       /\ \A p : Unit(p)' = Unit(p)
  BY <1>6, <1>9, <1>10, UnitsStay
<1>12. Flagged(Len0)'
  <2>1. Cell(0)' = Header(peer.ver, imageid(Target), TRUE)
    <3>1. Base + 0 = Base
      BY <1>2
    <3>. QED
      BY <1>6, <1>8, <3>1 DEF Cell
  <2>2. ASSUME NEW p \in 1..(Len0 - 1), Sure(p)
        PROVE  Cell(p)' = Unit(p)'
    <3>1. Base + p \in Addresses /\ Base + p # Base /\ p \in 0..(Len0 - 1)
      BY <1>2
    <3>2. Cell(p)' = Cell(p)
      BY <1>6, <1>9, <3>1 DEF Cell
    <3>. QED
      BY <1>11, <2>2, <3>1, <3>2 DEF Written
  <2>. QED
    BY <1>6, <1>11, <2>1, <2>2 DEF Flagged, Sure
<1>. QED
  BY <1>5, <1>6, <1>8, <1>9, <1>11, <1>12

(* The blocks that are confirmed stay in the flash, the one that is        *)
(* written arrives there, and the flag comes last.                         *)
LEMMA StoreStep ==
    ASSUME TypeInv, EndInv, StoreInv, Fits, [Next]_vars, WholeFiles
    PROVE  StoreInv'
<1>1. job.kind \in {"none", "block", "end"}
  BY DEF TypeInv, TypeOK
<1>2. ASSUME flash' = flash, UNCHANGED <<Base, peer.ver>>
      PROVE  /\ \A p : Unit(p)' = Unit(p) /\ Cell(p)' = Cell(p)
             /\ imageid(Target)' = imageid(Target)
  BY <1>2, UnitsStay DEF Cell
<1>3. CASE QuietStep
  <2>1. ASSUME Open'
        PROVE  Written(Idx)' /\ Ready(Idx)'
    <3>1. /\ Open /\ job.kind # "end" /\ UNCHANGED <<Idx, Base, peer.ver>> /\ flash' = flash
      BY <1>3, <2>1 DEF QuietStep
    <3>2. Written(Idx) /\ Ready(Idx)
      BY <1>1, <3>1 DEF StoreInv, BlockInv, Open
    <3>3. Behind(Idx)' = Behind(Idx)
      BY <3>1 DEF Behind
    <3>. QED
      BY <1>2, <3>1, <3>2, <3>3 DEF Written, Ready, Sure
  <2>2. job'.kind = "none"
    BY <1>3 DEF QuietStep, NoJob
  <2>. QED
    BY <2>1, <2>2 DEF StoreInv
<1>4. CASE FirstBlockStep
  BY <1>4, FirstBlockBegins DEF StoreInv
<1>5. CASE LaterBlockStep
  <2>1. Written(Idx) /\ Ready(Idx)
    BY <1>5 DEF LaterBlockStep, StoreInv, NoJob
  <2>. QED
    BY <1>5, <2>1, LaterBlockBegins DEF StoreInv
<1>6. CASE EndStep
  <2>1. /\ job = NoJob /\ Open /\ peer.sent = FileLen(peer.ver) /\ peer.blk = peer.sent
        /\ job'.kind = "end" /\ job'.ops = <<FlagOp(Base)>> /\ flash' = flash
        /\ UNCHANGED <<Base, Len0, peer>>
    BY <1>6 DEF EndStep, Base, Len0
  <2>2. Written(Idx)
    BY <2>1 DEF StoreInv, NoJob
  <2>3. Idx \in Nat /\ Len0 \in Nat /\ Len0 <= Idx
    <3>1. Idx = peer.blk \/ Idx = Len0
      BY <2>1 DEF TypeInv, SessionInv, PeerInv
    <3>2. /\ Idx \in Nat /\ Len0 \in Nat /\ Len0 = ImageLen[peer.ver] /\ FileLen(peer.ver) = Len0 + 1
      BY <2>1, TargetFacts, SentImage DEF TypeInv, TypeOK, Open
    <3>. QED
      BY <2>1, <3>1, <3>2
  <2>4. Written(Len0)
    <3>1. \A p \in 0..(Len0 - 1) : p \in 0..(Idx - 1)
      BY <2>3
    <3>. QED
      BY <2>2, <3>1 DEF Written
  <2>5. Written(Len0)'
    BY <1>2, <2>1, <2>4 DEF Written, Sure
  <2>6. job'.ops # << >>
    <3>. DEFINE o == FlagOp(Base)
    <3>. HIDE DEF o
    <3>1. <<o>> # << >>
      OBVIOUS
    <3>. QED
      BY <2>1, <3>1 DEF o
  <2>. QED
    BY <2>1, <2>5, <2>6 DEF StoreInv
<1>7. CASE BlockDoneStep
  <2>1. job.kind = "block" /\ job'.kind = "none"
    BY <1>7 DEF BlockDoneStep, NoJob
  <2>. QED
    BY <1>7, <2>1, BlockIsStored DEF StoreInv
<1>8. CASE flash_operation \/ unchecked_fault
  <2>1. job.ops # << >>
    BY <1>8 DEF flash_operation, unchecked_fault
  <2>2. CASE job.kind = "block"
    BY <1>8, <2>2, BlockGoesOn DEF StoreInv
  <2>3. CASE job.kind = "end"
    BY <1>8, <2>1, <2>3, FlagIsSet DEF StoreInv
  <2>4. job.kind # "none"
    BY <2>1, JobFacts
  <2>. QED
    BY <1>1, <2>2, <2>3, <2>4
<1>9. CASE UNCHANGED vars
  <2>1. /\ flash' = flash /\ job' = job
        /\ UNCHANGED <<Idx, Base, Len0, Pd, peer, Reach, Open, Target>>
    BY <1>9 DEF vars, Idx, Base, Len0, Pd, Reach, Open, Sending, Target
  <2>2. /\ \A p : Unit(p)' = Unit(p) /\ Cell(p)' = Cell(p)
        /\ imageid(Target)' = imageid(Target)
    BY <1>2, <2>1
  <2>3. Behind(Idx)' = Behind(Idx) /\ Behind(Reach)' = Behind(Reach)
    BY <2>1 DEF Behind
  <2>4. (Written(Idx)' <=> Written(Idx)) /\ (Written(Len0)' <=> Written(Len0))
    BY <2>1, <2>2 DEF Written, Sure
  <2>5. Ready(Idx)' <=> Ready(Idx)
    BY <2>1, <2>2, <2>3 DEF Ready, Sure
  <2>6. Flagged(Len0)' <=> Flagged(Len0)
    BY <2>1, <2>2 DEF Flagged, Sure
  <2>7. BlockInv => BlockInv'
    <3>1. ASSUME NEW i \in 1..Len(job.ops), OpInside(job.ops[i])
          PROVE  OpInside(job.ops[i])'
      BY <2>1, <2>2, <3>1 DEF OpInside
    <3>. QED
      BY <2>1, <2>2, <2>3, <2>4, <2>5, <3>1 DEF BlockInv
  <2>. QED
    BY <2>1, <2>4, <2>5, <2>6, <2>7 DEF StoreInv
<1>. QED
  BY <1>3, <1>4, <1>5, <1>6, <1>7, <1>8, <1>9, StepCases

(* Nothing is received when the device starts.                             *)
LEMMA StoreInit == Init => StoreInv
<1>1. Init => job.kind = "none" /\ ~Open
  BY DEF Init, NoJob, Open, Sending, NoPeer
<1>. QED
  BY <1>1 DEF StoreInv

-----------------------------------------------------------------------------
(* The valid flags.                                                        *)

(* A bank is not disturbed by what is written outside of it.               *)
LEMMA BankStays ==
    ASSUME Fits, NEW b \in Banks, NEW c \in Banks, b # c,
           \A x \in Addresses : x < Offset(b) \/ x >= Offset(b) + BankSize => flash'[x] = flash[x]
    PROVE  /\ HeaderOf(flash', c) = HeaderOf(flash, c)
           /\ IsValid(flash', c) <=> IsValid(flash, c)
           /\ IsValid(flash, c) /\ CrcMatches(flash, c) => CrcMatches(flash', c)
<1>1. /\ Offset(c) \in Nat /\ BankSize \in Nat /\ BankSize > 0
      /\ \A x \in Offset(c)..(Offset(c) + BankSize) : x \in Addresses
  BY BankEnds, LayoutAssumption
<1>2. ASSUME NEW x \in Offset(c)..(Offset(c) + BankSize - 1)
      PROVE  flash'[x] = flash[x]
  <2>1. x \in Addresses
    BY <1>1
  <2>. QED
    BY <2>1, BanksApart
<1>3. HeaderOf(flash', c) = HeaderOf(flash, c)
  <2>1. Offset(c) \in Offset(c)..(Offset(c) + BankSize - 1)
    BY <1>1
  <2>. QED
    BY <1>2, <2>1 DEF HeaderOf
<1>4. ASSUME IsValid(flash, c), CrcMatches(flash, c)
      PROVE  CrcMatches(flash', c)
  <2>. DEFINE v == HeaderOf(flash, c).ver
  <2>1. ImageLen[v] \in Nat /\ ImageLen[v] < BankSize
    BY <1>4, ValidHeader, ImageAssumption DEF Fits
  <2>2. ASSUME NEW p \in 1..(ImageLen[v] - 1)
        PROVE  Offset(c) + p \in Addresses /\ flash'[Offset(c) + p] = Chunk(v, p)
    <3>1. Offset(c) + p \in Offset(c)..(Offset(c) + BankSize - 1)
      BY <1>1, <2>1
    <3>2. Offset(c) + p \in Addresses /\ flash[Offset(c) + p] = Chunk(v, p)
      BY <1>4 DEF CrcMatches
    <3>. QED
      BY <1>2, <3>1, <3>2
  <2>. QED
    BY <1>3, <2>2 DEF CrcMatches
<1>. QED
  BY <1>3, <1>4 DEF IsValid

(* What the factory puts into the flash: intact images in the banks that   *)
(* hold one, all with the same id, and nothing in the others.              *)
LEMMA FactoryBanks ==
    ASSUME Init, Fits
    PROVE  \E images \in FactoryImages : \A b \in Banks :
              /\ images[b] # Nothing => /\ HeaderOf(flash, b) = Header(images[b], MaxId, TRUE)
                                        /\ images[b] \in Versions
                                        /\ IsValid(flash, b) /\ CrcMatches(flash, b)
              /\ images[b] = Nothing => ~IsValid(flash, b)
<1>1. PICK images \in FactoryImages : flash = [a \in Addresses |-> FactoryUnit(images, a)]
  BY DEF Init
<1>2. ASSUME NEW b \in Banks
      PROVE  /\ images[b] # Nothing => /\ HeaderOf(flash, b) = Header(images[b], MaxId, TRUE)
                                       /\ images[b] \in Versions
                                       /\ IsValid(flash, b) /\ CrcMatches(flash, b)
             /\ images[b] = Nothing => ~IsValid(flash, b)
  <2>1. /\ Offset(b) \in Nat /\ BankSize \in Nat /\ BankSize > 0
        /\ Offset(b) + BankSize <= ProductHeader /\ Offset(b) >= Offset(1)
        /\ \A x \in Offset(b)..(Offset(b) + BankSize) : x \in Addresses
        /\ Offset(1) = SectorSize /\ SectorSize \in Nat /\ ProductHeader \in Nat
    BY BankEnds, LayoutAssumption, Places DEF Offset
  <2>2. \A c \in Banks : images[c] # Nothing => /\ images[c] \in Versions /\ ImageLen[images[c]] \in Nat
                                                /\ ImageLen[images[c]] > 1
                                                /\ ImageLen[images[c]] < BankSize
    <3>1. \A c \in Banks : images[c] # Nothing => images[c] \in Versions
      BY <1>1, FactoryAssumption
    <3>2. ASSUME NEW v \in Versions
          PROVE  ImageLen[v] \in Nat /\ ImageLen[v] > 1 /\ ImageLen[v] < BankSize
      <4>1. ImageLen[v] \in Nat \ {0, 1}
        BY ImageAssumption
      <4>. QED
        BY <4>1 DEF Fits
    <3>. QED
      BY <3>1, <3>2
  <2>3. ASSUME NEW p \in 0..(BankSize - 1)
        PROVE  LET a == Offset(b) + p
               IN  /\ a \in Addresses /\ a \in Offset(b)..(Offset(b) + BankSize - 1) /\ a - Offset(b) = p
                   /\ (a = Offset(b) <=> p = 0) /\ ~(a < Offset(1) \/ a >= ProductHeader)
                   /\ \A l \in Nat : a \in Offset(b)..(Offset(b) + l - 1) <=> p < l
    BY <2>1
  <2>4. ASSUME NEW p \in 0..(BankSize - 1), images[b] = Nothing
        PROVE  FactoryUnit(images, Offset(b) + p) = Blank
    <3>. DEFINE a == Offset(b) + p
                In == {c \in Banks : /\ images[c] # Nothing
                                     /\ a \in Offset(c)..(Offset(c) + ImageLen[images[c]] - 1)}
    <3>1. a \in Offset(b)..(Offset(b) + BankSize - 1) /\ ~(a < Offset(1) \/ a >= ProductHeader)
      BY <2>3
    <3>. HIDE DEF a
    <3>2. In = {}
      <4>1. ASSUME NEW c \in Banks, c # b, images[c] # Nothing
            PROVE  a \notin Offset(c)..(Offset(c) + ImageLen[images[c]] - 1)
        <5>1. a < Offset(c) \/ a >= Offset(c) + BankSize
          BY <3>1, <4>1, BanksApart
        <5>2. /\ ImageLen[images[c]] \in Nat /\ ImageLen[images[c]] < BankSize /\ Offset(c) \in Nat
              /\ a \in Nat
          BY <2>1, <2>2, <3>1, <4>1, BankEnds
        <5>. QED
          BY <2>1, <5>1, <5>2
      <4>. QED
        BY <2>4, <4>1
    <3>. QED
      BY <3>1, <3>2 DEF FactoryUnit, a
  <2>5. ASSUME NEW p \in 0..(BankSize - 1), images[b] # Nothing, p < ImageLen[images[b]]
        PROVE  FactoryUnit(images, Offset(b) + p) =
                  IF p = 0 THEN Header(images[b], MaxId, TRUE) ELSE Chunk(images[b], p)
    <3>. DEFINE a == Offset(b) + p
                In == {c \in Banks : /\ images[c] # Nothing
                                     /\ a \in Offset(c)..(Offset(c) + ImageLen[images[c]] - 1)}
    <3>1. /\ a \in Offset(b)..(Offset(b) + BankSize - 1) /\ ~(a < Offset(1) \/ a >= ProductHeader)
          /\ a - Offset(b) = p /\ (a = Offset(b) <=> p = 0)
          /\ a \in Offset(b)..(Offset(b) + ImageLen[images[b]] - 1)
      BY <2>2, <2>3, <2>5
    <3>. HIDE DEF a
    <3>2. In = {b}
      <4>1. ASSUME NEW c \in Banks, c # b, images[c] # Nothing
            PROVE  a \notin Offset(c)..(Offset(c) + ImageLen[images[c]] - 1)
        <5>1. a < Offset(c) \/ a >= Offset(c) + BankSize
          BY <3>1, <4>1, BanksApart
        <5>2. /\ ImageLen[images[c]] \in Nat /\ ImageLen[images[c]] < BankSize /\ Offset(c) \in Nat
              /\ a \in Nat
          BY <2>1, <2>2, <3>1, <4>1, BankEnds
        <5>. QED
          BY <2>1, <5>1, <5>2
      <4>. QED
        BY <2>5, <3>1, <4>1
    <3>3. In # {} /\ (CHOOSE c \in In : TRUE) = b
      BY <3>2
    <3>. QED
      BY <3>1, <3>3, Zenon DEF FactoryUnit, a
  <2>6. 0 \in 0..(BankSize - 1) /\ Offset(b) + 0 = Offset(b)
    BY <2>1
  <2>7. ASSUME images[b] = Nothing
        PROVE  ~IsValid(flash, b)
    <3>1. HeaderOf(flash, b) = Blank
      BY <1>1, <2>3, <2>4, <2>6, <2>7 DEF HeaderOf
    <3>. QED
      BY <3>1, MarkAssumption DEF IsValid
  <2>8. ASSUME images[b] # Nothing
        PROVE  /\ HeaderOf(flash, b) = Header(images[b], MaxId, TRUE) /\ images[b] \in Versions
               /\ IsValid(flash, b) /\ CrcMatches(flash, b)
    <3>. DEFINE v == images[b]
    <3>1. v \in Versions /\ ImageLen[v] \in Nat /\ ImageLen[v] > 1 /\ ImageLen[v] < BankSize
      BY <2>2, <2>8
    <3>2. HeaderOf(flash, b) = Header(v, MaxId, TRUE)
      <4>1. 0 < ImageLen[v]
        BY <3>1
      <4>2. FactoryUnit(images, Offset(b)) = Header(v, MaxId, TRUE)
        BY <2>5, <2>6, <2>8, <4>1
      <4>. QED
        BY <1>1, <2>3, <2>6, <4>2 DEF HeaderOf
    <3>3. /\ Header(v, MaxId, TRUE) \in Headers /\ Header(v, MaxId, TRUE).ver = v
          /\ Header(v, MaxId, TRUE).validflag = TRUE
      <4>1. MaxId \in Ids
        BY IdAssumption DEF Ids
      <4>. QED
        BY <3>1, <4>1, HeaderFields
    <3>4. ASSUME NEW p \in 1..(ImageLen[v] - 1)
          PROVE  Offset(b) + p \in Addresses /\ flash[Offset(b) + p] = Chunk(v, p)
      <4>1. p \in 0..(BankSize - 1) /\ p # 0 /\ p < ImageLen[v]
        BY <2>1, <3>1
      <4>2. FactoryUnit(images, Offset(b) + p) = Chunk(v, p)
        BY <2>5, <2>8, <4>1
      <4>3. Offset(b) + p \in Addresses
        BY <2>3, <4>1
      <4>. QED
        BY <1>1, <4>2, <4>3
    <3>. QED
      BY <3>1, <3>2, <3>3, <3>4 DEF IsValid, CrcMatches
  <2>. QED
    BY <2>7, <2>8
<1>. QED
  BY <1>2

(* What a step does to the flash: nothing, or a bank that is not valid is  *)
(* written, or the image in it becomes valid.                              *)
LEMMA BankSteps ==
    ASSUME TypeInv, EndInv, StoreInv, Fits, [Next]_vars, WholeFiles
    PROVE  \/ flash' = flash
           \/ /\ job.kind \in {"block", "end"} /\ Target \in Banks /\ 3 - Target \in Banks
              /\ Base = Offset(Target) /\ Target' = Target
              /\ \A x \in Addresses : x < Base \/ x >= Base + BankSize => flash'[x] = flash[x]
              /\ \/ job.kind = "block" /\ ~IsValid(flash', Target)
                 \/ /\ job.kind = "end" /\ Flagged(Len0)' /\ Open /\ UNCHANGED <<Len0, peer, Base>>
                    /\ HeaderOf(flash', Target) = Header(peer.ver, imageid(Target), TRUE)
<1>1. CASE QuietStep \/ FirstBlockStep \/ LaterBlockStep \/ EndStep \/ BlockDoneStep \/ UNCHANGED vars
  BY <1>1 DEF QuietStep, FirstBlockStep, LaterBlockStep, EndStep, BlockDoneStep, vars
<1>2. CASE (flash_operation \/ unchecked_fault) /\ job.kind = "block"
  <2>1. /\ Target' = Target /\ flash'[Base] \in {Blank, Unit(0)}
        /\ \A x \in Addresses : x < Base \/ x >= Base + BankSize => flash'[x] = flash[x]
    BY <1>2, BlockGoesOn DEF StoreInv
  <2>2. Target \in Banks /\ 3 - Target \in Banks /\ Base = Offset(Target) /\ peer.ver \in Versions
    BY <1>2, TargetFacts
  <2>3. ~IsValid(flash', Target)
    <3>1. Unit(0) = NewHeader(peer.ver, Target)
      BY DEF Unit, UnitOf
    <3>2. NewHeader(peer.ver, Target).validflag = FALSE
      BY <2>2, NewHeaderFields
    <3>3. flash'[Base] = Unit(0) => ~flash'[Base].validflag
      BY <3>1, <3>2, Zenon
    <3>. QED
      BY <2>1, <2>2, <3>3, MarkAssumption DEF IsValid, HeaderOf
  <2>. QED
    BY <1>2, <2>1, <2>2, <2>3
<1>3. CASE (flash_operation \/ unchecked_fault) /\ job.kind = "end"
  <2>1. job.ops # << >> /\ Open
    BY <1>3 DEF flash_operation, unchecked_fault, EndInv
  <2>2. Written(Len0)
    BY <1>3, <2>1 DEF StoreInv
  <2>3. /\ Flagged(Len0)' /\ Target' = Target
        /\ flash'[Base] = Header(peer.ver, imageid(Target), TRUE)
        /\ \A x \in Addresses : x # Base => flash'[x] = flash[x]
        /\ UNCHANGED <<Len0, peer, Base>>
    BY <1>3, <2>2, FlagIsSet
  <2>4. /\ Target \in Banks /\ 3 - Target \in Banks /\ Base = Offset(Target) /\ Base \in Nat
        /\ BankSize \in Nat \ {0}
    BY <2>1, TargetFacts, LayoutAssumption
  <2>5. ASSUME NEW x \in Addresses, x < Base \/ x >= Base + BankSize
        PROVE  flash'[x] = flash[x]
    <3>1. x # Base
      BY <2>4, <2>5
    <3>. QED
      BY <2>3, <3>1
  <2>. QED
    BY <1>3, <2>1, <2>3, <2>4, <2>5 DEF HeaderOf
<1>4. CASE flash_operation \/ unchecked_fault
  <2>1. job.kind \in {"block", "end"}
    BY <1>4, JobFacts DEF flash_operation, unchecked_fault
  <2>. QED
    BY <1>2, <1>3, <1>4, <2>1
<1>. QED
  BY <1>1, <1>4, StepCases

(* The ids follow each other.                                              *)
LEMMA ConsecutiveStep ==
    ASSUME TypeInv, EndInv, StoreInv, Fits, [Next]_vars, WholeFiles,
           IdsAreConsecutive
    PROVE  IdsAreConsecutive'
<1>1. CASE flash' = flash
  BY <1>1 DEF IdsAreConsecutive, IsValid, HeaderOf
<1>2. CASE flash' # flash
  <2>1. /\ Target \in Banks /\ 3 - Target \in Banks /\ Base = Offset(Target)
        /\ \A x \in Addresses : x < Base \/ x >= Base + BankSize => flash'[x] = flash[x]
        /\ \/ ~IsValid(flash', Target)
           \/ Open /\ HeaderOf(flash', Target) = Header(peer.ver, imageid(Target), TRUE)
    BY <1>2, BankSteps
  <2>2. CASE ~IsValid(flash', Target)
    BY <2>1, <2>2 DEF IdsAreConsecutive, Banks
  <2>3. CASE Open /\ HeaderOf(flash', Target) = Header(peer.ver, imageid(Target), TRUE)
    <3>. DEFINE c == 3 - Target
                i == HeaderOf(flash, c).id
    <3>1. /\ c \in Banks /\ c # Target
          /\ HeaderOf(flash', c) = HeaderOf(flash, c) /\ (IsValid(flash', c) <=> IsValid(flash, c))
      <4>1. c \in Banks /\ c # Target
        BY <2>1 DEF Banks
      <4>. HIDE DEF c
      <4>. QED
        BY <2>1, <4>1, BankStays
    <3>2. ASSUME IsValid(flash, c)
          PROVE  /\ i \in Ids /\ NextId(i) = (i + 1) % (MaxId + 1)
                 /\ HeaderOf(flash', Target).id = NextId(i)
      <4>1. i \in Ids
        BY <3>1, <3>2, ValidHeader
      <4>2. NextId(i) = (i + 1) % (MaxId + 1)
        BY <4>1, NextIds
      <4>3. imageid(Target) = NextId(i)
        BY <3>2 DEF imageid, app_get_image_id, NextId
      <4>4. Header(peer.ver, imageid(Target), TRUE).id = imageid(Target)
        BY DEF Header
      <4>. QED
        BY <2>3, <4>1, <4>2, <4>3, <4>4
    <3>. HIDE DEF i
    <3>3. IsValid(flash', c) => (i + 1) % (MaxId + 1) = HeaderOf(flash', Target).id
                                /\ HeaderOf(flash', c).id = i
      BY <3>1, <3>2 DEF i
    <3>4. (Target = 1 /\ c = 2) \/ (Target = 2 /\ c = 1)
      BY <2>1 DEF Banks
    <3>. HIDE DEF c
    <3>5. CASE Target = 1 /\ c = 2
      BY <3>3, <3>5, Zenon DEF IdsAreConsecutive
    <3>6. CASE Target = 2 /\ c = 1
      BY <3>3, <3>6, Zenon DEF IdsAreConsecutive
    <3>. QED
      BY <3>4, <3>5, <3>6
  <2>. QED
    BY <2>1, <2>2, <2>3
<1>. QED
  BY <1>1, <1>2

(* Valid images carry consecutive ids, or both that of the factory: an     *)
(* initiator that ends a session only after the whole file may choose the  *)
(* bank, and erases may fail unnoticed.  The header is safe from that, its *)
(* sector is erased by an operation that is checked.                       *)
THEOREM IdsStayConsecutive ==
    ASSUME WholeFiles, Fits
    PROVE  Spec => []IdsAreConsecutive
<1>. DEFINE I == TypeInv /\ EndInv /\ StoreInv
<1>1. Init => EndInv /\ StoreInv /\ IdsAreConsecutive
  <2>1. Init => EndInv /\ StoreInv
    BY OutsideInit, StoreInit DEF OutsideInv
  <2>2. ASSUME Init
        PROVE  IdsAreConsecutive
    <3>1. ASSUME NEW b \in Banks, IsValid(flash, b)
          PROVE  HeaderOf(flash, b).id = MaxId
      <4>1. PICK images \in FactoryImages :
               /\ images[b] # Nothing => HeaderOf(flash, b) = Header(images[b], MaxId, TRUE)
               /\ images[b] = Nothing => ~IsValid(flash, b)
        BY <2>2, FactoryBanks
      <4>. QED
        BY <3>1, <4>1 DEF Header
    <3>2. 1 \in Banks /\ 2 \in Banks
      BY DEF Banks
    <3>. QED
      BY <3>1, <3>2 DEF IdsAreConsecutive
  <2>. QED
    BY <2>1, <2>2
<1>2. TypeInv /\ EndInv /\ StoreInv /\ IdsAreConsecutive /\ [Next]_vars
         => EndInv' /\ StoreInv' /\ IdsAreConsecutive'
  BY EndInvStep, StoreStep, ConsecutiveStep
<1>10. Spec => []TypeInv
  BY TypeCorrect DEF WholeFiles
<1>. QED
  BY <1>1, <1>2, <1>10, PTL DEF Spec

(* A valid flag stands on complete images.                                 *)
LEMMA IntactStep ==
    ASSUME TypeInv, EndInv, StoreInv, Fits, [Next]_vars, WholeFiles,
           "erase" \notin FlashFaults, FlaggedImageIsIntact
    PROVE  FlaggedImageIsIntact'
<1>1. CASE flash' = flash
  BY <1>1 DEF FlaggedImageIsIntact, IsValid, CrcMatches, HeaderOf
<1>2. CASE flash' # flash
  <2>1. /\ Target \in Banks /\ Base = Offset(Target)
        /\ \A x \in Addresses : x < Base \/ x >= Base + BankSize => flash'[x] = flash[x]
        /\ \/ ~IsValid(flash', Target)
           \/ /\ Flagged(Len0)' /\ Open /\ UNCHANGED <<Len0, peer, Base>> /\ Target' = Target
              /\ HeaderOf(flash', Target) = Header(peer.ver, imageid(Target), TRUE)
    BY <1>2, BankSteps
  <2>2. ASSUME NEW c \in Banks, c # Target, IsValid(flash', c)
        PROVE  CrcMatches(flash', c)
    BY <2>1, <2>2, BankStays DEF FlaggedImageIsIntact
  <2>3. ASSUME Flagged(Len0)', Open, UNCHANGED <<Len0, peer, Base>>, Target' = Target,
               HeaderOf(flash', Target) = Header(peer.ver, imageid(Target), TRUE)
        PROVE  CrcMatches(flash', Target)
    <3>1. /\ Len0 = ImageLen[peer.ver] /\ Len0 \in Nat /\ Len0 <= BankSize /\ BankSize \in Nat
          /\ \A p \in 0..BankSize : Base + p \in Addresses
      BY <2>3, TargetFacts
    <3>2. HeaderOf(flash', Target).ver = peer.ver
      BY <2>3 DEF Header
    <3>3. ASSUME NEW p \in 1..(Len0 - 1)
          PROVE  Base + p \in Addresses /\ flash'[Base + p] = Chunk(peer.ver, p)
      <4>1. p \in 0..BankSize /\ p # 0
        BY <3>1
      <4>2. Cell(p)' = Unit(p)'
        BY <2>3 DEF Flagged, Sure
      <4>. QED
        BY <2>3, <3>1, <4>1, <4>2 DEF Cell, Unit, UnitOf
    <3>. QED
      BY <2>1, <3>1, <3>2, <3>3 DEF CrcMatches
  <2>4. ASSUME NEW c \in Banks, IsValid(flash', c)
        PROVE  CrcMatches(flash', c)
    BY <2>1, <2>2, <2>3, <2>4
  <2>. QED
    BY <2>4 DEF FlaggedImageIsIntact
<1>. QED
  BY <1>1, <1>2

(* The images of the factory are intact.                                   *)
LEMMA IntactInit == Init /\ Fits => FlaggedImageIsIntact
<1>. SUFFICES ASSUME Init, Fits PROVE FlaggedImageIsIntact
  OBVIOUS
<1>1. PICK images \in FactoryImages : \A b \in Banks :
         /\ images[b] # Nothing => CrcMatches(flash, b)
         /\ images[b] = Nothing => ~IsValid(flash, b)
  BY FactoryBanks
<1>. QED
  BY <1>1 DEF FlaggedImageIsIntact

(* What is flagged as valid is complete: an initiator that ends a session  *)
(* only after the whole file, and flash erases that do not fail unnoticed, *)
(* are enough.  It may choose the bank and send strays, and power can be   *)
(* lost anywhere.                                                          *)
THEOREM FlaggedImagesAreIntact ==
    ASSUME WholeFiles, "erase" \notin FlashFaults, Fits
    PROVE  Spec => []FlaggedImageIsIntact
<1>1. Init => EndInv /\ StoreInv /\ FlaggedImageIsIntact
  BY OutsideInit, StoreInit, IntactInit DEF OutsideInv
<1>2. TypeInv /\ EndInv /\ StoreInv /\ FlaggedImageIsIntact /\ [Next]_vars
         => EndInv' /\ StoreInv' /\ FlaggedImageIsIntact'
  BY EndInvStep, StoreStep, IntactStep
<1>10. Spec => []TypeInv
  BY TypeCorrect DEF WholeFiles
<1>. QED
  BY <1>1, <1>2, <1>10, PTL DEF Spec

(* What the initiator was told to be written is there: between two blocks  *)
(* the flash holds every unit before the confirmed place.                  *)
THEOREM AcknowledgedStaysWritten ==
    ASSUME WholeFiles, "erase" \notin FlashFaults, Fits
    PROVE  Spec => []AcknowledgedIsWritten
<1>1. Init => EndInv /\ StoreInv
  BY OutsideInit, StoreInit DEF OutsideInv
<1>2. TypeInv /\ EndInv /\ StoreInv /\ [Next]_vars => EndInv' /\ StoreInv'
  BY EndInvStep, StoreStep
<1>3. ASSUME TypeInv, StoreInv
      PROVE  AcknowledgedIsWritten
  <2>1. ASSUME job = NoJob, NEW p \in 1..(peer.blk - 1), p < ImageLen[peer.ver]
        PROVE  flash[Base + p] = Chunk(peer.ver, p)
    <3>1. peer.blk \in Nat /\ peer.blk # 0
      <4>1. peer.blk \in Nat
        BY <1>3, Fields DEF TypeInv, TypeOK
      <4>. QED
        BY <2>1, <4>1
    <3>2. Open /\ (Idx = peer.blk \/ Idx = Len0)
      BY <1>3, <3>1 DEF TypeInv, SessionInv, PeerInv, Open
    <3>3. Idx \in Nat /\ Len0 \in Nat /\ Len0 = ImageLen[peer.ver]
      BY <1>3, <3>2, TargetFacts
    <3>4. p \in 0..(Idx - 1) /\ p # 0
      BY <2>1, <3>1, <3>2, <3>3
    <3>5. Cell(p) = Unit(p)
      BY <1>3, <2>1, <3>2, <3>4 DEF StoreInv, NoJob, Written, Sure
    <3>. QED
      BY <3>4, <3>5 DEF Cell, Unit, UnitOf
  <2>. QED
    BY <2>1 DEF AcknowledgedIsWritten, Base
<1>10. Spec => []TypeInv
  BY TypeCorrect DEF WholeFiles
<1>. QED
  BY <1>1, <1>2, <1>3, <1>10, PTL DEF Spec

-----------------------------------------------------------------------------
(* What a reset boots.                                                     *)

(* An intact image boots when it is the only valid one, or when its id is  *)
(* the one after that of the other.                                        *)
LEMMA NewestBoots ==
    ASSUME NEW fl, NEW b \in Banks, fl[ProductHeader] = Foreign, IsValid(fl, b), CrcMatches(fl, b),
           IsValid(fl, 3 - b) => HeaderOf(fl, b).id = NextId(HeaderOf(fl, 3 - b).id)
    PROVE  loadActiveImage(fl) = HeaderOf(fl, b).ver
<1>1. CASE ~IsValid(fl, 3 - b)
  BY <1>1, SingleImageBoots
<1>2. CASE IsValid(fl, 3 - b)
  <2>. DEFINE i == HeaderOf(fl, 3 - b).id
  <2>1. 3 - b \in Banks
    BY DEF Banks
  <2>2. i \in Ids
    BY <1>2, <2>1, ValidHeader
  <2>3. findlatest(i, NextId(i)) = 2 /\ findlatest(NextId(i), i) = 1
    BY <2>2, NextIsLatest
  <2>4. (b = 1 /\ 3 - b = 2) \/ (b = 2 /\ 3 - b = 1)
    BY DEF Banks
  <2>5. ActiveBank(fl) = b /\ IsValid(fl, 1) /\ IsValid(fl, 2)
    <3>1. CASE b = 1 /\ 3 - b = 2
      BY <1>2, <2>3, <3>1, Zenon DEF ActiveBank
    <3>2. CASE b = 2 /\ 3 - b = 1
      BY <1>2, <2>3, <3>2, Zenon DEF ActiveBank
    <3>. QED
      BY <2>4, <3>1, <3>2
  <2>. QED
    BY <2>5, LatestImageBoots
<1>. QED
  BY <1>1, <1>2

(* The product header is never written.                                    *)
LEMMA ProductStays == OutsideBanksUntouched => flash[ProductHeader] = Foreign
<1>1. ProductHeader \in Addresses /\ ProductHeader >= ProductHeader
  BY Places
<1>. QED
  BY <1>1 DEF OutsideBanksUntouched

(* The image that was flagged boots.                                       *)
LEMMA FlaggedBoots ==
    ASSUME TypeInv, EndInv, OutsideBanksUntouched, FlaggedImageIsIntact,
           job.kind = "end", Flagged(Len0)
    PROVE  loadActiveImage(flash) = peer.ver
<1>1. Open /\ Target \in Banks /\ Base = Offset(Target) /\ Base + 0 = Base /\ peer.ver \in Versions
      /\ 3 - Target \in Banks
  BY TargetFacts DEF EndInv
<1>2. HeaderOf(flash, Target) = Header(peer.ver, imageid(Target), TRUE)
  BY <1>1 DEF Flagged, Cell, HeaderOf
<1>3. /\ HeaderOf(flash, Target).ver = peer.ver /\ HeaderOf(flash, Target).id = imageid(Target)
      /\ IsValid(flash, Target)
  <2>1. /\ Header(peer.ver, imageid(Target), TRUE) \in Headers
        /\ Header(peer.ver, imageid(Target), TRUE).ver = peer.ver
        /\ Header(peer.ver, imageid(Target), TRUE).id = imageid(Target)
        /\ Header(peer.ver, imageid(Target), TRUE).validflag = TRUE
    <3>1. imageid(Target) \in Ids /\ TRUE \in BOOLEAN
      BY <1>1, NewHeaderFields
    <3>. QED
      BY <1>1, <3>1, HeaderFields, Zenon
  <2>. QED
    BY <1>2, <2>1 DEF IsValid
<1>4. IsValid(flash, 3 - Target) => imageid(Target) = NextId(HeaderOf(flash, 3 - Target).id)
  BY DEF imageid, app_get_image_id, NextId
<1>5. CrcMatches(flash, Target)
  BY <1>1, <1>3 DEF FlaggedImageIsIntact
<1>6. loadActiveImage(flash) = HeaderOf(flash, Target).ver
  BY <1>1, <1>3, <1>4, <1>5, ProductStays, NewestBoots
<1>. QED
  BY <1>3, <1>6

(* A session that ends well was not interrupted.                           *)
LEMMA EndsWell ==
    ASSUME TypeInv, [Next]_vars, job.kind = "end", job' = NoJob, status' = "CMP_OK"
    PROVE  job.ops = << >>
<1>1. ~Idle /\ job' # job
  BY DEF Idle, NoJob
<1>2. CASE flash_operation \/ unchecked_fault
  <2>1. job' = [job EXCEPT !.ops = Tail(job.ops)] /\ job.ops # << >>
    BY <1>2 DEF flash_operation, unchecked_fault
  <2>2. job'.kind = "end"
    BY <2>1, JobFacts
  <2>. QED
    BY <2>2 DEF NoJob
<1>3. CASE checked_fault \/ handler_returns
  BY <1>3 DEF checked_fault, handler_returns
<1>4. CASE Restart
  BY <1>4 DEF Restart
<1>5. ASSUME NEW v \in Versions, NEW n \in 1..PdSize, NEW p \in 0..(FileLen(v) - n),
             peer_sends_data(v, p, n)
      PROVE  FALSE
  BY <1>1, <1>5, JobFacts DEF peer_sends_data, Listening, Idle, NoJob
<1>6. Next
  BY <1>1 DEF vars
<1>. QED
  BY <1>1, <1>2, <1>3, <1>4, <1>5, <1>6
  DEF Next, suotar_patch_mem_dev_ind, suotar_patch_len_ind, suotar_gpio_map_ind, peer_sends_again,
      Connect, Disconnect, PowerCycle, Listening

(* The CMP_OK at the end of a session means that the next reset boots the  *)
(* new image: receiver and bootloader agree on the latest one, also when   *)
(* the id wraps around and when the initiator has chosen the bank.         *)
THEOREM CompletedImagesBoot ==
    ASSUME WholeFiles, "erase" \notin FlashFaults, Fits
    PROVE  Spec => CompletedImageBoots
<1>. DEFINE I == OutsideInv /\ StoreInv /\ FlaggedImageIsIntact
<1>1. Init => I
  BY OutsideInit, StoreInit, IntactInit
<1>2. TypeInv /\ I /\ [Next]_vars => I'
  BY OutsideStep, StoreStep, IntactStep DEF OutsideInv
<1>3. ASSUME TypeInv, I, [Next]_vars
      PROVE  [job.kind = "end" /\ job' = NoJob /\ status' = "CMP_OK"
                => loadActiveImage(flash) = peer.ver]_vars
  <2>1. ASSUME job.kind = "end", job' = NoJob, status' = "CMP_OK"
        PROVE  loadActiveImage(flash) = peer.ver
    <3>1. Flagged(Len0)
      BY <1>3, <2>1, EndsWell DEF StoreInv
    <3>. QED
      BY <1>3, <2>1, <3>1, FlaggedBoots DEF OutsideInv
  <2>. QED
    BY <2>1
<1>. HIDE DEF I
<1>10. Spec => []TypeInv
  BY TypeCorrect DEF WholeFiles
<1>. QED
  BY <1>1, <1>2, <1>3, <1>10, PTL DEF Spec, CompletedImageBoots

(* The factory leaves an image in one bank at least.                       *)
DeliveredWithImage == \A images \in FactoryImages : \E b \in Banks : images[b] # Nothing

(* The receiver chooses the bank, and never the one that the device needs: *)
(* while it writes to one bank the other one holds a valid image.          *)
BootInv ==
    /\ suota_state.suota_image_bank = 0
    /\ \E b \in Banks : IsValid(flash, b)
    /\ Open \/ job.kind # "none" => IsValid(flash, 3 - Target)

(* Nobody but an initiator that forces a bank makes it another one.        *)
LEMMA BankIsLeft ==
    ASSUME Orderly, TypeInv, [Next]_vars, suota_state.suota_image_bank = 0,
           "force_bank" \notin InitiatorHabits
    PROVE  suota_state'.suota_image_bank = 0
<1>. DEFINE s == suota_state
<1>1. s \in app_suota_state
  BY DEF TypeInv, TypeOK
<1>2. ASSUME NEW dev \in Devices, NEW bank \in 0..3, NEW v \in Versions, start_session(dev, bank, v)
      PROVE  suota_state'.suota_image_bank = 0
  <2>1. Selected(dev) \in app_suota_state /\ Selected(dev).suota_image_bank = 0
    <3>1. 0 \in Addresses
      BY Places, LayoutAssumption DEF Addresses
    <3>. QED
      BY <1>1, <3>1 DEF Selected, app_suota_state
  <2>. DEFINE r == Selected(dev)
              q == [r EXCEPT !.suota_image_bank = bank]
  <2>. HIDE DEF r
  <2>2. CASE bank = 0
    <3>1. q \in app_suota_state /\ q.suota_image_bank = 0
      BY <2>1, <2>2 DEF r, app_suota_state
    <3>. HIDE DEF q
    <3>2. Started(q).suota_image_bank = 0
      BY <3>1 DEF Started, app_suota_state
    <3>. QED
      BY <1>2, <2>2, <3>2 DEF start_session, q, r
  <2>3. CASE bank # 0
    <3>1. bank > 2 /\ ~(bank <= 2)
      BY <1>2, <2>3 DEF start_session
    <3>. QED
      BY <1>2, <2>1, <3>1 DEF start_session
  <2>. QED
    BY <2>2, <2>3
<1>3. ASSUME select_internal
      PROVE  suota_state'.suota_image_bank = 0
  BY <1>1, <1>3 DEF select_internal, Selected, app_suota_state
<1>4. ASSUME service_exit \/ image_end \/ request_reboot \/ unknown_device
      PROVE  suota_state'.suota_image_bank = 0
  <2>1. Stopped(s).suota_image_bank = 0
    BY <1>1 DEF Stopped, app_suota_state
  <2>2. [s EXCEPT !.reboot_requested = TRUE].suota_image_bank = 0
        /\ [s EXCEPT !.mem_dev = "INVAL_DEV"].suota_image_bank = 0
        /\ Selected("INVAL_DEV").suota_image_bank = 0
    BY <1>1 DEF app_suota_state, Selected
  <2>. QED
    BY <1>4, <2>1, <2>2 DEF service_exit, image_end, request_reboot, unknown_device
<1>5. ASSUME NEW n \in 1..PdSize, DataArrives(n)
      PROVE  suota_state'.suota_image_bank = 0
  <2>. DEFINE B == Received(n)
              crc == Xor(s.crc_calc, B)
  <2>. HIDE DEF B, crc
  <2>1. \/ suota_state' = s
        \/ suota_state' = [s EXCEPT !.pd = B]
        \/ app_suotar_img_hdlr(B)
    BY <1>5, DataCases DEF B
  <2>2. ASSUME FirstBlock(crc, B)
        PROVE  suota_state'.suota_image_bank = 0
    <3>. DEFINE len == IF B[1].pos = 0 THEN ImageLen[B[1].ver] ELSE s.suota_image_len
    <3>1. \/ suota_state' = [s EXCEPT !.crc_calc = crc, !.suota_image_len = len, !.pd = << >>]
          \/ suota_state' = [s EXCEPT !.crc_calc = crc, !.suota_image_len = len, !.pd = B,
                                      !.mem_base_add = Offset(new_bank)]
      BY <2>2 DEF FirstBlock
    <3>. HIDE DEF len
    <3>. QED
      BY <1>1, <3>1 DEF app_suota_state
  <2>3. ASSUME LaterBlock(crc, B)
        PROVE  suota_state'.suota_image_bank = 0
    <3>. DEFINE code == FirstUnits(B, s.suota_image_len - s.suota_img_idx)
    <3>1. \/ suota_state' = [s EXCEPT !.crc_calc = crc, !.pd = code]
          \/ suota_state' = [s EXCEPT !.crc_calc = crc, !.pd = << >>]
      BY <2>3 DEF LaterBlock
    <3>. HIDE DEF code
    <3>. QED
      BY <1>1, <3>1 DEF app_suota_state
  <2>4. CASE app_suotar_img_hdlr(B)
    <3>1. \/ FirstBlock(crc, B) \/ LaterBlock(crc, B)
          \/ suota_state' = [s EXCEPT !.crc_calc = crc, !.pd = B]
      BY <2>4 DEF app_suotar_img_hdlr, crc
    <3>. QED
      BY <1>1, <2>2, <2>3, <3>1 DEF app_suota_state
  <2>. QED
    BY <1>1, <2>1, <2>4 DEF app_suota_state
<1>6. ASSUME NEW len \in 0..(PdSize + 1), suotar_patch_len_ind(len)
      PROVE  suota_state'.suota_image_bank = 0
  BY <1>1, <1>6 DEF suotar_patch_len_ind, app_suota_state
<1>7. ASSUME suotar_gpio_map_ind
      PROVE  suota_state'.suota_image_bank = 0
  BY <1>1, <1>7 DEF suotar_gpio_map_ind, app_suota_state
<1>8. ASSUME checked_fault \/ handler_returns
      PROVE  suota_state'.suota_image_bank = 0
  <2>. DEFINE k == s.suota_img_idx + Len(s.pd)
  <2>1. \/ suota_state' = Stopped(s)
        \/ suota_state' = [s EXCEPT !.pd = << >>]
        \/ suota_state' = [s EXCEPT !.pd = << >>, !.suota_img_idx = k]
    BY <1>8 DEF checked_fault, handler_returns
  <2>. HIDE DEF k
  <2>. QED
    BY <1>1, <2>1 DEF Stopped, app_suota_state
<1>9. ASSUME Restart
      PROVE  suota_state'.suota_image_bank = 0
  BY <1>9 DEF Restart, app_suotar_init
<1>10. ASSUME flash_operation \/ unchecked_fault \/ peer_sends_again \/ Connect \/ UNCHANGED vars
       PROVE  suota_state'.suota_image_bank = 0
  BY <1>10 DEF flash_operation, unchecked_fault, peer_sends_again, Connect, vars
<1>11. ASSUME Disconnect
       PROVE  suota_state'.suota_image_bank = 0
  BY <1>9, <1>11 DEF Disconnect
<1>12. CASE Next
  BY <1>2, <1>3, <1>4, <1>5, <1>6, <1>7, <1>8, <1>9, <1>10, <1>11, <1>12, DataInTurn
  DEF Next, suotar_patch_mem_dev_ind, PowerCycle
<1>. QED
  BY <1>10, <1>12

(* With the bank left to the receiver, the new image goes to a bank beside *)
(* which there is a valid one.                                             *)
LEMMA NewBankLeavesOne ==
    ASSUME TypeInv, suota_state.suota_image_bank = 0, \E b \in Banks : IsValid(flash, b)
    PROVE  IsValid(flash, 3 - new_bank)
<1>1. CASE ~IsValid(flash, 1)
  <2>1. new_bank = 1 /\ 3 - new_bank = 2
    BY <1>1 DEF new_bank
  <2>. QED
    BY <1>1, <2>1 DEF Banks
<1>2. CASE IsValid(flash, 1) /\ ~IsValid(flash, 2)
  <2>1. new_bank = 2 /\ 3 - new_bank = 1
    BY <1>2 DEF new_bank
  <2>. QED
    BY <1>2, <2>1
<1>3. CASE IsValid(flash, 1) /\ IsValid(flash, 2)
  <2>1. new_bank \in Banks
    BY BankChoice DEF TypeInv, TypeOK
  <2>. QED
    BY <1>3, <2>1 DEF Banks
<1>. QED
  BY <1>1, <1>2, <1>3

(* While one bank is written the other keeps its image, so a bootable one  *)
(* never disappears.                                                       *)
LEMMA BootStep ==
    ASSUME TypeInv, EndInv, StoreInv, BootInv, Fits, [Next]_vars,
           WholeFiles, "force_bank" \notin InitiatorHabits
    PROVE  BootInv'
<1>1. suota_state'.suota_image_bank = 0
  BY BankIsLeft DEF BootInv, WholeFiles
<1>2. ASSUME flash' = flash
      PROVE  (\E b \in Banks : IsValid(flash, b))' /\ \A b : IsValid(flash, b)' <=> IsValid(flash, b)
  BY <1>2 DEF BootInv, IsValid, HeaderOf
<1>3. CASE QuietStep
  <2>1. job'.kind = "none" /\ flash' = flash
    BY <1>3 DEF QuietStep, NoJob
  <2>2. Open' => Open /\ Target' = Target
    BY <1>3 DEF QuietStep, Target
  <2>3. Open' => IsValid(flash, 3 - Target)'
    BY <2>1, <2>2 DEF BootInv, IsValid, HeaderOf
  <2>. QED
    BY <1>1, <1>2, <2>1, <2>3 DEF BootInv
<1>4. CASE FirstBlockStep
  <2>1. flash' = flash /\ Target' = new_bank
    BY <1>4, FirstBlockBegins
  <2>2. IsValid(flash, 3 - new_bank)
    BY NewBankLeavesOne DEF BootInv
  <2>3. IsValid(flash, 3 - Target)'
    BY <2>1, <2>2 DEF IsValid, HeaderOf
  <2>. QED
    BY <1>1, <1>2, <2>1, <2>3 DEF BootInv
<1>5. CASE LaterBlockStep \/ EndStep \/ BlockDoneStep \/ UNCHANGED vars
  <2>1. /\ flash' = flash /\ Target' = Target
        /\ Open' \/ job'.kind # "none" => Open \/ job.kind # "none"
    <3>1. CASE LaterBlockStep
      BY <3>1 DEF LaterBlockStep, Target
    <3>2. CASE EndStep
      BY <3>2 DEF EndStep, Target, Base
    <3>3. CASE BlockDoneStep
      BY <3>3 DEF BlockDoneStep, Target, NoJob
    <3>4. CASE UNCHANGED vars
      BY <3>4 DEF vars, Target, Base, Open, Sending, Idx
    <3>. QED
      BY <1>5, <3>1, <3>2, <3>3, <3>4
  <2>2. (Open \/ job.kind # "none")' => IsValid(flash, 3 - Target)'
    BY <2>1 DEF BootInv, IsValid, HeaderOf
  <2>. QED
    BY <1>1, <1>2, <2>1, <2>2 DEF BootInv
<1>6. CASE flash_operation \/ unchecked_fault
  <2>1. job.kind # "none" /\ UNCHANGED <<suota_state, peer>>
    BY <1>6, JobFacts DEF flash_operation, unchecked_fault
  <2>2. Target' = Target /\ IsValid(flash, 3 - Target)
    BY <2>1 DEF BootInv, Target, Base
  <2>3. IsValid(flash', 3 - Target) /\ 3 - Target \in Banks
    <3>1. 3 - Target \in Banks
      BY DEF Target, Banks
    <3>2. CASE flash' = flash
      BY <2>2, <3>1, <3>2
    <3>3. CASE flash' # flash
      <4>. DEFINE c == 3 - Target
      <4>1. /\ Target \in Banks /\ Base = Offset(Target) /\ c \in Banks
            /\ \A x \in Addresses : x < Base \/ x >= Base + BankSize => flash'[x] = flash[x]
        BY <3>3, BankSteps
      <4>2. c # Target
        BY <4>1 DEF Banks
      <4>. HIDE DEF c
      <4>3. IsValid(flash', c) <=> IsValid(flash, c)
        BY <4>1, <4>2, BankStays
      <4>. QED
        BY <2>2, <4>1, <4>3 DEF c
    <3>. QED
      BY <3>2, <3>3
  <2>4. IsValid(flash, 3 - Target)' /\ (\E b \in Banks : IsValid(flash, b))'
    BY <2>2, <2>3 DEF IsValid, HeaderOf
  <2>. QED
    BY <1>1, <2>4 DEF BootInv
<1>. QED
  BY <1>3, <1>4, <1>5, <1>6, StepCases

(* The factory leaves an image to boot.                                    *)
LEMMA BootInit ==
    ASSUME Init, Fits, DeliveredWithImage
    PROVE  BootInv
<1>1. PICK images \in FactoryImages :
         \A b \in Banks : images[b] # Nothing => IsValid(flash, b)
  BY FactoryBanks
<1>2. PICK b \in Banks : images[b] # Nothing
  BY DEF DeliveredWithImage
<1>3. job.kind = "none" /\ ~Open /\ suota_state.suota_image_bank = 0
  BY DEF Init, NoJob, NoPeer, Open, Sending, app_suotar_init
<1>. QED
  BY <1>1, <1>2, <1>3 DEF BootInv

(* Together: at any moment a reset boots one of the images.                *)
SafeInv == OutsideInv /\ StoreInv /\ FlaggedImageIsIntact /\ BootInv

(* A delivered device is safe.                                             *)
LEMMA SafeInit == Init /\ Fits /\ DeliveredWithImage => SafeInv
  BY OutsideInit, StoreInit, IntactInit, BootInit DEF SafeInv

(* A safe device stays safe.                                               *)
LEMMA SafeStep ==
    ASSUME TypeInv, SafeInv, Fits, [Next]_vars, "erase" \notin FlashFaults,
           WholeFiles, "force_bank" \notin InitiatorHabits
    PROVE  SafeInv'
  BY OutsideStep, StoreStep, IntactStep, BootStep DEF SafeInv, OutsideInv

(* The bootloader of a safe device starts an image.                        *)
LEMMA SafeBoots == SafeInv => loadActiveImage(flash) \in Versions
<1>. SUFFICES ASSUME SafeInv PROVE loadActiveImage(flash) \in Versions
  OBVIOUS
<1>1. flash[ProductHeader] = Foreign
  BY ProductStays DEF SafeInv, OutsideInv
<1>2. /\ \E b \in Banks : IsValid(flash, b)
      /\ \A b \in Banks : IsValid(flash, b) => CrcMatches(flash, b)
  BY DEF SafeInv, BootInv, FlaggedImageIsIntact
<1>. QED
  BY <1>1, <1>2, SomeImageBoots

(* A reset at any moment boots an intact image: an initiator that leaves   *)
(* the bank to the receiver and ends a session only after the whole file   *)
(* cannot leave the device without one, wherever power is lost, whichever  *)
(* reads and writes fail and however many updates are made.                *)
THEOREM DeviceStaysBootable ==
    ASSUME WholeFiles, "force_bank" \notin InitiatorHabits,
           "erase" \notin FlashFaults, Fits, DeliveredWithImage
    PROVE  Spec => []AlwaysBootable
<1>1. Init => SafeInv
  BY SafeInit
<1>2. TypeInv /\ SafeInv /\ [Next]_vars => SafeInv'
  BY SafeStep
<1>3. SafeInv => AlwaysBootable
  BY SafeBoots DEF AlwaysBootable
<1>10. Spec => []TypeInv
  BY TypeCorrect DEF WholeFiles
<1>. QED
  BY <1>1, <1>2, <1>3, <1>10, PTL DEF Spec

(* Under the same conditions the code that runs was loaded and checked: the*)
(* bootloader never starts a single valid image whose CRC does not match.  *)
THEOREM RunningImageIsIntact ==
    ASSUME WholeFiles, "force_bank" \notin InitiatorHabits,
           "erase" \notin FlashFaults, Fits, DeliveredWithImage
    PROVE  Spec => []RunsIntactImage
<1>. DEFINE I == SafeInv /\ running \in Versions
<1>1. Init => I
  BY SafeInit, SafeBoots DEF Init
<1>2. TypeInv /\ I /\ [Next]_vars => I'
  <2>. SUFFICES ASSUME TypeInv, I, [Next]_vars PROVE I'
    OBVIOUS
  <2>1. SafeInv'
    BY SafeStep
  <2>2. running' = running \/ Restart
    <3>. QED
      BY DEF Next, peer_sends_data, vars, suotar_patch_mem_dev_ind, suotar_patch_len_ind,
          suotar_gpio_map_ind, peer_sends_again, flash_operation, unchecked_fault, checked_fault, handler_returns,
          Connect, Disconnect, PowerCycle
  <2>3. running' \in Versions
    BY <2>2, SafeBoots DEF Restart
  <2>. QED
    BY <2>1, <2>3
<1>3. I => RunsIntactImage
  BY MarkAssumption DEF RunsIntactImage
<1>10. Spec => []TypeInv
  BY TypeCorrect DEF WholeFiles
<1>. QED
  BY <1>1, <1>2, <1>3, <1>10, PTL DEF Spec

-----------------------------------------------------------------------------
(* An update is atomic. *)

(* The factory fills both banks with one image or leaves one of them.      *)
(* Their ids are equal, and of two equal ids the bootloader takes the bank *)
(* that the receiver writes first.                                         *)
OneFactoryImage ==
    \A images \in FactoryImages : \A b, c \in Banks :
        images[b] # Nothing /\ images[c] # Nothing => images[b] = images[c]

(* Equal ids mean equal images.                                            *)
TwinInv ==
    IsValid(flash, 1) /\ IsValid(flash, 2) /\ HeaderOf(flash, 1).id = HeaderOf(flash, 2).id
        => HeaderOf(flash, 1).ver = HeaderOf(flash, 2).ver

(* While a bank is written, a reset boots the image of the other one, from *)
(* before the first erase on.                                              *)
ActiveInv == job.kind = "block" => loadActiveImage(flash) = HeaderOf(flash, 3 - Target).ver

(* What is said of the next flash is said of flash'.                       *)
LEMMA NextFlash ==
    /\ loadActiveImage(flash)' = loadActiveImage(flash')
    /\ \A b : HeaderOf(flash, b)' = HeaderOf(flash', b) /\ IsValid(flash, b)' = IsValid(flash', b)
  BY DEF loadActiveImage, ActiveBank, findlatest, IsValid, CrcMatches, HeaderOf

(* The receiver and the bootloader compare ids alike: the older image of   *)
(* one is not the latest of the other.                                     *)
LEMMA OldIsNotLatest ==
    ASSUME NEW i \in Ids, NEW j \in Ids, i # j
    PROVE  app_find_old_img(i, j) = 3 - findlatest(i, j)
  BY IdAssumption DEF Ids, app_find_old_img, findlatest

(* The bank that the receiver chooses holds no image or the one that a     *)
(* reset does not boot.                                                    *)
LEMMA NewBankIsNotActive ==
    ASSUME TypeInv, SafeInv, TwinInv
    PROVE  loadActiveImage(flash) = HeaderOf(flash, 3 - new_bank).ver
<1>1. flash[ProductHeader] = Foreign
  BY ProductStays DEF SafeInv, OutsideInv
<1>2. \A b \in Banks : IsValid(flash, b) => CrcMatches(flash, b)
  BY DEF SafeInv, FlaggedImageIsIntact
<1>3. suota_state.suota_image_bank = 0 /\ new_bank \in Banks /\ IsValid(flash, 3 - new_bank)
  BY BankChoice, NewBankLeavesOne DEF SafeInv, BootInv, TypeInv, TypeOK
<1>4. CASE ~IsValid(flash, new_bank)
  <2>. DEFINE c == 3 - new_bank
  <2>1. c \in Banks /\ 3 - c = new_bank
    BY <1>3 DEF Banks
  <2>. HIDE DEF c
  <2>2. IsValid(flash, c) /\ ~IsValid(flash, 3 - c)
    BY <1>3, <1>4, <2>1 DEF c
  <2>3. loadActiveImage(flash) = HeaderOf(flash, c).ver
    BY <1>1, <1>2, <2>1, <2>2, SingleImageBoots
  <2>. QED
    BY <2>3 DEF c
<1>5. CASE IsValid(flash, new_bank)
  <2>. DEFINE i == HeaderOf(flash, 1).id
              j == HeaderOf(flash, 2).id
  <2>1. IsValid(flash, 1) /\ IsValid(flash, 2)
    BY <1>3, <1>5 DEF Banks
  <2>2. i \in Ids /\ j \in Ids
    BY <2>1, ValidHeader DEF Banks
  <2>3. new_bank = app_find_old_img(i, j)
    BY <1>3, <2>1, Zenon DEF new_bank
  <2>4. ActiveBank(flash) = findlatest(i, j)
    BY DEF ActiveBank
  <2>5. ActiveBank(flash) \in Banks /\ IsValid(flash, ActiveBank(flash))
    BY <2>1, ActiveBankIsABank DEF Banks
  <2>6. loadActiveImage(flash) = HeaderOf(flash, ActiveBank(flash)).ver
    BY <1>1, <1>2, <2>1, <2>5, LatestImageBoots
  <2>7. CASE i = j
    <3>1. HeaderOf(flash, 1).ver = HeaderOf(flash, 2).ver
      BY <2>1, <2>7 DEF TwinInv
    <3>2. 3 - new_bank \in Banks
      BY <1>3 DEF Banks
    <3>. QED
      BY <2>5, <2>6, <3>1, <3>2 DEF Banks
  <2>. HIDE DEF i, j
  <2>8. CASE i # j
    <3>1. new_bank = 3 - ActiveBank(flash)
      BY <2>2, <2>3, <2>4, <2>8, OldIsNotLatest
    <3>2. ActiveBank(flash) = 3 - new_bank
      BY <2>5, <3>1 DEF Banks
    <3>. QED
      BY <2>6, <3>2
  <2>. QED
    BY <2>7, <2>8
<1>. QED
  BY <1>4, <1>5

(* With the bank being written not valid, a reset boots the other one.     *)
LEMMA OtherBankBoots ==
    ASSUME SafeInv, NEW b \in Banks, ~IsValid(flash, b), IsValid(flash, 3 - b)
    PROVE  loadActiveImage(flash) = HeaderOf(flash, 3 - b).ver
<1>1. flash[ProductHeader] = Foreign
  BY ProductStays DEF SafeInv, OutsideInv
<1>. DEFINE c == 3 - b
<1>2. c \in Banks /\ 3 - c = b
  BY DEF Banks
<1>. HIDE DEF c
<1>3. IsValid(flash, c) /\ ~IsValid(flash, 3 - c)
  BY <1>2 DEF c
<1>4. CrcMatches(flash, c)
  BY <1>2, <1>3 DEF SafeInv, FlaggedImageIsIntact
<1>5. loadActiveImage(flash) = HeaderOf(flash, c).ver
  BY <1>1, <1>2, <1>3, <1>4, SingleImageBoots
<1>. QED
  BY <1>5 DEF c

(* The header of a written image is not valid before the flag is set.      *)
LEMMA WrittenIsNotValid ==
    ASSUME TypeInv, Open, NEW n \in Nat \ {0}, Written(n)
    PROVE  ~IsValid(flash, Target)
<1>1. Target \in Banks /\ Base = Offset(Target) /\ Base \in Nat /\ peer.ver \in Versions
  BY TargetFacts
<1>2. flash[Base] = NewHeader(peer.ver, Target)
  <2>1. Cell(0) = Unit(0)
    BY DEF Written, Sure
  <2>2. Base + 0 = Base
    BY <1>1
  <2>. QED
    BY <2>1, <2>2 DEF Cell, Unit, UnitOf
<1>3. NewHeader(peer.ver, Target).validflag = FALSE
  BY <1>1, NewHeaderFields
<1>. QED
  BY <1>1, <1>2, <1>3 DEF IsValid, HeaderOf

(* Equal ids stay equal images: a new image gets the id after that of the  *)
(* other.                                                                  *)
LEMMA TwinStep ==
    ASSUME TypeInv, EndInv, StoreInv, Fits, [Next]_vars, WholeFiles,
           TwinInv
    PROVE  TwinInv'
<1>1. CASE flash' = flash
  BY <1>1 DEF TwinInv, IsValid, HeaderOf
<1>2. CASE flash' # flash
  <2>1. /\ Target \in Banks /\ 3 - Target \in Banks /\ Base = Offset(Target)
        /\ \A x \in Addresses : x < Base \/ x >= Base + BankSize => flash'[x] = flash[x]
        /\ \/ ~IsValid(flash', Target)
           \/ Open /\ HeaderOf(flash', Target) = Header(peer.ver, imageid(Target), TRUE)
    BY <1>2, BankSteps
  <2>2. CASE ~IsValid(flash', Target)
    BY <2>1, <2>2, NextFlash DEF TwinInv, Banks
  <2>3. CASE Open /\ HeaderOf(flash', Target) = Header(peer.ver, imageid(Target), TRUE)
    <3>. DEFINE c == 3 - Target
    <3>1. c \in Banks /\ c # Target
      BY <2>1 DEF Banks
    <3>. HIDE DEF c
    <3>2. HeaderOf(flash', c) = HeaderOf(flash, c) /\ (IsValid(flash', c) <=> IsValid(flash, c))
      BY <2>1, <3>1, BankStays
    <3>3. ASSUME IsValid(flash', c)
          PROVE  HeaderOf(flash', Target).id # HeaderOf(flash', c).id
      <4>. DEFINE i == HeaderOf(flash, c).id
      <4>1. i \in Ids
        BY <3>1, <3>2, <3>3, ValidHeader
      <4>2. NextId(i) # i
        BY <4>1, NextIds
      <4>3. imageid(Target) = NextId(i)
        BY <3>2, <3>3 DEF imageid, app_get_image_id, NextId, c
      <4>4. Header(peer.ver, imageid(Target), TRUE).id = imageid(Target)
        BY DEF Header
      <4>. QED
        BY <2>3, <3>2, <4>2, <4>3, <4>4
    <3>4. (Target = 1 /\ c = 2) \/ (Target = 2 /\ c = 1)
      BY <2>1 DEF Banks, c
    <3>5. IsValid(flash', 1) /\ IsValid(flash', 2) => HeaderOf(flash', 1).id # HeaderOf(flash', 2).id
      BY <3>3, <3>4
    <3>. QED
      BY <3>5, NextFlash DEF TwinInv
  <2>. QED
    BY <2>1, <2>2, <2>3
<1>. QED
  BY <1>1, <1>2

(* With the header of its bank erased or without its flag, an image that   *)
(* is written is not the one that boots; with the flag it is.              *)
OtherInv ==
    job.kind = "block" /\ ~IsValid(flash, Target) =>
        loadActiveImage(flash) = HeaderOf(flash, 3 - Target).ver
InstalledInv == job.kind = "end" /\ job.ops = << >> => loadActiveImage(flash) = peer.ver

(* Both follow from what makes the device safe.                            *)
LEMMA BootsWell == TypeInv /\ SafeInv => OtherInv /\ InstalledInv
<1>. SUFFICES ASSUME TypeInv, SafeInv PROVE OtherInv /\ InstalledInv
  OBVIOUS
<1>1. OtherInv
  <2>. SUFFICES ASSUME job.kind = "block", ~IsValid(flash, Target)
                PROVE  loadActiveImage(flash) = HeaderOf(flash, 3 - Target).ver
    BY DEF OtherInv
  <2>1. Target \in Banks /\ IsValid(flash, 3 - Target)
    BY TargetFacts DEF SafeInv, BootInv
  <2>. QED
    BY <2>1, OtherBankBoots
<1>2. InstalledInv
  <2>. SUFFICES ASSUME job.kind = "end", job.ops = << >> PROVE loadActiveImage(flash) = peer.ver
    BY DEF InstalledInv
  <2>. QED
    BY FlaggedBoots DEF SafeInv, StoreInv, OutsideInv
<1>. QED
  BY <1>1, <1>2

(* From the first block on, and through every operation on the flash, a    *)
(* reset boots the image of the other bank.                                *)
LEMMA ActiveStep ==
    ASSUME TypeInv, SafeInv, TwinInv, ActiveInv, OtherInv', Fits, [Next]_vars,
           WholeFiles
    PROVE  ActiveInv'
<1>. SUFFICES ASSUME job'.kind = "block" PROVE ActiveInv'
  BY DEF ActiveInv
<1>1. ASSUME NEW b \in Banks, Target' = b, flash' = flash,
             loadActiveImage(flash) = HeaderOf(flash, 3 - b).ver
      PROVE  ActiveInv'
  <2>1. loadActiveImage(flash)' = loadActiveImage(flash)
    BY <1>1, NextFlash
  <2>2. HeaderOf(flash, 3 - Target)' = HeaderOf(flash, 3 - b)
    BY <1>1 DEF HeaderOf
  <2>. QED
    BY <1>1, <2>1, <2>2 DEF ActiveInv
<1>2. CASE FirstBlockStep
  <2>1. Target' = new_bank /\ new_bank \in Banks /\ flash' = flash
    BY <1>2, FirstBlockBegins
  <2>. QED
    BY <1>1, <2>1, NewBankIsNotActive
<1>3. CASE LaterBlockStep
  <2>1. Open /\ job.kind = "none" /\ Idx \in Nat \ {0}
    BY <1>3, TargetFacts DEF LaterBlockStep, NoJob, Open
  <2>2. Written(Idx) /\ Ready(Idx) /\ IsValid(flash, 3 - Target)
    BY <2>1 DEF SafeInv, StoreInv, BootInv
  <2>3. ~IsValid(flash, Target) /\ Target \in Banks
    BY <2>1, <2>2, WrittenIsNotValid, TargetFacts
  <2>4. Target' = Target /\ flash' = flash
    BY <1>3, <2>2, LaterBlockBegins
  <2>5. loadActiveImage(flash) = HeaderOf(flash, 3 - Target).ver
    BY <2>2, <2>3, OtherBankBoots
  <2>. QED
    BY <1>1, <2>3, <2>4, <2>5
<1>4. CASE flash_operation \/ unchecked_fault \/ UNCHANGED vars
  <2>1. job.kind = "block" /\ UNCHANGED <<suota_state, peer>>
    BY <1>4, JobFacts DEF flash_operation, unchecked_fault, vars
  <2>2. Target' = Target /\ Target \in Banks
    BY <2>1, TargetFacts DEF Target, Base
  <2>3. loadActiveImage(flash) = HeaderOf(flash, 3 - Target).ver
    BY <2>1 DEF ActiveInv
  <2>4. CASE flash' = flash
    BY <1>1, <2>2, <2>3, <2>4
  <2>5. CASE flash' # flash
    <3>1. ~IsValid(flash', Target)
      BY <2>1, <2>5, BankSteps DEF SafeInv, OutsideInv
    <3>2. ~IsValid(flash, Target)'
      BY <2>2, <3>1 DEF IsValid, HeaderOf
    <3>. QED
      BY <3>2 DEF OtherInv, ActiveInv
  <2>. QED
    BY <2>4, <2>5
<1>5. CASE QuietStep \/ EndStep \/ BlockDoneStep
  BY <1>5 DEF QuietStep, EndStep, BlockDoneStep, NoJob
<1>. QED
  BY <1>2, <1>3, <1>4, <1>5, StepCases DEF SafeInv, OutsideInv

(* What ImageUpdate sees.                                                  *)
Installed == loadActiveImage(flash)
Offered   == IF job.kind = "end" THEN peer.ver ELSE Nothing

(* An operation on the flash changes what boots only when it is the one    *)
(* that sets the flag, and then to the image sent.                         *)
LEMMA InstalledStep ==
    ASSUME TypeInv, SafeInv, Fits, [Next]_vars, WholeFiles,
           ActiveInv, ActiveInv', InstalledInv', flash_operation \/ unchecked_fault
    PROVE  \/ job.kind = "block" /\ job'.kind = "block" /\ UNCHANGED Installed
           \/ /\ job.kind = "end" /\ job'.kind = "end" /\ peer' = peer
              /\ peer.ver \in Versions /\ Installed' = peer.ver
<1>1. job.kind \in {"block", "end"} /\ job'.kind = job.kind /\ UNCHANGED <<suota_state, peer>>
  BY JobFacts DEF flash_operation, unchecked_fault
<1>2. CASE job.kind = "block"
  <2>. DEFINE c == 3 - Target
  <2>1. /\ loadActiveImage(flash) = HeaderOf(flash, c).ver
        /\ loadActiveImage(flash)' = HeaderOf(flash, c)'.ver
    BY <1>1, <1>2 DEF ActiveInv
  <2>2. Target' = Target /\ Target \in Banks /\ c \in Banks /\ c # Target
    <3>1. Target' = Target /\ Target \in Banks
      BY <1>1, <1>2, TargetFacts DEF Target, Base
    <3>. QED
      BY <3>1 DEF Banks
  <2>3. HeaderOf(flash, c)' = HeaderOf(flash', c)
    BY <2>2 DEF HeaderOf
  <2>4. HeaderOf(flash', c) = HeaderOf(flash, c)
    <3>1. CASE flash' = flash
      BY <3>1
    <3>2. CASE flash' # flash
      <4>1. /\ Base = Offset(Target)
            /\ \A x \in Addresses : x < Base \/ x >= Base + BankSize => flash'[x] = flash[x]
        BY <3>2, BankSteps DEF SafeInv, OutsideInv
      <4>. HIDE DEF c
      <4>. QED
        BY <2>2, <4>1, BankStays
    <3>. QED
      BY <3>1, <3>2
  <2>. QED
    BY <1>1, <1>2, <2>1, <2>3, <2>4 DEF Installed
<1>3. CASE job.kind = "end"
  <2>1. job.ops # << >> /\ Open
    BY <1>3 DEF flash_operation, unchecked_fault, SafeInv, OutsideInv, EndInv
  <2>2. Written(Len0)
    BY <1>3, <2>1 DEF SafeInv, StoreInv
  <2>3. job'.ops = << >>
    BY <1>3, <2>2, FlagIsSet DEF SafeInv, OutsideInv
  <2>4. loadActiveImage(flash)' = peer'.ver
    BY <1>1, <1>3, <2>3 DEF InstalledInv
  <2>5. peer.ver \in Versions
    BY <2>1, TargetFacts
  <2>. QED
    BY <1>1, <1>3, <2>4, <2>5 DEF Installed
<1>. QED
  BY <1>1, <1>2, <1>3

(* Every step is a step of an atomic update, or none.                      *)
LEMMA AtomicStep ==
    ASSUME TypeInv, SafeInv, Fits, [Next]_vars, WholeFiles,
           ActiveInv, ActiveInv', InstalledInv'
    PROVE  [Update!Next]_<<Installed, Offered>>
<1>1. ASSUME UNCHANGED Installed, Offered' = Nothing
      PROVE  [Update!Next]_<<Installed, Offered>>
  BY <1>1 DEF Update!Next, Update!Withdraw, Installed, Offered
<1>2. CASE QuietStep \/ FirstBlockStep \/ LaterBlockStep \/ BlockDoneStep
  <2>1. flash' = flash /\ job'.kind # "end"
    BY <1>2 DEF QuietStep, FirstBlockStep, LaterBlockStep, BlockDoneStep, NoJob
  <2>. QED
    BY <1>1, <2>1, NextFlash DEF Installed, Offered
<1>3. CASE EndStep
  <2>1. /\ flash' = flash /\ peer' = peer /\ peer.ver \in Versions
        /\ job.kind = "none" /\ job'.kind = "end"
    BY <1>3, TargetFacts DEF EndStep, NoJob
  <2>2. Installed' = Installed
    BY <2>1, NextFlash DEF Installed
  <2>3. Offered = Nothing /\ Offered' \in Versions
    BY <2>1 DEF Offered
  <2>. QED
    BY <2>2, <2>3 DEF Update!Next, Update!Offer, Installed, Offered
<1>4. CASE flash_operation \/ unchecked_fault
  <2>1. CASE job.kind = "block" /\ job'.kind = "block" /\ UNCHANGED Installed
    BY <1>1, <2>1 DEF Offered
  <2>2. CASE /\ job.kind = "end" /\ job'.kind = "end" /\ peer' = peer
             /\ peer.ver \in Versions /\ Installed' = peer.ver
    <3>1. Offered = peer.ver /\ Offered' = peer.ver /\ peer.ver # Nothing
      BY <2>2, MarkAssumption DEF Offered
    <3>. QED
      BY <2>2, <3>1 DEF Update!Next, Update!Commit, Installed, Offered
  <2>. QED
    BY <1>4, <2>1, <2>2, InstalledStep
<1>5. CASE UNCHANGED vars
  <2>1. flash' = flash /\ peer' = peer /\ job' = job
    BY <1>5 DEF vars
  <2>2. Installed' = Installed /\ Offered' = Offered
    BY <2>1, NextFlash DEF Installed, Offered
  <2>. QED
    BY <2>2
<1>. QED
  BY <1>2, <1>3, <1>4, <1>5, StepCases DEF SafeInv, OutsideInv

(* Writing and committing an image is one atomic change of what a reset    *)
(* boots: the receiver with its interrupted handlers, failing reads and    *)
(* writes and lost power implements ImageUpdate, on a device with one      *)
(* image from the factory.                                                 *)
THEOREM UpdatesAreAtomic ==
    ASSUME WholeFiles, "force_bank" \notin InitiatorHabits,
           "erase" \notin FlashFaults, Fits, DeliveredWithImage, OneFactoryImage
    PROVE  Spec => UpdateIsAtomic
<1>1. Init => SafeInv /\ TwinInv /\ ActiveInv /\ Update!Init
  <2>. SUFFICES ASSUME Init PROVE SafeInv /\ TwinInv /\ ActiveInv /\ Update!Init
    OBVIOUS
  <2>1. SafeInv
    BY SafeInit
  <2>2. TwinInv
    <3>1. PICK images \in FactoryImages : \A b \in Banks :
            /\ images[b] # Nothing => HeaderOf(flash, b) = Header(images[b], MaxId, TRUE)
            /\ images[b] = Nothing => ~IsValid(flash, b)
      BY FactoryBanks
    <3>2. 1 \in Banks /\ 2 \in Banks
      BY DEF Banks
    <3>3. images[1] # Nothing /\ images[2] # Nothing => images[1] = images[2]
      BY <3>2 DEF OneFactoryImage
    <3>. QED
      BY <3>1, <3>2, <3>3, Zenon DEF TwinInv
  <2>3. job.kind = "none"
    BY DEF Init, NoJob
  <2>4. ActiveInv
    BY <2>3 DEF ActiveInv
  <2>5. Update!Init
    BY <2>1, <2>3, SafeBoots DEF Update!Init
  <2>. QED
    BY <2>1, <2>2, <2>4, <2>5
<1>2. TypeInv /\ SafeInv /\ TwinInv /\ [Next]_vars => SafeInv' /\ TwinInv'
  BY SafeStep, TwinStep DEF SafeInv, OutsideInv
<1>3. TypeInv /\ SafeInv => OtherInv /\ InstalledInv
  BY BootsWell
<1>4. TypeInv /\ SafeInv /\ TwinInv /\ ActiveInv /\ OtherInv' /\ [Next]_vars => ActiveInv'
  BY ActiveStep
<1>5. TypeInv /\ SafeInv /\ ActiveInv /\ ActiveInv' /\ InstalledInv' /\ [Next]_vars
        => [Update!Next]_<<Installed, Offered>>
  BY AtomicStep
<1>10. Spec => []TypeInv
  BY TypeCorrect DEF WholeFiles
<1>. QED
  BY <1>1, <1>2, <1>3, <1>4, <1>5, <1>10, PTL
  DEF Spec, UpdateIsAtomic, Update!Spec, Installed, Offered
=============================================================================
