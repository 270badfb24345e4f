---------------------------- MODULE SuotarProofs ----------------------------
(* What the SUOTA receiver and the secondary bootloader guarantee for any  *)
(* images, any bank, sector and block size, and any number of updates.     *)
EXTENDS Suotar, UpdateFlashProofs, SequenceTheorems, TLAPS

-----------------------------------------------------------------------------
(* The operations of a handler. *)

(* What the three kinds of operations are made of.                         *)
LEMMA OpFields ==
    /\ \A a \in Nat, c \in BOOLEAN : SectorOf(a) \in Addresses =>
          /\ EraseOp(a, c) \in FlashOps /\ EraseOp(a, c).op = "erase"
          /\ EraseOp(a, c).at = SectorOf(a) /\ EraseOp(a, c).checked = c
    /\ \A a \in Addresses, u \in Contents :
          /\ ProgramOp(a, u) \in FlashOps /\ ProgramOp(a, u).op = "program"
          /\ ProgramOp(a, u).at = a /\ ProgramOp(a, u).unit = u /\ ProgramOp(a, u).checked = TRUE
    /\ \A a \in Addresses :
          /\ FlagOp(a) \in FlashOps /\ FlagOp(a).op = "flag" /\ FlagOp(a).at = a
          /\ FlagOp(a).checked = TRUE
<1>1. ASSUME NEW a \in Nat, NEW c \in BOOLEAN, SectorOf(a) \in Addresses
      PROVE  /\ EraseOp(a, c) \in FlashOps /\ EraseOp(a, c).op = "erase"
             /\ EraseOp(a, c).at = SectorOf(a) /\ EraseOp(a, c).checked = c
  <2>1. Blank \in Contents
    BY DEF Contents
  <2>2. EraseOp(a, c) \in FlashOps
    BY <1>1, <2>1, Zenon DEF EraseOp, FlashOps
  <2>3. EraseOp(a, c).op = "erase" /\ EraseOp(a, c).at = SectorOf(a) /\ EraseOp(a, c).checked = c
    BY Zenon DEF EraseOp
  <2>. QED
    BY <2>2, <2>3
<1>2. ASSUME NEW a \in Addresses, NEW u \in Contents
      PROVE  /\ ProgramOp(a, u) \in FlashOps /\ ProgramOp(a, u).op = "program"
             /\ ProgramOp(a, u).at = a /\ ProgramOp(a, u).unit = u /\ ProgramOp(a, u).checked = TRUE
  <2>1. ProgramOp(a, u) \in FlashOps
    BY <1>2, Zenon DEF ProgramOp, FlashOps
  <2>2. /\ ProgramOp(a, u).op = "program" /\ ProgramOp(a, u).at = a /\ ProgramOp(a, u).unit = u
        /\ ProgramOp(a, u).checked = TRUE
    BY Zenon DEF ProgramOp
  <2>. QED
    BY <2>1, <2>2
<1>3. ASSUME NEW a \in Addresses
      PROVE  /\ FlagOp(a) \in FlashOps /\ FlagOp(a).op = "flag" /\ FlagOp(a).at = a
             /\ FlagOp(a).checked = TRUE
  <2>1. Blank \in Contents
    BY DEF Contents
  <2>2. FlagOp(a) \in FlashOps
    BY <1>3, <2>1, Zenon DEF FlagOp, FlashOps
  <2>3. FlagOp(a).op = "flag" /\ FlagOp(a).at = a /\ FlagOp(a).checked = TRUE
    BY Zenon DEF FlagOp
  <2>. QED
    BY <2>2, <2>3
<1>. QED
  BY <1>1, <1>2, <1>3

(* The elements of two sequences, one after the other.                     *)
LEMMA Concat ==
    ASSUME NEW S, NEW s \in Seq(S), NEW t \in Seq(S)
    PROVE  /\ s \o t \in Seq(S) /\ Len(s \o t) = Len(s) + Len(t)
           /\ \A i \in 1..Len(s) : (s \o t)[i] = s[i]
           /\ \A i \in 1..Len(t) : (s \o t)[Len(s) + i] = t[i]
<1>1. /\ s \o t \in Seq(S) /\ Len(s \o t) = Len(s) + Len(t)
      /\ \A i \in 1..(Len(s) + Len(t)) : (s \o t)[i] = IF i <= Len(s) THEN s[i] ELSE t[i - Len(s)]
  BY ConcatProperties
<1>2. Len(s) \in Nat /\ Len(t) \in Nat
  BY LenProperties
<1>. DEFINE w == s \o t
<1>. HIDE DEF w
<1>3. ASSUME NEW i \in 1..Len(s)
      PROVE  w[i] = s[i]
  BY <1>1, <1>2 DEF w
<1>4. ASSUME NEW i \in 1..Len(t)
      PROVE  w[Len(s) + i] = t[i]
  <2>. DEFINE j == Len(s) + i
  <2>1. j \in 1..(Len(s) + Len(t)) /\ ~(j <= Len(s)) /\ j - Len(s) = i
    BY <1>2
  <2>. HIDE DEF j
  <2>2. w[j] = t[j - Len(s)]
    BY <1>1, <2>1 DEF w
  <2>. QED
    BY <2>1, <2>2 DEF j
<1>. QED
  BY <1>1, <1>3, <1>4 DEF w

(* The erases of a write of n units at a: how many, and of what.           *)
Erases(a, n) == IF SectorOf(a) = a \/ SectorOf(a + n) # SectorOf(a) THEN 1 ELSE 0
Erased(a, n) == IF SectorOf(a) = a THEN a ELSE a + n

(* A write of units inside a bank: at most one erase, of the sector that   *)
(* starts or of the next one, then the units one after the other.          *)
LEMMA WriteData ==
    ASSUME NEW b \in Banks, NEW a \in Nat, NEW units \in Seq(Headers \cup Chunks),
           a >= Offset(b), a + Len(units) <= Offset(b) + BankSize
    PROVE  LET e == Erases(a, Len(units))
               W == app_flash_write_data(a, units)
           IN  /\ W \in Seq(FlashOps) /\ Len(W) = e + Len(units) /\ e \in 0..1
               /\ \A i \in 1..Len(units) : W[e + i] = ProgramOp(a + i - 1, units[i])
               /\ e = 1 => W[1] = EraseOp(Erased(a, Len(units)), FALSE)
<1>. DEFINE n == Len(units)
            P == [i \in 1..n |-> ProgramOp(a + i - 1, units[i])]
            D == DelayedErase(a, n)
            top == Erased(a, n)
<1>1. n \in Nat /\ Offset(b) \in Nat /\ BankSize \in Nat
  BY LenProperties, BankEnds, LayoutAssumption
<1>2. top \in Nat /\ SectorOf(top) \in Addresses
  <2>1. a \in Offset(b)..(Offset(b) + BankSize) /\ a + n \in Offset(b)..(Offset(b) + BankSize)
    BY <1>1
  <2>. QED
    BY <1>1, <2>1, BankEnds DEF Erased
<1>3. \A i \in 1..n : ProgramOp(a + i - 1, units[i]) \in FlashOps
  <2>1. \A i \in 1..n : a + i - 1 \in Offset(b)..(Offset(b) + BankSize)
    BY <1>1
  <2>2. \A i \in 1..n : a + i - 1 \in Addresses
    BY <2>1, BankEnds
  <2>3. \A i \in 1..n : units[i] \in Contents
    BY ElementOfSeq DEF Contents
  <2>. QED
    BY <2>2, <2>3, OpFields
<1>4. P \in Seq(FlashOps) /\ Len(P) = n /\ \A i \in 1..n : P[i] = ProgramOp(a + i - 1, units[i])
  <2>1. P \in [1..n -> FlashOps]
    BY <1>3
  <2>. QED
    BY <1>1, <2>1
<1>5. app_flash_write_data(a, units) = D \o P
  BY DEF app_flash_write_data
<1>6. CASE SectorOf(a) = a \/ SectorOf(a + n) # SectorOf(a)
  <2>1. D = <<EraseOp(top, FALSE)>> /\ Erases(a, n) = 1
    BY <1>6, Zenon DEF DelayedErase, Erases, Erased
  <2>2. EraseOp(top, FALSE) \in FlashOps
    <3>. HIDE DEF top
    <3>. QED
      BY <1>2, OpFields
  <2>3. D \in Seq(FlashOps) /\ Len(D) = 1 /\ D[1] = EraseOp(top, FALSE)
    <3>. DEFINE x == EraseOp(top, FALSE)
    <3>1. x \in FlashOps /\ D = <<x>>
      BY <2>1, <2>2
    <3>. HIDE DEF x, D
    <3>2. D \in Seq(FlashOps) /\ Len(D) = 1 /\ D[1] = x
      BY <3>1
    <3>. QED
      BY <3>2 DEF x
  <2>. HIDE DEF D, P, n
  <2>4. /\ D \o P \in Seq(FlashOps) /\ Len(D \o P) = Len(D) + Len(P)
        /\ \A i \in 1..Len(D) : (D \o P)[i] = D[i]
        /\ \A i \in 1..Len(P) : (D \o P)[Len(D) + i] = P[i]
    <3>. D \in Seq(FlashOps) /\ P \in Seq(FlashOps)
      BY <1>4, <2>3
    <3>. QED
      BY Concat
  <2>5. \A i \in 1..n : (D \o P)[1 + i] = ProgramOp(a + i - 1, units[i])
    BY <1>4, <2>3, <2>4, Zenon
  <2>6. n = Len(units) /\ (D \o P)[1] = EraseOp(Erased(a, Len(units)), FALSE)
    <3>1. 1 \in 1..Len(D)
      BY <2>3
    <3>. QED
      BY <2>3, <2>4, <3>1 DEF n
  <2>7. Erases(a, Len(units)) = 1
    BY <2>1, <2>6
  <2>. DEFINE W == app_flash_write_data(a, units)
  <2>8. /\ W \in Seq(FlashOps) /\ Len(W) = 1 + Len(units) /\ 1 \in 0..1
        /\ \A i \in 1..Len(units) : W[1 + i] = ProgramOp(a + i - 1, units[i])
        /\ W[1] = EraseOp(Erased(a, Len(units)), FALSE)
    <3>. HIDE DEF top
    <3>. QED
      BY <1>4, <1>5, <2>3, <2>4, <2>5, <2>6
  <2>. HIDE DEF W
  <2>. QED
    BY <2>7, <2>8 DEF W
<1>7. CASE ~(SectorOf(a) = a \/ SectorOf(a + n) # SectorOf(a))
  <2>1. D = << >> /\ Erases(a, n) = 0
    BY <1>7, Zenon DEF DelayedErase, Erases
  <2>. HIDE DEF D, P, n
  <2>2. D \o P = P
    BY <1>4, <2>1, ConcatEmptySeq
  <2>3. \A i \in 1..n : 0 + i = i
    BY <1>1
  <2>4. Len(P) = 0 + n
    BY <1>1, <1>4
  <2>. QED
    BY <1>4, <1>5, <2>1, <2>2, <2>3, <2>4 DEF n
<1>. QED
  BY <1>6, <1>7

(* A single unit at the start of a sector.                                 *)
LEMMA WriteUnit ==
    ASSUME NEW b \in Banks, NEW u \in Headers
    PROVE  LET W == app_flash_write_data(Offset(b), <<u>>)
           IN  /\ W \in Seq(FlashOps) /\ Len(W) = 2
               /\ W[1] = EraseOp(Offset(b), FALSE) /\ W[2] = ProgramOp(Offset(b), u)
<1>1. Offset(b) \in Nat /\ SectorOf(Offset(b)) = Offset(b) /\ BankSize \in Nat \ {0}
  BY BankEnds, BankStart, LayoutAssumption DEF Banks
<1>. DEFINE s == <<u>>
            W == app_flash_write_data(Offset(b), s)
<1>2. s \in Seq(Headers \cup Chunks) /\ Len(s) = 1 /\ s[1] = u
  OBVIOUS
<1>. HIDE DEF s
<1>3. Offset(b) + Len(s) <= Offset(b) + BankSize /\ Offset(b) >= Offset(b)
  BY <1>1, <1>2
<1>4. /\ W \in Seq(FlashOps) /\ Len(W) = Erases(Offset(b), Len(s)) + Len(s)
      /\ \A i \in 1..Len(s) : W[Erases(Offset(b), Len(s)) + i] = ProgramOp(Offset(b) + i - 1, s[i])
      /\ Erases(Offset(b), Len(s)) = 1 => W[1] = EraseOp(Erased(Offset(b), Len(s)), FALSE)
  BY <1>1, <1>2, <1>3, WriteData
<1>. HIDE DEF W
<1>5. Erases(Offset(b), Len(s)) = 1 /\ Erased(Offset(b), Len(s)) = Offset(b)
  BY <1>1, Zenon DEF Erases, Erased
<1>6. 1 \in 1..Len(s) /\ 1 + 1 = 2 /\ Offset(b) + 1 - 1 = Offset(b) /\ 1 + Len(s) = 2
  BY <1>1, <1>2
<1>7. W[1 + 1] = ProgramOp(Offset(b) + 1 - 1, s[1])
  BY <1>4, <1>5, <1>6, Zenon
<1>8. W[2] = ProgramOp(Offset(b), u)
  BY <1>2, <1>6, <1>7, Zenon
<1>9. W \in Seq(FlashOps) /\ Len(W) = 2 /\ W[1] = EraseOp(Offset(b), FALSE)
  BY <1>4, <1>5, <1>6, Zenon
<1>. QED
  BY <1>8, <1>9 DEF W, s

(* The first block of an image: its sector is erased, and erased once more *)
(* before the header, then the other units follow.                         *)
LEMMA FirstWrite ==
    ASSUME NEW b \in Banks, NEW block \in Seq(Chunks), Len(block) \in 1..PdSize,
           NewHeader(block[1].ver, b) \in Headers
    PROVE  LET O == Offset(b)
               e == Erases(O + 1, Len(block) - 1)
               F == app_read_image_headers(b, block)
           IN  /\ F \in Seq(FlashOps) /\ Len(F) = 2 + e + Len(block) /\ e \in 0..1
               /\ F[1] = EraseOp(O, TRUE) /\ F[2] = EraseOp(O, FALSE)
               /\ F[3] = ProgramOp(O, NewHeader(block[1].ver, b))
               /\ \A i \in 1..(Len(block) - 1) : F[3 + e + i] = ProgramOp(O + i, block[1 + i])
               /\ e = 1 => F[4] = EraseOp(Erased(O + 1, Len(block) - 1), FALSE)
<1>. DEFINE O == Offset(b)
            h == NewHeader(block[1].ver, b)
            t == Tail(block)
            e == Erases(O + 1, Len(block) - 1)
            W1 == app_flash_write_data(O, <<h>>)
            W2 == app_flash_write_data(O + 1, t)
<1>1. /\ O \in Nat /\ SectorOf(O) = O /\ Len(block) \in Nat \ {0} /\ O + 1 \in Nat
      /\ Len(block) <= BankSize /\ BankSize \in Nat /\ O \in Addresses
  <2>1. SectorSize \in Nat /\ BankSize \in Nat /\ PdSize <= SectorSize /\ PdSize \in Nat
    BY PdAssumption, LayoutAssumption
  <2>2. /\ O \in Nat /\ BankSize >= SectorSize
        /\ \A x \in O..(O + BankSize) : x \in Addresses
    BY BankEnds
  <2>3. SectorOf(O) = O
    BY BankStart DEF Banks
  <2>. HIDE DEF O
  <2>4. O \in O..(O + BankSize)
    BY <2>1, <2>2
  <2>. QED
    BY <2>1, <2>2, <2>3, <2>4
<1>2. /\ t \in Seq(Chunks) /\ Len(t) = Len(block) - 1
      /\ \A i \in 1..(Len(block) - 1) : t[i] = block[1 + i]
  <2>1. block # << >>
    BY <1>1
  <2>2. /\ t \in Seq(Chunks) /\ Len(t) = Len(block) - 1
        /\ \A i \in 1..Len(t) : t[i] = block[i + 1]
    BY <2>1, HeadTailProperties
  <2>3. \A i \in 1..Len(t) : i + 1 = 1 + i
    BY <2>2, LenProperties
  <2>. QED
    BY <2>2, <2>3
<1>3. /\ W2 \in Seq(FlashOps) /\ Len(W2) = e + (Len(block) - 1) /\ e \in 0..1
      /\ \A i \in 1..(Len(block) - 1) : W2[e + i] = ProgramOp(O + i, block[1 + i])
      /\ e = 1 => W2[1] = EraseOp(Erased(O + 1, Len(block) - 1), FALSE)
  <2>1. t \in Seq(Headers \cup Chunks) /\ O + 1 >= Offset(b) /\ O + 1 + Len(t) <= Offset(b) + BankSize
    <3>1. \A i \in 1..Len(t) : t[i] \in Headers \cup Chunks
      BY <1>2, ElementOfSeq
    <3>2. t \in [1..Len(t) -> Headers \cup Chunks] /\ Len(t) \in Nat
      BY <1>2, <3>1, LenProperties
    <3>3. t \in Seq(Headers \cup Chunks)
      BY <3>2
    <3>. QED
      BY <1>1, <1>2, <3>3
  <2>2. LET f == Erases(O + 1, Len(t))
            W == app_flash_write_data(O + 1, t)
        IN  /\ W \in Seq(FlashOps) /\ Len(W) = f + Len(t) /\ f \in 0..1
            /\ \A i \in 1..Len(t) : W[f + i] = ProgramOp(O + 1 + i - 1, t[i])
            /\ f = 1 => W[1] = EraseOp(Erased(O + 1, Len(t)), FALSE)
    <3>. HIDE DEF O, t
    <3>. QED
      BY <1>1, <2>1, WriteData DEF O
  <2>3. \A i \in 1..Len(t) : O + 1 + i - 1 = O + i
    BY <1>1, <1>2
  <2>. QED
    BY <1>2, <2>2, <2>3
<1>4. /\ W1 \in Seq(FlashOps) /\ Len(W1) = 2
      /\ W1[1] = EraseOp(O, FALSE) /\ W1[2] = ProgramOp(O, h)
  BY WriteUnit, Zenon
<1>5. app_read_image_headers(b, block) = <<EraseOp(O, TRUE)>> \o W1 \o W2
  BY DEF app_read_image_headers
<1>6. EraseOp(O, TRUE) \in FlashOps
  <2>1. O \in Nat /\ SectorOf(O) \in Addresses
    BY <1>1
  <2>. HIDE DEF O
  <2>. QED
    BY <2>1, OpFields
<1>. DEFINE g == <<EraseOp(O, TRUE)>>
            p == g \o W1
            F == p \o W2
<1>7. g \in Seq(FlashOps) /\ Len(g) = 1 /\ g[1] = EraseOp(O, TRUE)
  <2>. DEFINE x == EraseOp(O, TRUE)
  <2>1. x \in FlashOps /\ g = <<x>>
    BY <1>6
  <2>. HIDE DEF x, g
  <2>2. g \in Seq(FlashOps) /\ Len(g) = 1 /\ g[1] = x
    BY <2>1
  <2>. QED
    BY <2>2 DEF x
<1>8. F = app_read_image_headers(b, block)
  BY <1>5
<1>. HIDE DEF W1, W2, h, t, e, O, g
<1>9. /\ p \in Seq(FlashOps) /\ Len(p) = Len(g) + Len(W1)
      /\ \A i \in 1..Len(g) : p[i] = g[i]
      /\ \A i \in 1..Len(W1) : p[Len(g) + i] = W1[i]
  <2>. g \in Seq(FlashOps) /\ W1 \in Seq(FlashOps)
    BY <1>4, <1>7
  <2>. QED
    BY Concat
<1>. HIDE DEF p
<1>10. /\ F \in Seq(FlashOps) /\ Len(F) = Len(p) + Len(W2)
       /\ \A i \in 1..Len(p) : F[i] = p[i]
       /\ \A i \in 1..Len(W2) : F[Len(p) + i] = W2[i]
  <2>. p \in Seq(FlashOps) /\ W2 \in Seq(FlashOps)
    BY <1>3, <1>9
  <2>. QED
    BY Concat
<1>. HIDE DEF F
<1>11. Len(p) = 3 /\ 1 \in 1..Len(g) /\ 1 \in 1..Len(W1) /\ 2 \in 1..Len(W1)
       /\ 1 \in 1..Len(p) /\ 2 \in 1..Len(p) /\ 3 \in 1..Len(p)
       /\ Len(g) + 1 = 2 /\ Len(g) + 2 = 3
  BY <1>4, <1>7, <1>9
<1>12. p[1] = g[1] /\ p[2] = W1[1] /\ p[3] = W1[2]
  BY <1>9, <1>11, Zenon
<1>13. F[1] = EraseOp(O, TRUE) /\ F[2] = EraseOp(O, FALSE) /\ F[3] = ProgramOp(O, h)
  BY <1>4, <1>7, <1>10, <1>11, <1>12, Zenon
<1>14. Len(F) = 2 + e + Len(block)
  BY <1>1, <1>3, <1>10, <1>11
<1>15. ASSUME NEW i \in 1..(Len(block) - 1)
       PROVE  F[3 + e + i] = ProgramOp(O + i, block[1 + i])
  <2>0. Len(W2) = e + (Len(block) - 1) /\ e \in 0..1 /\ Len(block) \in Nat /\ Len(p) = 3
    BY <1>1, <1>2, <1>3, <1>11
  <2>. HIDE DEF e, p, W2
  <2>1. e + i \in 1..Len(W2) /\ Len(p) + (e + i) = 3 + e + i
    BY <2>0
  <2>. USE DEF e, p, W2
  <2>2. F[Len(p) + (e + i)] = W2[e + i]
    BY <1>10, <2>1, Zenon
  <2>. QED
    BY <1>3, <2>1, <2>2, Zenon
<1>16. ASSUME e = 1
       PROVE  F[4] = EraseOp(Erased(O + 1, Len(block) - 1), FALSE)
  <2>1. 1 \in 1..Len(W2) /\ Len(p) + 1 = 4
    BY <1>1, <1>3, <1>11, <1>16
  <2>2. F[Len(p) + 1] = W2[1]
    BY <1>10, <2>1, Zenon
  <2>. QED
    BY <1>3, <1>16, <2>1, <2>2, Zenon
<1>. QED
  BY <1>3, <1>8, <1>10, <1>13, <1>14, <1>15, <1>16 DEF h, O, e

-----------------------------------------------------------------------------
(* The session. *)

Base   == suota_state.mem_base_add
Idx    == suota_state.suota_img_idx
Len0   == suota_state.suota_image_len
Pd     == suota_state.pd
Target == IF Base = Offset(1) THEN 1 ELSE 2

(* The first block of an image is in the flash.                            *)
Open == Sending /\ Idx # 0

(* The initiator sends data only in turn, and ends a session only after    *)
(* the whole file.                                                         *)
Orderly    == "any_data" \notin InitiatorHabits
WholeFiles == Orderly /\ "end_early" \notin InitiatorHabits

(* What the initiator counts and what the receiver counts: the receiver is *)
(* one behind after the checksum, which it does not store.                 *)
PeerInv ==
    /\ ~Sending => peer.sent = 0 /\ peer.blk = 0
    /\ peer.blk <= peer.sent
    /\ Sending => peer.sent <= FileLen(peer.ver) /\ (peer.blk = 0 <=> Idx = 0)
    /\ Open => Idx = peer.blk \/ (Idx = Len0 /\ peer.blk = FileLen(peer.ver))

(* The image being received goes to the start of a bank and fits there.    *)
TargetInv ==
    Open \/ job.kind = "block" =>
        /\ Sending /\ suota_state.mem_dev = "IMG_SPI_FLASH" /\ Base = Offset(Target)
        /\ Len0 = ImageLen[peer.ver] /\ Len0 <= BankSize

(* The buffer holds what was sent since the last block.                    *)
BufferInv ==
    /\ Sending /\ job.kind = "none" /\ MayGoOn =>
          /\ Len(Pd) = peer.sent - peer.blk
          /\ \A i \in 1..Len(Pd) : Pd[i] = Chunk(peer.ver, peer.blk + i - 1)
    /\ job.kind = "none" /\ status \in {"EXT_MEM_READ_ERR", "EXT_MEM_WRITE_ERR"} => Pd = << >>

(* The block that is written, and how far the image will be then.          *)
JobInv ==
    /\ job.kind = "none" => job.ops = << >>
    /\ job.kind = "block" =>
          /\ MayGoOn
          /\ Idx = 0 => Len(Pd) = peer.sent /\ Len(Pd) # 0
          /\ Idx # 0 => /\ Idx = peer.blk /\ Idx <= Len0 /\ Idx < peer.sent
                        /\ Len(Pd) = IF peer.sent <= Len0 THEN peer.sent - Idx ELSE Len0 - Idx

SessionInv == PeerInv /\ TargetInv /\ BufferInv /\ JobInv

TypeInv == TypeOK /\ SessionInv

(* The types of the receiver and of the initiator, one by one.             *)
LEMMA Fields ==
    ASSUME suota_state \in app_suota_state, peer \in Peers
    PROVE  /\ suota_state.mem_dev \in Devices \cup {"INVAL_DEV"} /\ Base \in Addresses
           /\ suota_state.new_patch_len \in 0..PdSize /\ suota_state.suota_image_bank \in 0..2
           /\ Pd \in Seq(Chunks) /\ Idx \in 0..(BankSize + 1) /\ Idx \in Nat
           /\ suota_state.crc_calc \in SUBSET Chunks /\ Len0 \in Nat /\ Len(Pd) \in Nat
           /\ peer.ver \in Versions \cup {Nothing} /\ peer.sent \in Nat /\ peer.blk \in Nat
<1>1. Pd \in Seq(Chunks)
  BY DEF app_suota_state, Pd
<1>2. Len(Pd) \in Nat
  BY <1>1, LenProperties
<1>. QED
  BY <1>1, <1>2, LayoutAssumption DEF app_suota_state, Peers, Base, Pd, Idx, Len0

(* The image that the initiator sends.                                     *)
LEMMA SentImage ==
    ASSUME peer \in Peers, Sending
    PROVE  /\ peer.ver \in Versions /\ ImageLen[peer.ver] \in Nat \ {0, 1}
           /\ FileLen(peer.ver) = ImageLen[peer.ver] + 1
  BY ImageAssumption DEF Peers, Sending, FileLen, ADDITINAL_CRC_SIZE

(* The receiver writes to a bank, and a header of its own.                 *)
LEMMA BankChoice ==
    ASSUME suota_state \in app_suota_state
    PROVE  new_bank \in Banks
<1>1. suota_state.suota_image_bank \in 0..2
  BY DEF app_suota_state
<1>. QED
  BY <1>1 DEF new_bank, app_find_old_img, Banks

(* The header it writes: the next id, without the valid flag.              *)
LEMMA NewHeaderFields ==
    ASSUME NEW v \in Versions, NEW b \in Banks
    PROVE  /\ imageid(b) \in Ids /\ NewHeader(v, b) \in Headers /\ NewHeader(v, b) \in Contents
           /\ NewHeader(v, b).ver = v /\ NewHeader(v, b).id = imageid(b)
           /\ NewHeader(v, b).validflag = FALSE
<1>1. imageid(b) \in Ids
  <2>1. CASE IsValid(flash, 3 - b)
    <3>1. HeaderOf(flash, 3 - b).id \in Ids
      BY <2>1, Places, ValidHeader
    <3>. QED
      BY <2>1, <3>1, IdAssumption DEF imageid, app_get_image_id, Ids
  <2>2. CASE ~IsValid(flash, 3 - b)
    BY <2>2, IdAssumption DEF imageid, Ids
  <2>. QED
    BY <2>1, <2>2
<1>. QED
  BY <1>1, HeaderFields DEF NewHeader

(* The XOR is made of units.                                               *)
LEMMA XorType ==
    ASSUME NEW crc \in SUBSET Chunks, NEW block \in Seq(Chunks)
    PROVE  Xor(crc, block) \in SUBSET Chunks
<1>1. \A i \in DOMAIN block : block[i] \in Chunks
  BY LenProperties, ElementOfSeq
<1>. QED
  BY <1>1 DEF Xor

(* The units that a message adds to the block.                             *)
Units(n) == Piece(peer.ver, peer.sent, n)

(* The place in the file of what is behind the first l units of a block.   *)
LEMMA PlaceBehind ==
    ASSUME NEW l \in Nat, NEW n \in Nat, NEW sent \in Nat, NEW blk \in Nat, l = sent - blk,
           NEW i \in 1..(l + n), ~(i <= l)
    PROVE  i - l \in 1..n /\ l + (i - l) = i /\ sent + (i - l) - 1 = blk + i - 1
  OBVIOUS

(* A block with the message just received is still a stretch of the file   *)
(* that the initiator sends.                                               *)
LEMMA BlockOf ==
    ASSUME TypeInv, Sending, NEW n \in 1..PdSize, peer.sent + n <= FileLen(peer.ver)
    PROVE  /\ Pd \o Units(n) \in Seq(Chunks) /\ Len(Pd \o Units(n)) = Len(Pd) + n
           /\ MayGoOn /\ job = NoJob =>
                 /\ Len(Pd) + n = peer.sent + n - peer.blk
                 /\ \A i \in 1..(Len(Pd) + n) : (Pd \o Units(n))[i] = Chunk(peer.ver, peer.blk + i - 1)
<1>1. Pd \in Seq(Chunks) /\ Len(Pd) \in Nat /\ peer.sent \in Nat /\ peer.blk \in Nat
  BY Fields DEF TypeInv, TypeOK
<1>2. /\ peer.ver \in Versions /\ ImageLen[peer.ver] \in Nat \ {0, 1}
      /\ FileLen(peer.ver) = ImageLen[peer.ver] + 1
  BY SentImage DEF TypeInv, TypeOK
<1>3. n \in Nat \ {0}
  BY PdAssumption, LayoutAssumption
<1>4. \A i \in 1..n : Chunk(peer.ver, peer.sent + i - 1) \in Chunks
  <2>1. \A i \in 1..n : peer.sent + i - 1 \in 0..ImageLen[peer.ver]
    BY <1>1, <1>2, <1>3
  <2>. QED
    BY <1>2, <2>1, ChunkFields
<1>5. Units(n) \in Seq(Chunks) /\ Len(Units(n)) = n
      /\ \A i \in 1..n : Units(n)[i] = Chunk(peer.ver, peer.sent + i - 1)
  <2>1. Units(n) \in [1..n -> Chunks]
    BY <1>4 DEF Units, Piece
  <2>. QED
    BY <1>3, <2>1 DEF Units, Piece
<1>. DEFINE u == Units(n)
            w == Pd \o u
<1>. HIDE DEF u
<1>6. /\ w \in Seq(Chunks) /\ Len(w) = Len(Pd) + Len(u)
      /\ \A i \in 1..Len(Pd) : w[i] = Pd[i]
      /\ \A i \in 1..Len(u) : w[Len(Pd) + i] = u[i]
  <2>. u \in Seq(Chunks)
    BY <1>5 DEF u
  <2>. QED
    BY <1>1, Concat
<1>. HIDE DEF w
<1>7. ASSUME MayGoOn, job = NoJob
      PROVE  /\ Len(Pd) + n = peer.sent + n - peer.blk
             /\ \A i \in 1..(Len(Pd) + n) : w[i] = Chunk(peer.ver, peer.blk + i - 1)
  <2>1. job.kind = "none"
    BY <1>7 DEF NoJob
  <2>2. /\ Len(Pd) = peer.sent - peer.blk
        /\ \A i \in 1..Len(Pd) : Pd[i] = Chunk(peer.ver, peer.blk + i - 1)
    BY <1>7, <2>1 DEF TypeInv, SessionInv, BufferInv
  <2>3. ASSUME NEW i \in 1..(Len(Pd) + n), ~(i <= Len(Pd))
        PROVE  w[i] = Chunk(peer.ver, peer.blk + i - 1)
    <3>0. Len(Pd) \in Nat /\ peer.sent \in Nat /\ peer.blk \in Nat /\ n \in Nat
          /\ Len(Pd) = peer.sent - peer.blk
      BY <1>1, <1>3, <2>2
    <3>1. i - Len(Pd) \in 1..n /\ Len(Pd) + (i - Len(Pd)) = i
          /\ peer.sent + (i - Len(Pd)) - 1 = peer.blk + i - 1
      <4>1. PICK l \in Nat : l = Len(Pd)
        BY <3>0
      <4>2. PICK sent \in Nat : sent = peer.sent
        BY <3>0
      <4>3. PICK blk \in Nat : blk = peer.blk
        BY <3>0
      <4>4. l = sent - blk /\ i \in 1..(l + n) /\ ~(i <= l) /\ n \in Nat
        BY <2>3, <3>0, <4>1, <4>2, <4>3
      <4>5. i - l \in 1..n /\ l + (i - l) = i /\ sent + (i - l) - 1 = blk + i - 1
        BY <4>1, <4>2, <4>3, <4>4, PlaceBehind
      <4>. QED
        BY <4>1, <4>2, <4>3, <4>5
    <3>. DEFINE j == i - Len(Pd)
    <3>2. j \in 1..Len(u) /\ Len(Pd) + j = i /\ peer.sent + j - 1 = peer.blk + i - 1 /\ j \in 1..n
      BY <1>5, <3>1 DEF u
    <3>. HIDE DEF j
    <3>3. w[Len(Pd) + j] = u[j]
      BY <1>6, <3>2, Zenon
    <3>. QED
      BY <1>5, <3>2, <3>3, Zenon DEF u
  <2>4. ASSUME NEW i \in 1..(Len(Pd) + n), i <= Len(Pd)
        PROVE  w[i] = Chunk(peer.ver, peer.blk + i - 1)
    <3>1. i \in 1..Len(Pd)
      BY <1>1, <2>4
    <3>. QED
      BY <1>6, <2>2, <3>1
  <2>5. Len(Pd) + n = peer.sent + n - peer.blk
    BY <1>1, <1>3, <2>2
  <2>. QED
    BY <2>3, <2>4, <2>5
<1>. QED
  BY <1>5, <1>6, <1>7 DEF w, u

-----------------------------------------------------------------------------
(* Types. *)

(* The factory images are made of contents, and nothing goes on.           *)
LEMMA InitTypes == Init => TypeInv
<1>. SUFFICES ASSUME Init PROVE TypeInv
  OBVIOUS
<1>1. flash \in [Addresses -> Contents]
  <2>1. PICK images \in FactoryImages : flash = [a \in Addresses |-> FactoryUnit(images, a)]
    BY DEF Init
  <2>2. images \in [Banks -> Versions \cup {Nothing}]
    BY FactoryAssumption
  <2>3. ASSUME NEW a \in Addresses
        PROVE  FactoryUnit(images, a) \in Contents
    <3>. DEFINE InBank == {b \in Banks : /\ images[b] # Nothing
                                         /\ a \in Offset(b)..(Offset(b) + ImageLen[images[b]] - 1)}
    <3>1. CASE a < Offset(1) \/ a >= ProductHeader \/ InBank = {}
      BY <3>1 DEF FactoryUnit, Contents
    <3>2. CASE ~(a < Offset(1) \/ a >= ProductHeader) /\ InBank # {}
      <4>1. PICK b \in InBank : b = CHOOSE k \in InBank : TRUE
        BY <3>2
      <4>2. images[b] \in Versions /\ b \in Banks
        BY <2>2, <4>1
      <4>3. FactoryUnit(images, a) = IF a = Offset(b) THEN Header(images[b], MaxId, TRUE)
                                     ELSE Chunk(images[b], a - Offset(b))
        BY <3>2, <4>1 DEF FactoryUnit
      <4>4. Header(images[b], MaxId, TRUE) \in Contents
        <5>1. MaxId \in Ids /\ TRUE \in BOOLEAN
          BY IdAssumption DEF Ids
        <5>. QED
          BY <4>2, <5>1, HeaderFields
      <4>5. Chunk(images[b], a - Offset(b)) \in Contents
        <5>1. ImageLen[images[b]] \in Nat \ {0, 1} /\ Offset(b) \in Nat /\ a \in Nat
              /\ a \in Offset(b)..(Offset(b) + ImageLen[images[b]] - 1)
          BY <4>1, <4>2, ImageAssumption, Places
        <5>2. a - Offset(b) \in 0..ImageLen[images[b]]
          BY <5>1
        <5>. QED
          BY <4>2, <5>2, ChunkFields
      <4>. QED
        BY <4>3, <4>4, <4>5
    <3>. QED
      BY <3>1, <3>2
  <2>. QED
    BY <2>1, <2>3
<1>2. running \in Versions \cup {Nothing, Corrupt}
  BY LoadTypes DEF Init
<1>3. suota_state \in app_suota_state
  <2>1. 0 \in Addresses /\ 0 \in 0..PdSize /\ 0 \in 0..(BankSize + 1) /\ << >> \in Seq(Chunks)
    BY PdAssumption, LayoutAssumption, BankStart DEF Addresses, ProductHeader
  <2>. QED
    BY <2>1 DEF Init, app_suotar_init, app_suota_state
<1>4. job \in [kind : {"none", "block", "end"}, ops : Seq(FlashOps)]
  BY DEF Init, NoJob
<1>5. peer \in Peers
  BY DEF Init, NoPeer, Peers
<1>6. TypeOK
  BY <1>1, <1>2, <1>3, <1>4, <1>5 DEF TypeOK, Init, Statuses
<1>7. ~Sending /\ job.kind = "none" /\ job.ops = << >> /\ peer.sent = 0 /\ peer.blk = 0 /\ Pd = << >>
  BY DEF Init, Sending, NoPeer, NoJob, app_suotar_init, Pd
<1>8. SessionInv
  BY <1>7 DEF SessionInv, PeerInv, TargetInv, BufferInv, JobInv, Open
<1>. QED
  BY <1>6, <1>8 DEF TypeInv

(* A reset keeps nothing but the flash.                                    *)
LEMMA RestartTypes == TypeInv /\ Restart => TypeInv'
<1>. SUFFICES ASSUME TypeInv, Restart PROVE TypeInv'
  OBVIOUS
<1>1. running' \in Versions \cup {Nothing, Corrupt}
  BY LoadTypes DEF Restart
<1>3. suota_state' \in app_suota_state
  <2>1. 0 \in Addresses /\ 0 \in 0..PdSize /\ 0 \in 0..(BankSize + 1) /\ << >> \in Seq(Chunks)
    BY PdAssumption, LayoutAssumption, BankStart DEF Addresses, ProductHeader
  <2>. QED
    BY <2>1 DEF Restart, app_suotar_init, app_suota_state
<1>4. job' \in [kind : {"none", "block", "end"}, ops : Seq(FlashOps)]
  BY DEF Restart, NoJob
<1>5. peer' \in Peers
  BY DEF Restart, NoPeer, Peers
<1>6. TypeOK'
  BY <1>1, <1>3, <1>4, <1>5 DEF TypeInv, TypeOK, Restart, Statuses
<1>7. ~Sending' /\ job'.kind = "none" /\ job'.ops = << >> /\ peer'.sent = 0 /\ peer'.blk = 0 /\ Pd' = << >>
  BY DEF Restart, Sending, NoPeer, NoJob, app_suotar_init, Pd
<1>8. SessionInv'
  BY <1>7 DEF SessionInv, PeerInv, TargetInv, BufferInv, JobInv, Open
<1>. QED
  BY <1>6, <1>8 DEF TypeInv

(* What ends a session, or begins none: the initiator has nothing in       *)
(* flight, and the receiver does nothing.                                  *)
LEMMA EndedSession ==
    ASSUME peer' = NoPeer, job' = NoJob,
           status' \in {"EXT_MEM_READ_ERR", "EXT_MEM_WRITE_ERR"} => Pd' = << >>
    PROVE  SessionInv'
<1>1. ~Sending' /\ job'.kind = "none" /\ job'.ops = << >> /\ peer'.sent = 0 /\ peer'.blk = 0
  BY DEF Sending, NoPeer, NoJob
<1>. QED
  BY <1>1 DEF SessionInv, PeerInv, TargetInv, BufferInv, JobInv, Open

(* A session starts with an empty buffer.                                  *)
LEMMA StartedFields ==
    ASSUME NEW s \in app_suota_state
    PROVE  /\ Started(s) \in app_suota_state
           /\ Started(s).suota_img_idx = 0 /\ Started(s).pd = << >>
<1>1. << >> \in Seq(Chunks) /\ 0 \in 0..(BankSize + 1) /\ 0 \in 0..PdSize /\ {} \in SUBSET Chunks
  BY PdAssumption, LayoutAssumption
<1>. QED
  BY <1>1 DEF Started, app_suota_state

(* The requests keep the types, and a session starts from zero.            *)
LEMMA RequestTypes == TypeInv /\ suotar_patch_mem_dev_ind => TypeInv'
<1>. SUFFICES ASSUME TypeInv, suotar_patch_mem_dev_ind PROVE TypeInv'
  OBVIOUS
<1>. USE DEF TypeInv, TypeOK
<1>1. /\ flash' = flash /\ running' = running /\ connected' = connected /\ job = NoJob
      /\ suota_state \in app_suota_state /\ peer \in Peers /\ 0 \in Addresses
      /\ 0 \in 0..(BankSize + 1) /\ 0 \in 0..PdSize
  BY Places, PdAssumption, LayoutAssumption DEF suotar_patch_mem_dev_ind, Listening, Idle, Addresses
<1>2. NoPeer \in Peers
  BY DEF NoPeer, Peers
<1>. HIDE DEF TypeInv, TypeOK
<1>3. Stopped(suota_state) \in app_suota_state /\ Stopped(suota_state).pd = << >>
  <2>1. suota_state \in app_suota_state /\ 0 \in 0..PdSize /\ << >> \in Seq(Chunks)
    BY <1>1, EmptySeq
  <2>. QED
    BY <2>1 DEF Stopped, app_suota_state
<1>. USE DEF TypeInv, TypeOK
<1>4. ASSUME NEW dev \in Devices
      PROVE  Selected(dev) \in app_suota_state
  BY <1>1 DEF Selected, app_suota_state
<1>5. ASSUME NEW dev \in Devices, NEW bank \in 0..3, NEW v \in Versions, start_session(dev, bank, v)
      PROVE  TypeInv'
  <2>1. CASE /\ bank <= 2
             /\ suota_state' = Started([Selected(dev) EXCEPT !.suota_image_bank = bank])
             /\ status' = "IMG_STARTED"
             /\ peer' = [ver |-> v, sent |-> 0, blk |-> 0]
    <3>. DEFINE s == Selected(dev)
                r == [s EXCEPT !.suota_image_bank = bank]
    <3>1. r \in app_suota_state
      <4>1. s \in app_suota_state /\ bank \in 0..2
        BY <1>4, <2>1
      <4>. HIDE DEF s
      <4>. QED
        BY <4>1 DEF app_suota_state
    <3>2. suota_state' \in app_suota_state /\ Idx' = 0 /\ Pd' = << >>
      <4>1. suota_state' = Started(r)
        BY <2>1
      <4>. HIDE DEF r
      <4>. QED
        BY <3>1, <4>1, StartedFields DEF Idx, Pd
    <3>3. peer' \in Peers /\ peer'.ver = v /\ peer'.sent = 0 /\ peer'.blk = 0
      BY <2>1 DEF Peers
    <3>4. TypeOK'
      BY <1>1, <1>5, <2>1, <3>2, <3>3 DEF start_session, Statuses
    <3>5. job'.kind = "none" /\ job'.ops = << >>
      BY <1>1, <1>5 DEF start_session, NoJob
    <3>6. PeerInv'
      <4>1. FileLen(v) >= 0
        BY ImageAssumption DEF FileLen, ADDITINAL_CRC_SIZE
      <4>. QED
        BY <3>2, <3>3, <4>1 DEF PeerInv, Open, Sending, FileLen
    <3>7. TargetInv' /\ JobInv'
      BY <3>2, <3>5 DEF TargetInv, JobInv, Open
    <3>8. BufferInv'
      BY <2>1, <3>2, <3>3 DEF BufferInv
    <3>. QED
      BY <3>4, <3>6, <3>7, <3>8 DEF SessionInv
  <2>2. CASE bank > 2 /\ suota_state' = Selected(dev) /\ status' = "INVAL_IMG_BANK" /\ peer' = NoPeer
    <3>1. TypeOK'
      BY <1>1, <1>2, <1>4, <1>5, <2>2 DEF start_session, Statuses
    <3>. QED
      BY <1>1, <1>5, <2>2, <3>1, EndedSession DEF start_session
  <2>. QED
    BY <1>5, <2>1, <2>2 DEF start_session
<1>6. CASE select_internal
  <2>1. Selected("IMG_INT") \in app_suota_state
    BY <1>4 DEF Devices
  <2>2. TypeOK'
    BY <1>1, <1>2, <1>6, <2>1 DEF select_internal, Statuses
  <2>. QED
    BY <1>1, <1>6, <2>2, EndedSession DEF select_internal
<1>7. CASE service_exit
  <2>1. TypeOK'
    BY <1>1, <1>2, <1>3, <1>7 DEF service_exit, Statuses
  <2>. QED
    BY <1>1, <1>7, <2>1, EndedSession DEF service_exit
<1>8. CASE image_end
  <2>1. CASE /\ suota_state' = Stopped(suota_state) /\ peer' = NoPeer /\ UNCHANGED job
             /\ status' \in {"CRC_ERR", "EXT_MEM_WRITE_ERR"}
    <3>1. TypeOK' /\ Pd' = << >>
      BY <1>1, <1>2, <1>3, <2>1 DEF Statuses, Pd
    <3>. QED
      BY <1>1, <2>1, <3>1, EndedSession
  <2>2. CASE /\ job' = [kind |-> "end", ops |-> <<FlagOp(Base)>>]
             /\ UNCHANGED <<suota_state, status, peer>>
    <3>1. Base \in Addresses
      BY <1>1, Fields
    <3>2. FlagOp(Base) \in FlashOps
      BY <3>1, OpFields
    <3>3. job' \in [kind : {"none", "block", "end"}, ops : Seq(FlashOps)] /\ job'.kind = "end"
      BY <2>2, <3>2
    <3>4. TypeOK'
      BY <1>1, <2>2, <3>3
    <3>5. TargetInv
      BY DEF SessionInv
    <3>6. PeerInv' /\ TargetInv' /\ BufferInv' /\ JobInv'
      <4>1. PeerInv'
        BY <2>2 DEF SessionInv, PeerInv, Open, Sending, Idx, Len0
      <4>2. TargetInv'
        BY <2>2, <3>3, <3>5 DEF TargetInv, Open, Sending, Idx, Len0, Base, Target
      <4>. QED
        BY <3>3, <4>1, <4>2 DEF BufferInv, JobInv
    <3>. QED
      BY <3>4, <3>6 DEF SessionInv
  <2>. QED
    BY <1>8, <2>1, <2>2 DEF image_end, Base
<1>9. CASE request_reboot
  <2>1. suota_state' \in app_suota_state
    BY <1>1, <1>9 DEF request_reboot, app_suota_state
  <2>2. UNCHANGED <<Idx, Pd, Len0, Base, suota_state.mem_dev, job, status, peer>>
    BY <1>1, <1>9 DEF request_reboot, app_suota_state, Idx, Pd, Len0, Base
  <2>3. SessionInv'
    BY <2>2 DEF SessionInv, PeerInv, TargetInv, BufferInv, JobInv, Open, Sending, MayGoOn, Target
  <2>. QED
    BY <1>1, <2>1, <2>2, <2>3
<1>10. CASE unknown_device
  <2>1. suota_state' \in app_suota_state
    <3>1. CASE suota_state' = [suota_state EXCEPT !.mem_dev = "INVAL_DEV"]
      BY <1>1, <3>1 DEF app_suota_state
    <3>2. CASE suota_state' = Selected("INVAL_DEV")
      BY <1>1, <3>2 DEF Selected, app_suota_state
    <3>. QED
      BY <1>10, <3>1, <3>2 DEF unknown_device
  <2>2. TypeOK'
    BY <1>1, <1>2, <1>10, <2>1 DEF unknown_device, Statuses
  <2>. QED
    BY <1>1, <1>10, <2>2, EndedSession DEF unknown_device
<1>. QED
  BY <1>5, <1>6, <1>7, <1>8, <1>9, <1>10 DEF suotar_patch_mem_dev_ind

(* The announcement of a length changes nothing the session is about.      *)
LEMMA LengthTypes ==
    ASSUME Orderly, TypeInv, NEW len \in 0..(PdSize + 1), suotar_patch_len_ind(len)
    PROVE  TypeInv'
<1>. USE DEF TypeInv, TypeOK
<1>1. /\ suota_state \in app_suota_state /\ job = NoJob /\ MayGoOn
      /\ UNCHANGED <<flash, running, job, connected, peer>>
  BY DEF suotar_patch_len_ind, MayAnnounce, Orderly, AnyData, Listening, Idle
<1>2. /\ suota_state' \in app_suota_state /\ UNCHANGED <<Idx, Pd, Len0, Base, suota_state.mem_dev>>
      /\ status' = status \/ status' \in {"PATCH_LEN_ERR", "INVAL_MEM_TYPE", "INT_MEM_ERR"}
  <2>1. CASE /\ len \in 1..PdSize /\ suota_state' = [suota_state EXCEPT !.new_patch_len = len]
             /\ UNCHANGED status
    <3>1. len \in 0..PdSize
      BY <2>1, PdAssumption, LayoutAssumption
    <3>. QED
      BY <1>1, <2>1, <3>1 DEF app_suota_state, Idx, Pd, Len0, Base
  <2>2. CASE /\ UNCHANGED suota_state
             /\ status' = status \/ status' \in {"PATCH_LEN_ERR", "INVAL_MEM_TYPE", "INT_MEM_ERR"}
    BY <1>1, <2>2 DEF Idx, Pd, Len0, Base
  <2>. QED
    BY <2>1, <2>2 DEF suotar_patch_len_ind
<1>3. TypeOK'
  BY <1>1, <1>2 DEF Statuses
<1>4. job.kind = "none" /\ job.ops = << >>
  BY <1>1 DEF NoJob
<1>5. SessionInv'
  <2>1. PeerInv'
    BY <1>1, <1>2 DEF SessionInv, PeerInv, Open, Sending
  <2>2. TargetInv'
    BY <1>1, <1>2 DEF SessionInv, TargetInv, Open, Sending, Target
  <2>3. BufferInv'
    BY <1>1, <1>2 DEF SessionInv, BufferInv, Sending, MayGoOn
  <2>4. JobInv'
    BY <1>1, <1>4 DEF JobInv
  <2>. QED
    BY <2>1, <2>2, <2>3, <2>4 DEF SessionInv
<1>. QED
  BY <1>3, <1>5

(* A GPIO map is no part of the session either.                            *)
LEMMA GpioTypes == TypeInv /\ suotar_gpio_map_ind => TypeInv'
<1>. SUFFICES ASSUME TypeInv, suotar_gpio_map_ind PROVE TypeInv'
  OBVIOUS
<1>. USE DEF TypeInv, TypeOK
<1>1. /\ suota_state \in app_suota_state /\ job = NoJob
      /\ UNCHANGED <<flash, running, job, connected, peer>>
  BY DEF suotar_gpio_map_ind, Listening, Idle
<1>2. /\ suota_state' \in app_suota_state /\ UNCHANGED <<Idx, Pd, Len0, Base, suota_state.mem_dev>>
      /\ status' = status \/ status' = "INVAL_MEM_TYPE"
  BY <1>1 DEF suotar_gpio_map_ind, app_suota_state, Idx, Pd, Len0, Base
<1>3. TypeOK'
  BY <1>1, <1>2 DEF Statuses
<1>4. job.kind = "none" /\ job.ops = << >>
  BY <1>1 DEF NoJob
<1>5. SessionInv'
  <2>1. PeerInv'
    BY <1>1, <1>2 DEF SessionInv, PeerInv, Open, Sending
  <2>2. TargetInv'
    BY <1>1, <1>2 DEF SessionInv, TargetInv, Open, Sending, Target
  <2>3. BufferInv'
    BY <1>1, <1>2 DEF SessionInv, BufferInv, Sending, MayGoOn
  <2>4. JobInv'
    BY <1>1, <1>4 DEF JobInv
  <2>. QED
    BY <2>1, <2>2, <2>3, <2>4 DEF SessionInv
<1>. QED
  BY <1>3, <1>5

(* The initiator starts the block again, the receiver has dropped it.      *)
LEMMA AgainTypes == TypeInv /\ peer_sends_again => TypeInv'
<1>. SUFFICES ASSUME TypeInv, peer_sends_again PROVE TypeInv'
  OBVIOUS
<1>. USE DEF TypeInv, TypeOK
<1>1. /\ peer \in Peers /\ job = NoJob /\ status' = "NONE" /\ peer' = [peer EXCEPT !.sent = peer.blk]
      /\ status \in {"EXT_MEM_WRITE_ERR", "EXT_MEM_READ_ERR"}
      /\ UNCHANGED <<flash, running, suota_state, job, connected>>
  BY DEF peer_sends_again, Listening, Idle
<1>2. /\ peer' \in Peers /\ peer'.ver = peer.ver /\ peer'.sent = peer.blk /\ peer'.blk = peer.blk
      /\ peer.blk \in Nat /\ peer.sent \in Nat
  BY <1>1 DEF Peers
<1>3. TypeOK'
  BY <1>1, <1>2 DEF Statuses
<1>4. job.kind = "none" /\ job.ops = << >>
  BY <1>1 DEF NoJob
<1>5. SessionInv'
  <2>1. PeerInv'
    <3>1. Sending => FileLen(peer.ver) \in Nat
      BY SentImage
    <3>. QED
      BY <1>1, <1>2, <3>1 DEF SessionInv, PeerInv, Open, Sending, Idx, Len0, FileLen
  <2>2. TargetInv'
    BY <1>1, <1>2 DEF SessionInv, TargetInv, Open, Sending, Target, Idx, Len0, Base
  <2>3. BufferInv'
    <3>1. Pd = << >> /\ Pd' = << >>
      BY <1>1, <1>4 DEF SessionInv, BufferInv, Pd
    <3>2. Len(Pd') = 0
      BY <3>1
    <3>. QED
      BY <1>2, <3>1, <3>2 DEF BufferInv
  <2>4. JobInv'
    BY <1>1, <1>4 DEF JobInv
  <2>. QED
    BY <2>1, <2>2, <2>3, <2>4 DEF SessionInv
<1>. QED
  BY <1>3, <1>5

(* The link comes and goes.                                                *)
LEMMA LinkTypes == TypeInv /\ (Connect \/ Disconnect) => TypeInv'
<1>. SUFFICES ASSUME TypeInv, Connect \/ Disconnect PROVE TypeInv'
  OBVIOUS
<1>1. CASE Connect
  <2>1. TypeOK'
    BY <1>1 DEF Connect, TypeInv, TypeOK
  <2>2. UNCHANGED <<suota_state, job, status, peer>>
    BY <1>1 DEF Connect
  <2>3. SessionInv'
    BY <2>2 DEF TypeInv, SessionInv, PeerInv, TargetInv, BufferInv, JobInv, Open, Sending, MayGoOn,
                Target, Idx, Pd, Len0, Base
  <2>. QED
    BY <2>1, <2>3 DEF TypeInv
<1>2. CASE Disconnect /\ ~Restart
  <2>1. /\ job = NoJob /\ connected' = FALSE /\ status' = "NONE" /\ peer' = NoPeer
        /\ UNCHANGED <<flash, running, suota_state, job>>
    BY <1>2 DEF Disconnect, Listening, Idle
  <2>2. TypeOK'
    BY <2>1 DEF TypeInv, TypeOK, NoPeer, Peers, Statuses
  <2>. QED
    BY <2>1, <2>2, EndedSession DEF TypeInv
<1>3. CASE Restart
  BY <1>3, RestartTypes
<1>. QED
  BY <1>1, <1>2, <1>3

-----------------------------------------------------------------------------
(* Data of the image. *)

(* The block with the units that arrive.                                   *)
Received(n) == Pd \o Units(n)

(* Data arrives as an orderly initiator sends it. *)
DataArrives(n) ==
    /\ Listening /\ MayGoOn /\ Sending /\ peer.sent + n <= FileLen(peer.ver)
    /\ suotar_patch_data_ind(Units(n))
    /\ peer' = [peer EXCEPT !.sent = @ + n]
    /\ UNCHANGED <<flash, running, connected>>

LEMMA DataInTurn ==
    ASSUME Orderly, NEW v \in Versions, NEW n \in 1..PdSize, NEW p \in 0..(FileLen(v) - n),
           peer_sends_data(v, p, n)
    PROVE  DataArrives(n)
<1>1. /\ Listening /\ MayGoOn /\ v = peer.ver /\ p = peer.sent
      /\ suotar_patch_data_ind(Piece(v, p, n))
      /\ UNCHANGED <<flash, running, connected>>
  BY DEF peer_sends_data, InTurn, Orderly, AnyData
<1>2. peer' = [peer EXCEPT !.sent = @ + n]
  BY <1>1 DEF peer_sends_data
<1>3. Sending
  BY <1>1, MarkAssumption DEF Sending
<1>4. peer.sent + n <= FileLen(peer.ver)
  <2>1. FileLen(v) \in Nat /\ n \in Nat
    BY ImageAssumption, PdAssumption, LayoutAssumption DEF FileLen, ADDITINAL_CRC_SIZE
  <2>. QED
    BY <1>1, <2>1
<1>. QED
  BY <1>1, <1>2, <1>3, <1>4 DEF DataArrives, Units

(* What is known of the session when data arrives: the block continues     *)
(* where the last one ended.                                               *)
LEMMA DataFacts ==
    ASSUME TypeInv, NEW n \in 1..PdSize, DataArrives(n)
    PROVE  /\ job = NoJob /\ job.kind = "none" /\ job.ops = << >> /\ Sending /\ MayGoOn
           /\ UNCHANGED <<flash, running, connected>>
           /\ suota_state \in app_suota_state /\ peer \in Peers
           /\ n \in Nat \ {0} /\ peer.sent \in Nat /\ peer.blk \in Nat /\ Idx \in Nat
           /\ peer.ver \in Versions /\ ImageLen[peer.ver] \in Nat \ {0, 1}
           /\ peer.sent + n <= ImageLen[peer.ver] + 1 /\ peer.blk <= peer.sent
           /\ Received(n) \in Seq(Chunks) /\ Len(Received(n)) = peer.sent + n - peer.blk
           /\ \A i \in 1..Len(Received(n)) : Received(n)[i] = Chunk(peer.ver, peer.blk + i - 1)
           /\ Received(n)[1].ver = peer.ver /\ Received(n)[1].pos = peer.blk
           /\ (Idx = 0 <=> peer.blk = 0) /\ (Idx # 0 => Idx = peer.blk)
<1>1. /\ job = NoJob /\ Sending /\ MayGoOn /\ peer.sent + n <= FileLen(peer.ver)
      /\ UNCHANGED <<flash, running, connected>>
  BY DEF DataArrives, Listening, Idle
<1>2. job.kind = "none" /\ job.ops = << >>
  BY <1>1 DEF NoJob
<1>3. suota_state \in app_suota_state /\ peer \in Peers
  BY DEF TypeInv, TypeOK
<1>4. n \in Nat \ {0} /\ peer.sent \in Nat /\ peer.blk \in Nat /\ Idx \in Nat
  BY <1>3, Fields, PdAssumption, LayoutAssumption
<1>5. /\ peer.ver \in Versions /\ ImageLen[peer.ver] \in Nat \ {0, 1}
      /\ FileLen(peer.ver) = ImageLen[peer.ver] + 1
  BY <1>1, <1>3, SentImage
<1>6. /\ Received(n) \in Seq(Chunks) /\ Len(Received(n)) = Len(Pd) + n
      /\ Len(Pd) + n = peer.sent + n - peer.blk
      /\ \A i \in 1..(Len(Pd) + n) : Received(n)[i] = Chunk(peer.ver, peer.blk + i - 1)
  BY <1>1, BlockOf DEF Received
<1>7. /\ peer.blk <= peer.sent /\ (peer.blk = 0 <=> Idx = 0)
      /\ Idx # 0 => Idx = peer.blk \/ peer.blk = FileLen(peer.ver)
  BY <1>1 DEF TypeInv, SessionInv, PeerInv, Open
<1>8. Idx # 0 => Idx = peer.blk
  BY <1>1, <1>4, <1>5, <1>7
<1>9. 1 \in 1..(Len(Pd) + n) /\ peer.blk + 1 - 1 = peer.blk /\ peer.blk \in 0..ImageLen[peer.ver]
  <2>1. /\ n \in Nat \ {0} /\ peer.sent \in Nat /\ peer.blk \in Nat /\ ImageLen[peer.ver] \in Nat
        /\ peer.sent + n <= ImageLen[peer.ver] + 1 /\ peer.blk <= peer.sent
    BY <1>1, <1>4, <1>5, <1>7
  <2>2. peer.blk \in 0..ImageLen[peer.ver]
    BY <2>1
  <2>. QED
    BY <1>4, <1>6, <2>1, <2>2
<1>10. Received(n)[1] = Chunk(peer.ver, peer.blk)
  BY <1>6, <1>9
<1>11. Received(n)[1].ver = peer.ver /\ Received(n)[1].pos = peer.blk
  BY <1>5, <1>9, <1>10, ChunkFields
<1>. QED
  BY <1>1, <1>2, <1>3, <1>4, <1>5, <1>6, <1>7, <1>8, <1>11

(* Data is refused, or buffered, or completes a block.                     *)
LEMMA DataCases ==
    ASSUME TypeInv, NEW n \in 1..PdSize, DataArrives(n)
    PROVE  /\ peer' = [peer EXCEPT !.sent = @ + n]
           /\ \/ /\ status' \in {"INVAL_MEM_TYPE", "PATCH_LEN_ERR", "INT_MEM_ERR"}
                 /\ UNCHANGED <<suota_state, job>>
              \/ /\ suota_state' = [suota_state EXCEPT !.pd = Received(n)]
                 /\ status' \in {"PATCH_LEN_ERR", status} /\ UNCHANGED job
              \/ app_suotar_img_hdlr(Received(n)) /\ Len(Received(n)) \in 1..PdSize
<1>1. Received(n) = suota_state.pd \o Units(n)
  BY DEF Received, Pd
<1>. DEFINE B == suota_state.pd \o Units(n)
            s == suota_state
<1>2. \/ status' \in {"INVAL_MEM_TYPE", "PATCH_LEN_ERR", "INT_MEM_ERR"} /\ UNCHANGED <<suota_state, job>>
      \/ /\ suota_state' = [s EXCEPT !.pd = B]
         /\ status' = IF Len(B) > s.new_patch_len THEN "PATCH_LEN_ERR" ELSE status
         /\ UNCHANGED job
      \/ Len(B) = s.new_patch_len /\ app_suotar_img_hdlr(B)
  <2>1. suotar_patch_data_ind(Units(n))
    BY DEF DataArrives
  <2>. HIDE DEF B
  <2>. QED
    BY <2>1 DEF suotar_patch_data_ind, B
<1>. HIDE DEF B
<1>3. B = Received(n) /\ Len(B) \in Nat \ {0}
  <2>1. B = Received(n)
    BY <1>1 DEF B
  <2>2. Len(Received(n)) = peer.sent + n - peer.blk /\ peer.blk <= peer.sent
        /\ n \in Nat \ {0} /\ peer.sent \in Nat /\ peer.blk \in Nat
    BY DataFacts
  <2>. QED
    BY <2>1, <2>2
<1>4. s.new_patch_len \in 0..PdSize /\ PdSize \in Nat
  BY Fields, PdAssumption, LayoutAssumption DEF TypeInv, TypeOK
<1>5. Len(B) = s.new_patch_len => Len(B) \in 1..PdSize
  BY <1>3, <1>4
<1>. QED
  BY <1>2, <1>3, <1>5 DEF DataArrives

(* The first units of a block.                                             *)
LEMMA FirstUnitsOf ==
    ASSUME NEW block \in Seq(Chunks), NEW m \in Nat
    PROVE  /\ FirstUnits(block, m) \in Seq(Chunks)
           /\ Len(FirstUnits(block, m)) = IF m < Len(block) THEN m ELSE Len(block)
           /\ \A i \in 1..Len(FirstUnits(block, m)) : FirstUnits(block, m)[i] = block[i]
<1>. DEFINE k == IF m < Len(block) THEN m ELSE Len(block)
            w == SubSeq(block, 1, k)
<1>1. k \in Nat /\ k <= Len(block) /\ Len(block) \in Nat
  BY LenProperties
<1>2. w = FirstUnits(block, m) /\ k = IF m < Len(block) THEN m ELSE Len(block)
  BY DEF FirstUnits
<1>. HIDE DEF k
<1>3. \A i \in 1..k : block[i] \in Chunks
  BY <1>1, ElementOfSeq
<1>4. /\ w \in Seq(Chunks) /\ Len(w) = IF 1 <= k THEN k - 1 + 1 ELSE 0
      /\ \A i \in 1..(k - 1 + 1) : w[i] = block[1 + i - 1]
  BY <1>1, <1>3, SubSeqProperties
<1>. HIDE DEF w
<1>5. Len(w) = k
  BY <1>1, <1>4
<1>6. \A i \in 1..k : i \in 1..(k - 1 + 1) /\ 1 + i - 1 = i
  BY <1>1
<1>7. \A i \in 1..k : w[i] = block[i]
  BY <1>4, <1>6
<1>. QED
  BY <1>2, <1>4, <1>5, <1>7

(* A first block that is accepted: the bank is chosen, the image fits.     *)
LEMMA FirstBlockFacts ==
    ASSUME TypeInv, NEW n \in 1..PdSize, DataArrives(n), Idx = 0,
           Len(Received(n)) \in 1..PdSize, HeaderStatus(Received(n)[1], new_bank) = "CMP_OK"
    PROVE  /\ new_bank \in Banks /\ ImageLen[peer.ver] <= BankSize
           /\ Offset(new_bank) \in Addresses
           /\ NewHeader(peer.ver, new_bank) \in Headers /\ peer.blk = 0
           /\ Received(n) \in Seq(Chunks) /\ Received(n)[1].ver = peer.ver
           /\ ~(IsValid(flash, new_bank) /\ HeaderOf(flash, new_bank).ver = peer.ver)
           /\ LET O == Offset(new_bank)
                  e == Erases(O + 1, Len(Received(n)) - 1)
                  F == app_read_image_headers(new_bank, Received(n))
              IN  /\ F \in Seq(FlashOps) /\ Len(F) = 2 + e + Len(Received(n)) /\ e \in 0..1
                  /\ F[1] = EraseOp(O, TRUE) /\ F[2] = EraseOp(O, FALSE)
                  /\ F[3] = ProgramOp(O, NewHeader(peer.ver, new_bank))
                  /\ \A i \in 1..(Len(Received(n)) - 1) :
                        F[3 + e + i] = ProgramOp(O + i, Received(n)[1 + i])
                  /\ e = 1 => F[4] = EraseOp(Erased(O + 1, Len(Received(n)) - 1), FALSE)
<1>1. new_bank \in Banks
  BY DataFacts, BankChoice
<1>2. /\ peer.blk = 0 /\ Received(n)[1].ver = peer.ver /\ Received(n)[1].pos = 0
      /\ peer.ver \in Versions /\ ImageLen[peer.ver] \in Nat /\ Received(n) \in Seq(Chunks)
  BY DataFacts
<1>3. NewHeader(peer.ver, new_bank) \in Headers /\ Offset(new_bank) \in Addresses
  BY <1>1, <1>2, NewHeaderFields, Places
<1>4. /\ ~(ImageLen[peer.ver] - 1 > BankSize - 1)
      /\ ~(IsValid(flash, new_bank) /\ HeaderOf(flash, new_bank).ver = peer.ver)
  BY <1>2, Zenon DEF HeaderStatus
<1>5. ImageLen[peer.ver] <= BankSize
  BY <1>2, <1>4, LayoutAssumption
<1>. DEFINE B == Received(n)
            b == new_bank
<1>6. LET O == Offset(b)
          e == Erases(O + 1, Len(B) - 1)
          F == app_read_image_headers(b, B)
      IN  /\ F \in Seq(FlashOps) /\ Len(F) = 2 + e + Len(B) /\ e \in 0..1
          /\ F[1] = EraseOp(O, TRUE) /\ F[2] = EraseOp(O, FALSE)
          /\ F[3] = ProgramOp(O, NewHeader(B[1].ver, b))
          /\ \A i \in 1..(Len(B) - 1) : F[3 + e + i] = ProgramOp(O + i, B[1 + i])
          /\ e = 1 => F[4] = EraseOp(Erased(O + 1, Len(B) - 1), FALSE)
  <2>1. b \in Banks /\ B \in Seq(Chunks) /\ Len(B) \in 1..PdSize /\ NewHeader(B[1].ver, b) \in Headers
    BY <1>1, <1>2, <1>3
  <2>. HIDE DEF B, b
  <2>. QED
    BY <2>1, FirstWrite
<1>. QED
  BY <1>1, <1>2, <1>3, <1>4, <1>5, <1>6

(* A later block: what is written of it, and where.                        *)
LaterCode(n) == FirstUnits(Received(n), Len0 - Idx)

(* The commands of a later block: the erases its addresses need, between   *)
(* them the writes that put its code at its place.                         *)
LEMMA LaterBlockFacts ==
    ASSUME TypeInv, NEW n \in 1..PdSize, DataArrives(n), Idx # 0
    PROVE  /\ Target \in Banks /\ Base = Offset(Target) /\ Base \in Nat
           /\ Len0 = ImageLen[peer.ver] /\ Len0 <= BankSize
           /\ Idx = peer.blk /\ Idx <= Len0 /\ Idx < peer.sent + n /\ peer.sent + n <= Len0 + 1
           /\ Len(LaterCode(n)) = IF peer.sent + n <= Len0 THEN peer.sent + n - Idx ELSE Len0 - Idx
           /\ LaterCode(n) \in Seq(Chunks)
           /\ \A i \in 1..Len(LaterCode(n)) : LaterCode(n)[i] = Chunk(peer.ver, Idx + i - 1)
           /\ LET e == Erases(Base + Idx, Len(LaterCode(n)))
                  W == app_flash_write_data(Base + Idx, LaterCode(n))
              IN  /\ W \in Seq(FlashOps) /\ Len(W) = e + Len(LaterCode(n)) /\ e \in 0..1
                  /\ \A i \in 1..Len(LaterCode(n)) :
                        W[e + i] = ProgramOp(Base + Idx + i - 1, LaterCode(n)[i])
                  /\ e = 1 => W[1] = EraseOp(Erased(Base + Idx, Len(LaterCode(n))), FALSE)
<1>1. /\ Sending /\ n \in Nat \ {0} /\ peer.sent \in Nat /\ peer.blk \in Nat /\ Idx \in Nat
      /\ ImageLen[peer.ver] \in Nat \ {0, 1}
      /\ peer.sent + n <= ImageLen[peer.ver] + 1 /\ peer.blk <= peer.sent
      /\ Received(n) \in Seq(Chunks) /\ Len(Received(n)) = peer.sent + n - peer.blk
      /\ \A i \in 1..Len(Received(n)) : Received(n)[i] = Chunk(peer.ver, peer.blk + i - 1)
      /\ Idx = peer.blk
  BY DataFacts
<1>2. Base = Offset(Target) /\ Len0 = ImageLen[peer.ver] /\ Len0 <= BankSize
  BY <1>1 DEF TypeInv, SessionInv, TargetInv, Open
<1>3. Target \in Banks
  BY DEF Target, Banks
<1>4. Base \in Nat /\ Base = Offset(Target)
  BY <1>2, <1>3, BankEnds
<1>5. Idx <= Len0 /\ Idx < peer.sent + n /\ peer.sent + n <= Len0 + 1 /\ Len0 - Idx \in Nat
  <2>1. /\ n \in Nat \ {0} /\ peer.sent \in Nat /\ peer.blk \in Nat /\ Len0 \in Nat
        /\ peer.sent + n <= Len0 + 1 /\ peer.blk <= peer.sent
    BY <1>1, <1>2
  <2>2. peer.blk <= Len0 /\ peer.blk < peer.sent + n /\ Len0 - peer.blk \in Nat
    BY <2>1
  <2>. QED
    BY <1>1, <2>1, <2>2
<1>6. /\ LaterCode(n) \in Seq(Chunks)
      /\ Len(LaterCode(n)) = IF Len0 - Idx < Len(Received(n)) THEN Len0 - Idx ELSE Len(Received(n))
      /\ \A i \in 1..Len(LaterCode(n)) : LaterCode(n)[i] = Received(n)[i]
  <2>. DEFINE m == Len0 - Idx
              B == Received(n)
  <2>1. m \in Nat /\ B \in Seq(Chunks)
    BY <1>1, <1>5
  <2>. HIDE DEF m, B
  <2>2. /\ FirstUnits(B, m) \in Seq(Chunks)
        /\ Len(FirstUnits(B, m)) = IF m < Len(B) THEN m ELSE Len(B)
        /\ \A i \in 1..Len(FirstUnits(B, m)) : FirstUnits(B, m)[i] = B[i]
    BY <2>1, FirstUnitsOf
  <2>. QED
    BY <2>2 DEF LaterCode, m, B
<1>7. Len(LaterCode(n)) = IF peer.sent + n <= Len0 THEN peer.sent + n - Idx ELSE Len0 - Idx
  <2>. DEFINE sent == peer.sent + n
              rest == peer.sent + n - Idx
              m    == Len0 - Idx
              l    == Len(Received(n))
              c    == Len(LaterCode(n))
  <2>0. n \in Nat /\ peer.sent \in Nat /\ Idx \in Nat /\ Len0 \in Nat
    BY <1>1, <1>2
  <2>1. sent \in Nat /\ Idx \in Nat /\ Len0 \in Nat
    BY <2>0
  <2>2. rest = sent - Idx
    BY <2>0
  <2>3. l = rest /\ m = Len0 - Idx
    BY <1>1
  <2>4. c = IF m < l THEN m ELSE l
    BY <1>6
  <2>. HIDE DEF sent, rest, m, l, c
  <2>5. m < l <=> ~(sent <= Len0)
    BY <2>1, <2>2, <2>3
  <2>6. c = IF sent <= Len0 THEN rest ELSE Len0 - Idx
    BY <2>3, <2>4, <2>5, Zenon
  <2>. QED
    BY <2>6 DEF sent, rest, c
<1>8. \A i \in 1..Len(LaterCode(n)) : LaterCode(n)[i] = Chunk(peer.ver, Idx + i - 1)
  <2>1. \A i \in 1..Len(LaterCode(n)) : i \in 1..Len(Received(n))
    BY <1>1, <1>2, <1>5, <1>6
  <2>. QED
    BY <1>1, <1>6, <2>1
<1>9. LET e == Erases(Base + Idx, Len(LaterCode(n)))
          W == app_flash_write_data(Base + Idx, LaterCode(n))
      IN  /\ W \in Seq(FlashOps) /\ Len(W) = e + Len(LaterCode(n)) /\ e \in 0..1
          /\ \A i \in 1..Len(LaterCode(n)) :
                W[e + i] = ProgramOp(Base + Idx + i - 1, LaterCode(n)[i])
          /\ e = 1 => W[1] = EraseOp(Erased(Base + Idx, Len(LaterCode(n))), FALSE)
  <2>. DEFINE a == Base + Idx
              u == LaterCode(n)
  <2>1. u \in Seq(Headers \cup Chunks)
    <3>1. Len(u) \in Nat /\ u \in [1..Len(u) -> Chunks]
      BY <1>6, LenProperties
    <3>2. u \in [1..Len(u) -> Headers \cup Chunks]
      BY <3>1
    <3>. QED
      BY <3>1, <3>2
  <2>2. a \in Nat /\ a >= Offset(Target) /\ a + Len(u) <= Offset(Target) + BankSize
    <3>1. Idx \in Nat /\ Len0 \in Nat /\ Idx <= Len0 /\ Len(u) <= Len0 - Idx /\ Len(u) \in Nat
      <4>1. /\ Idx \in Nat /\ Len0 \in Nat /\ Idx <= Len0 /\ peer.sent \in Nat /\ n \in Nat
            /\ Idx < peer.sent + n
        BY <1>1, <1>2, <1>5
      <4>. QED
        BY <1>7, <4>1
    <3>2. BankSize \in Nat /\ Len0 <= BankSize /\ Offset(Target) \in Nat /\ a = Offset(Target) + Idx
      BY <1>2, <1>4, LayoutAssumption
    <3>. HIDE DEF a, u
    <3>. QED
      BY <3>1, <3>2
  <2>. HIDE DEF a, u
  <2>3. LET e == Erases(a, Len(u))
            W == app_flash_write_data(a, u)
        IN  /\ W \in Seq(FlashOps) /\ Len(W) = e + Len(u) /\ e \in 0..1
            /\ \A i \in 1..Len(u) : W[e + i] = ProgramOp(a + i - 1, u[i])
            /\ e = 1 => W[1] = EraseOp(Erased(a, Len(u)), FALSE)
    BY <1>3, <2>1, <2>2, WriteData
  <2>. QED
    BY <2>3 DEF a, u
<1>. QED
  BY <1>1, <1>2, <1>3, <1>4, <1>5, <1>6, <1>7, <1>8, <1>9

(* Data keeps the types, and the counts of both sides together.            *)
LEMMA DataTypes ==
    ASSUME TypeInv, NEW n \in 1..PdSize, DataArrives(n)
    PROVE  TypeInv'
<1>. DEFINE B == Received(n)
            crc == Xor(suota_state.crc_calc, B)
            Sent == peer' = [peer EXCEPT !.sent = @ + n]
<1>1. /\ job = NoJob /\ job.kind = "none" /\ job.ops = << >> /\ Sending /\ MayGoOn
      /\ UNCHANGED <<flash, running, connected>>
      /\ suota_state \in app_suota_state /\ peer \in Peers
      /\ n \in Nat \ {0} /\ peer.sent \in Nat /\ peer.blk \in Nat /\ Idx \in Nat
      /\ peer.ver \in Versions /\ ImageLen[peer.ver] \in Nat \ {0, 1}
      /\ peer.sent + n <= ImageLen[peer.ver] + 1 /\ peer.blk <= peer.sent
      /\ B \in Seq(Chunks) /\ Len(B) = peer.sent + n - peer.blk
      /\ (Idx = 0 <=> peer.blk = 0) /\ (Idx # 0 => Idx = peer.blk)
      /\ B[1].ver = peer.ver /\ B[1].pos = peer.blk
  BY DataFacts
<1>2. \A i \in 1..Len(B) : B[i] = Chunk(peer.ver, peer.blk + i - 1)
  BY DataFacts
<1>3. crc \in SUBSET Chunks
  BY <1>1, XorType DEF app_suota_state
<1>4. FileLen(peer.ver) = ImageLen[peer.ver] + 1
  BY <1>1, SentImage
<1>. HIDE DEF B, crc
<1>5. ASSUME Sent
      PROVE  /\ peer' \in Peers /\ peer'.ver = peer.ver /\ peer'.sent = peer.sent + n
             /\ peer'.blk = peer.blk /\ Sending'
  <2>. DEFINE k == peer.sent + n
  <2>1. k \in Nat /\ peer \in Peers /\ peer' = [peer EXCEPT !.sent = k]
    BY <1>1, <1>5
  <2>. HIDE DEF k
  <2>2. /\ peer' \in Peers /\ peer'.ver = peer.ver /\ peer'.sent = k
        /\ peer'.blk = peer.blk
    BY <2>1 DEF Peers
  <2>. QED
    BY <1>1, <2>2 DEF Sending, k
<1>6. ASSUME Sent, Idx' = Idx, Len0' = Len0 \/ Idx = 0
      PROVE  PeerInv'
  <2>1. /\ peer'.ver = peer.ver /\ peer'.sent = peer.sent + n /\ peer'.blk = peer.blk /\ Sending'
    BY <1>5, <1>6
  <2>2. peer'.blk <= peer'.sent /\ peer'.sent <= FileLen(peer'.ver)
    BY <1>1, <1>4, <2>1
  <2>. QED
    BY <1>1, <1>6, <2>1, <2>2 DEF PeerInv, Open
<1>7. TargetInv
  BY DEF TypeInv, SessionInv
<1>8. CASE /\ status' \in {"INVAL_MEM_TYPE", "PATCH_LEN_ERR", "INT_MEM_ERR"}
           /\ UNCHANGED <<suota_state, job>> /\ Sent
  <2>1. UNCHANGED <<Idx, Pd, Len0, Base, suota_state.mem_dev>>
    BY <1>8 DEF Idx, Pd, Len0, Base
  <2>2. peer' \in Peers /\ peer'.ver = peer.ver /\ Sending' /\ PeerInv'
    BY <1>5, <1>6, <1>8, <2>1
  <2>3. TypeOK'
    BY <1>1, <1>8, <2>2 DEF TypeInv, TypeOK, Statuses
  <2>4. TargetInv'
    BY <1>1, <1>7, <1>8, <2>1, <2>2 DEF TargetInv, Open, Target
  <2>5. ~MayGoOn' /\ status' \notin {"EXT_MEM_READ_ERR", "EXT_MEM_WRITE_ERR"}
    BY <1>8 DEF MayGoOn
  <2>6. BufferInv' /\ JobInv'
    BY <1>1, <1>8, <2>5 DEF BufferInv, JobInv
  <2>. QED
    BY <2>2, <2>3, <2>4, <2>6 DEF TypeInv, SessionInv
<1>9. CASE /\ suota_state' = [suota_state EXCEPT !.pd = B]
           /\ status' \in {"PATCH_LEN_ERR", status} /\ Sent /\ UNCHANGED job
  <2>1. UNCHANGED <<Idx, Len0, Base, suota_state.mem_dev>> /\ Pd' = B /\ suota_state' \in app_suota_state
    BY <1>1, <1>9 DEF app_suota_state, Idx, Pd, Len0, Base
  <2>2. /\ peer' \in Peers /\ peer'.ver = peer.ver /\ peer'.sent = peer.sent + n
        /\ peer'.blk = peer.blk /\ Sending' /\ PeerInv'
    BY <1>5, <1>6, <1>9, <2>1
  <2>3. TypeOK'
    BY <1>1, <1>9, <2>1, <2>2 DEF TypeInv, TypeOK, Statuses
  <2>4. TargetInv'
    BY <1>1, <1>7, <1>9, <2>1, <2>2 DEF TargetInv, Open, Target
  <2>5. status' \notin {"EXT_MEM_READ_ERR", "EXT_MEM_WRITE_ERR"}
    BY <1>1, <1>9 DEF MayGoOn
  <2>6. BufferInv'
    BY <1>1, <1>2, <2>1, <2>2, <2>5 DEF BufferInv
  <2>7. JobInv'
    BY <1>1, <1>9 DEF JobInv
  <2>. QED
    BY <2>2, <2>3, <2>4, <2>6, <2>7 DEF TypeInv, SessionInv
<1>10. CASE app_suotar_img_hdlr(B) /\ Sent /\ Len(B) \in 1..PdSize
  <2>. DEFINE b == new_bank
              len == IF B[1].pos = 0 THEN ImageLen[B[1].ver] ELSE Len0
              Refuse(why) ==
                 /\ suota_state' = [suota_state EXCEPT !.crc_calc = crc, !.suota_image_len = len,
                                                       !.pd = << >>]
                 /\ status' = why
                 /\ UNCHANGED job
  <2>1. /\ peer' \in Peers /\ peer'.ver = peer.ver /\ peer'.sent = peer.sent + n
        /\ peer'.blk = peer.blk /\ Sending'
    BY <1>5, <1>10
  <2>2. len \in Nat /\ << >> \in Seq(Chunks)
    BY <1>1, Fields
  <2>3. CASE Idx = 0 /\ FirstBlock(crc, B)
    <3>1. \/ /\ HeaderStatus(B[1], b) = "CMP_OK"
             /\ suota_state' = [suota_state EXCEPT !.crc_calc = crc, !.suota_image_len = len, !.pd = B,
                                                   !.mem_base_add = Offset(b)]
             /\ job' = [kind |-> "block", ops |-> app_read_image_headers(b, B)]
             /\ UNCHANGED status
          \/ \E why \in {"INVAL_IMG_HDR", "INVAL_PRODUCT_HDR", "INVAL_IMG_SIZE", "SAME_IMG_ERR",
                         "EXT_MEM_READ_ERR"} : Refuse(why)
      <4>1. HeaderStatus(B[1], b) \in {"INVAL_IMG_HDR", "INVAL_PRODUCT_HDR", "INVAL_IMG_SIZE",
                                       "SAME_IMG_ERR", "CMP_OK"}
        BY DEF HeaderStatus
      <4>. QED
        BY <2>3, <4>1 DEF FirstBlock, Len0
    <3>2. CASE \E why \in {"INVAL_IMG_HDR", "INVAL_PRODUCT_HDR", "INVAL_IMG_SIZE", "SAME_IMG_ERR",
                           "EXT_MEM_READ_ERR"} : Refuse(why)
      <4>. HIDE DEF len
      <4>0. PICK why \in {"INVAL_IMG_HDR", "INVAL_PRODUCT_HDR", "INVAL_IMG_SIZE", "SAME_IMG_ERR",
                          "EXT_MEM_READ_ERR"} : Refuse(why)
        BY <3>2
      <4>1. /\ suota_state' \in app_suota_state /\ Idx' = Idx /\ Pd' = << >>
            /\ job' = job /\ status' \in Statuses /\ ~MayGoOn'
        <5>1. suota_state' \in app_suota_state /\ Idx' = Idx /\ Pd' = << >>
          BY <1>1, <1>3, <2>2, <4>0 DEF app_suota_state, Idx, Pd
        <5>2. job' = job /\ status' \in Statuses /\ ~MayGoOn'
          BY <4>0 DEF Statuses, MayGoOn
        <5>. QED
          BY <5>1, <5>2
      <4>2. TypeOK'
        BY <1>1, <2>1, <4>1 DEF TypeInv, TypeOK
      <4>3. PeerInv'
        BY <1>6, <1>10, <2>3, <4>1
      <4>4. TargetInv' /\ BufferInv' /\ JobInv'
        BY <1>1, <2>3, <4>1 DEF TargetInv, BufferInv, JobInv, Open
      <4>. QED
        BY <4>2, <4>3, <4>4 DEF TypeInv, SessionInv
    <3>3. CASE /\ HeaderStatus(B[1], b) = "CMP_OK"
               /\ suota_state' = [suota_state EXCEPT !.crc_calc = crc, !.suota_image_len = len,
                                                     !.pd = B, !.mem_base_add = Offset(b)]
               /\ job' = [kind |-> "block", ops |-> app_read_image_headers(b, B)]
               /\ UNCHANGED status
      <4>1. /\ b \in Banks /\ ImageLen[peer.ver] <= BankSize /\ Offset(b) \in Addresses
            /\ app_read_image_headers(b, B) \in Seq(FlashOps) /\ peer.blk = 0
        BY <1>10, <2>3, <3>3, FirstBlockFacts DEF B
      <4>2. len = ImageLen[peer.ver]
        BY <1>1, <4>1
      <4>. HIDE DEF len, b
      <4>3. /\ suota_state' \in app_suota_state /\ Idx' = Idx /\ Pd' = B /\ Base' = Offset(b)
            /\ Len0' = len /\ suota_state'.mem_dev = suota_state.mem_dev
        BY <1>1, <1>3, <2>2, <3>3, <4>1 DEF app_suota_state, Idx, Pd, Base, Len0
      <4>4. job' \in [kind : {"none", "block", "end"}, ops : Seq(FlashOps)] /\ job'.kind = "block"
        BY <3>3, <4>1
      <4>5. TypeOK'
        BY <1>1, <2>1, <3>3, <4>3, <4>4 DEF TypeInv, TypeOK
      <4>6. PeerInv'
        BY <1>6, <1>10, <2>3, <4>3
      <4>7. Base' = Offset(Target')
        <5>1. b = 1 \/ b = 2
          BY <4>1 DEF Banks
        <5>. QED
          BY <4>3, <5>1, Places DEF Target
      <4>8. suota_state.mem_dev = "IMG_SPI_FLASH"
        <5>1. job' # job
          BY <1>1, <4>4
        <5>. QED
          BY <1>10, <5>1, Zenon DEF app_suotar_img_hdlr
      <4>9. TargetInv'
        BY <2>1, <4>1, <4>2, <4>3, <4>7, <4>8 DEF TargetInv
      <4>10. BufferInv'
        BY <1>1, <3>3, <4>4 DEF BufferInv, MayGoOn
      <4>11. JobInv'
        BY <1>1, <1>10, <2>1, <2>3, <3>3, <4>1, <4>3, <4>4 DEF JobInv, MayGoOn
      <4>. QED
        BY <4>5, <4>6, <4>9, <4>10, <4>11 DEF TypeInv, SessionInv
    <3>. QED
      BY <3>1, <3>2, <3>3
  <2>4. CASE Idx # 0 /\ LaterBlock(crc, B)
    <3>1. CASE /\ suota_state' = [suota_state EXCEPT !.crc_calc = crc, !.pd = LaterCode(n)]
               /\ job' = [kind |-> "block", ops |-> app_flash_write_data(Base + Idx, LaterCode(n))]
               /\ UNCHANGED status
      <4>1. /\ Idx = peer.blk /\ Idx <= Len0 /\ Idx < peer.sent + n
            /\ Len(LaterCode(n)) = IF peer.sent + n <= Len0 THEN peer.sent + n - Idx ELSE Len0 - Idx
            /\ LaterCode(n) \in Seq(Chunks)
            /\ app_flash_write_data(Base + Idx, LaterCode(n)) \in Seq(FlashOps)
        BY <2>4, LaterBlockFacts
      <4>2. /\ suota_state' \in app_suota_state /\ Pd' = LaterCode(n)
            /\ UNCHANGED <<Idx, Len0, Base, suota_state.mem_dev>>
        BY <1>1, <1>3, <3>1, <4>1 DEF app_suota_state, Idx, Pd, Base, Len0
      <4>3. job' \in [kind : {"none", "block", "end"}, ops : Seq(FlashOps)] /\ job'.kind = "block"
        BY <3>1, <4>1
      <4>4. TypeOK'
        BY <1>1, <2>1, <3>1, <4>2, <4>3 DEF TypeInv, TypeOK
      <4>5. PeerInv'
        BY <1>6, <1>10, <4>2
      <4>6. TargetInv'
        BY <1>1, <1>7, <2>1, <2>4, <4>2 DEF TargetInv, Open, Target
      <4>7. BufferInv'
        BY <1>1, <3>1, <4>3 DEF BufferInv, MayGoOn
      <4>8. JobInv'
        BY <1>1, <2>1, <2>4, <3>1, <4>1, <4>2, <4>3 DEF JobInv, MayGoOn
      <4>. QED
        BY <4>4, <4>5, <4>6, <4>7, <4>8 DEF TypeInv, SessionInv
    <3>2. CASE /\ suota_state' = [suota_state EXCEPT !.crc_calc = crc, !.pd = << >>]
               /\ status' = "EXT_MEM_WRITE_ERR"
               /\ UNCHANGED job
      <4>1. /\ suota_state' \in app_suota_state /\ Pd' = << >>
            /\ UNCHANGED <<Idx, Len0, Base, suota_state.mem_dev>>
        BY <1>1, <1>3, <2>2, <3>2 DEF app_suota_state, Idx, Pd, Base, Len0
      <4>2. TypeOK'
        BY <1>1, <2>1, <3>2, <4>1 DEF TypeInv, TypeOK, Statuses
      <4>3. PeerInv'
        BY <1>6, <1>10, <4>1
      <4>4. TargetInv'
        BY <1>1, <1>7, <2>1, <3>2, <4>1 DEF TargetInv, Open, Target
      <4>5. BufferInv' /\ JobInv'
        BY <1>1, <3>2, <4>1 DEF BufferInv, JobInv, MayGoOn
      <4>. QED
        BY <4>2, <4>3, <4>4, <4>5 DEF TypeInv, SessionInv
    <3>. QED
      BY <2>4, <3>1, <3>2 DEF LaterBlock, LaterCode, Base, Idx, Len0, B
  <2>5. CASE /\ suota_state' = [suota_state EXCEPT !.crc_calc = crc, !.pd = B]
             /\ status' = "INVAL_MEM_TYPE" /\ UNCHANGED job
    <3>1. UNCHANGED <<Idx, Len0, Base, suota_state.mem_dev>> /\ Pd' = B /\ suota_state' \in app_suota_state
      BY <1>1, <1>3, <2>5 DEF app_suota_state, Idx, Pd, Len0, Base
    <3>2. TypeOK'
      BY <1>1, <2>1, <2>5, <3>1 DEF TypeInv, TypeOK, Statuses
    <3>3. PeerInv'
      BY <1>6, <1>10, <3>1
    <3>4. TargetInv'
      BY <1>1, <1>7, <2>1, <2>5, <3>1 DEF TargetInv, Open, Target
    <3>5. BufferInv' /\ JobInv'
      BY <1>1, <2>5, <3>1 DEF BufferInv, JobInv, MayGoOn
    <3>. QED
      BY <3>2, <3>3, <3>4, <3>5 DEF TypeInv, SessionInv
  <2>. QED
    BY <1>10, <2>3, <2>4, <2>5 DEF app_suotar_img_hdlr, Idx, crc
<1>. QED
  BY <1>8, <1>9, <1>10, DataCases DEF B

-----------------------------------------------------------------------------
(* The steps of a handler. *)

(* What is known while a handler writes.                                   *)
LEMMA JobFacts ==
    ASSUME TypeInv, job.ops # << >>
    PROVE  /\ job.kind \in {"block", "end"} /\ job.ops \in Seq(FlashOps)
           /\ Head(job.ops) \in FlashOps /\ Tail(job.ops) \in Seq(FlashOps)
           /\ job \in [kind : {"none", "block", "end"}, ops : Seq(FlashOps)]
           /\ suota_state \in app_suota_state /\ peer \in Peers
<1>1. job \in [kind : {"none", "block", "end"}, ops : Seq(FlashOps)]
  BY DEF TypeInv, TypeOK
<1>2. job.kind # "none"
  BY DEF TypeInv, SessionInv, JobInv
<1>3. job.ops \in Seq(FlashOps) /\ job.kind \in {"block", "end"}
  BY <1>1, <1>2
<1>4. Head(job.ops) \in FlashOps /\ Tail(job.ops) \in Seq(FlashOps)
  BY <1>3, HeadTailProperties
<1>. QED
  BY <1>1, <1>3, <1>4 DEF TypeInv, TypeOK

(* An operation keeps the contents of the flash well formed.               *)
LEMMA AppliedType ==
    ASSUME flash \in [Addresses -> Contents], NEW o \in FlashOps
    PROVE  Applied(o) \in [Addresses -> Contents]
<1>1. o.op \in {"erase", "program", "flag"} /\ o.at \in Addresses /\ o.unit \in Contents
  BY DEF FlashOps
<1>. QED
  BY <1>1, FlashTypes DEF Applied

(* One operation less to do: nothing of the session changes.               *)
LEMMA OperationTypes == TypeInv /\ (flash_operation \/ unchecked_fault) => TypeInv'
<1>. SUFFICES ASSUME TypeInv, flash_operation \/ unchecked_fault PROVE TypeInv'
  OBVIOUS
<1>1. /\ job.ops # << >> /\ job' = [job EXCEPT !.ops = Tail(job.ops)]
      /\ UNCHANGED <<running, suota_state, connected, status, peer>>
      /\ flash' = flash \/ flash' = Applied(Head(job.ops))
  BY DEF flash_operation, unchecked_fault
<1>2. /\ job.kind \in {"block", "end"} /\ Head(job.ops) \in FlashOps /\ Tail(job.ops) \in Seq(FlashOps)
      /\ job \in [kind : {"none", "block", "end"}, ops : Seq(FlashOps)]
  BY <1>1, JobFacts
<1>3. job' \in [kind : {"none", "block", "end"}, ops : Seq(FlashOps)] /\ job'.kind = job.kind
  BY <1>1, <1>2
<1>4. flash' \in [Addresses -> Contents]
  BY <1>1, <1>2, AppliedType DEF TypeInv, TypeOK
<1>5. TypeOK'
  BY <1>1, <1>3, <1>4 DEF TypeInv, TypeOK
<1>6. UNCHANGED <<Idx, Pd, Len0, Base, suota_state.mem_dev, job.kind>>
  BY <1>1, <1>3 DEF Idx, Pd, Len0, Base
<1>7. PeerInv'
  BY <1>1, <1>6 DEF TypeInv, SessionInv, PeerInv, Open, Sending
<1>8. TargetInv'
  BY <1>1, <1>6 DEF TypeInv, SessionInv, TargetInv, Open, Sending, Target
<1>9. BufferInv' /\ JobInv'
  BY <1>1, <1>2, <1>6 DEF TypeInv, SessionInv, BufferInv, JobInv, MayGoOn
<1>. QED
  BY <1>5, <1>7, <1>8, <1>9 DEF TypeInv, SessionInv

(* A handler that gives up drops the block, at the end also the session.   *)
LEMMA FaultTypes == TypeInv /\ checked_fault => TypeInv'
<1>. SUFFICES ASSUME TypeInv, checked_fault PROVE TypeInv'
  OBVIOUS
<1>1. /\ job.ops # << >> /\ job' = NoJob /\ status' = "EXT_MEM_WRITE_ERR"
      /\ UNCHANGED <<flash, running, connected>>
      /\ suota_state' = IF job.kind = "end" THEN Stopped(suota_state)
                        ELSE [suota_state EXCEPT !.pd = << >>]
      /\ peer' = IF job.kind = "end" THEN NoPeer ELSE peer
  BY DEF checked_fault
<1>2. /\ job.kind \in {"block", "end"} /\ suota_state \in app_suota_state /\ peer \in Peers
  BY <1>1, JobFacts
<1>3. NoPeer \in Peers /\ NoJob \in [kind : {"none", "block", "end"}, ops : Seq(FlashOps)]
      /\ 0 \in 0..PdSize /\ << >> \in Seq(Chunks) /\ NoJob.kind = "none" /\ NoJob.ops = << >>
  BY PdAssumption, LayoutAssumption DEF NoPeer, Peers, NoJob
<1>4. /\ Stopped(suota_state) \in app_suota_state /\ Stopped(suota_state).pd = << >>
      /\ [suota_state EXCEPT !.pd = << >>] \in app_suota_state
  BY <1>2, <1>3 DEF Stopped, app_suota_state
<1>5. TypeOK'
  BY <1>1, <1>2, <1>3, <1>4 DEF TypeInv, TypeOK, Statuses
<1>6. CASE job.kind = "end"
  BY <1>1, <1>4, <1>5, <1>6, EndedSession DEF TypeInv, Pd
<1>7. CASE job.kind = "block"
  <2>1. UNCHANGED <<Idx, Len0, Base, suota_state.mem_dev>> /\ Pd' = << >> /\ peer' = peer
    BY <1>1, <1>2, <1>7 DEF Idx, Pd, Len0, Base, app_suota_state
  <2>2. PeerInv'
    BY <2>1 DEF TypeInv, SessionInv, PeerInv, Open, Sending
  <2>3. TargetInv'
    BY <1>1, <1>3, <2>1 DEF TypeInv, SessionInv, TargetInv, Open, Sending, Target
  <2>4. BufferInv' /\ JobInv'
    BY <1>1, <1>3, <2>1 DEF BufferInv, JobInv, MayGoOn
  <2>. QED
    BY <1>5, <2>2, <2>3, <2>4 DEF TypeInv, SessionInv
<1>. QED
  BY <1>2, <1>6, <1>7

(* A block that is written, in numbers: the receiver goes on behind it.    *)
LEMMA NextIndex ==
    ASSUME TypeInv, job.kind = "block"
    PROVE  /\ Sending /\ Idx + Len(Pd) \in 1..(BankSize + 1) /\ Idx + Len(Pd) <= peer.sent
           /\ Idx + Len(Pd) = peer.sent \/ (Idx + Len(Pd) = Len0 /\ peer.sent = FileLen(peer.ver))
           /\ peer.sent <= FileLen(peer.ver) /\ peer.sent \in Nat \ {0} /\ FileLen(peer.ver) = Len0 + 1
           /\ Len0 <= BankSize /\ Len0 \in Nat \ {0, 1} /\ peer.sent \in Nat
<1>1. suota_state \in app_suota_state /\ peer \in Peers
  BY DEF TypeInv, TypeOK
<1>2. Sending /\ Len0 = ImageLen[peer.ver] /\ Len0 <= BankSize
  BY DEF TypeInv, SessionInv, TargetInv
<1>3. ImageLen[peer.ver] \in Nat \ {0, 1} /\ FileLen(peer.ver) = ImageLen[peer.ver] + 1
  BY <1>1, <1>2, SentImage
<1>4. Idx \in Nat /\ Len(Pd) \in Nat /\ peer.sent \in Nat /\ BankSize \in Nat
  BY <1>1, Fields, LayoutAssumption
<1>5. peer.sent <= FileLen(peer.ver)
  BY <1>2 DEF TypeInv, SessionInv, PeerInv
<1>6. /\ Idx = 0 => Len(Pd) = peer.sent /\ Len(Pd) # 0
      /\ Idx # 0 => /\ Idx <= Len0 /\ Idx < peer.sent
                    /\ Len(Pd) = IF peer.sent <= Len0 THEN peer.sent - Idx ELSE Len0 - Idx
  BY DEF TypeInv, SessionInv, JobInv
<1>. HIDE DEF Idx, Pd, Len0
<1>7. CASE Idx = 0
  BY <1>2, <1>3, <1>4, <1>5, <1>6, <1>7
<1>8. CASE Idx # 0
  <2>1. /\ Len0 \in Nat \ {0, 1} /\ peer.sent <= Len0 + 1 /\ Idx <= Len0 /\ Idx < peer.sent
        /\ Len0 <= BankSize /\ FileLen(peer.ver) = Len0 + 1
    BY <1>2, <1>3, <1>5, <1>6, <1>8
  <2>2. CASE peer.sent <= Len0
    <3>1. Idx + Len(Pd) = peer.sent
      BY <1>4, <1>6, <1>8, <2>2
    <3>. QED
      BY <1>2, <1>4, <2>1, <2>2, <3>1
  <2>3. CASE ~(peer.sent <= Len0)
    <3>1. Idx + Len(Pd) = Len0 /\ peer.sent = Len0 + 1
      BY <1>4, <1>6, <1>8, <2>1, <2>3
    <3>. QED
      BY <1>2, <1>4, <2>1, <3>1
  <2>. QED
    BY <2>2, <2>3
<1>. QED
  BY <1>7, <1>8

(* A handler that is done confirms the block, or ends the session.         *)
LEMMA ReturnTypes == TypeInv /\ handler_returns => TypeInv'
<1>. SUFFICES ASSUME TypeInv, handler_returns PROVE TypeInv'
  OBVIOUS
<1>. DEFINE k == Idx + Len(Pd)
<1>1. /\ job.kind # "none" /\ job' = NoJob /\ status' = "CMP_OK"
      /\ UNCHANGED <<flash, running, connected>>
      /\ suota_state' = IF job.kind = "end" THEN Stopped(suota_state)
                        ELSE [suota_state EXCEPT !.pd = << >>, !.suota_img_idx = k]
      /\ peer' = IF job.kind = "end" THEN NoPeer ELSE [peer EXCEPT !.blk = peer.sent]
  BY DEF handler_returns, Idx, Pd
<1>2. /\ job.kind \in {"block", "end"} /\ suota_state \in app_suota_state /\ peer \in Peers
  BY <1>1 DEF TypeInv, TypeOK
<1>3. NoPeer \in Peers /\ NoJob \in [kind : {"none", "block", "end"}, ops : Seq(FlashOps)]
      /\ 0 \in 0..PdSize /\ << >> \in Seq(Chunks) /\ NoJob.kind = "none" /\ NoJob.ops = << >>
  BY PdAssumption, LayoutAssumption DEF NoPeer, Peers, NoJob
<1>4. CASE job.kind = "end"
  <2>1. Stopped(suota_state) \in app_suota_state /\ Stopped(suota_state).pd = << >>
    BY <1>2, <1>3 DEF Stopped, app_suota_state
  <2>2. TypeOK'
    BY <1>1, <1>3, <1>4, <2>1 DEF TypeInv, TypeOK, Statuses
  <2>. QED
    BY <1>1, <1>4, <2>2, EndedSession DEF TypeInv
<1>5. CASE job.kind = "block"
  <2>1. /\ Sending /\ k \in 1..(BankSize + 1)
        /\ k = peer.sent \/ (k = Len0 /\ peer.sent = FileLen(peer.ver))
        /\ peer.sent <= FileLen(peer.ver) /\ peer.sent \in Nat \ {0}
        /\ FileLen(peer.ver) = Len0 + 1 /\ Len0 \in Nat \ {0, 1}
    BY <1>5, NextIndex
  <2>. HIDE DEF k
  <2>2. k \in 0..(BankSize + 1) /\ k # 0
    BY <2>1, LayoutAssumption
  <2>3. /\ suota_state' \in app_suota_state /\ Idx' = k /\ Pd' = << >>
        /\ UNCHANGED <<Len0, Base, suota_state.mem_dev>>
    BY <1>1, <1>2, <1>3, <1>5, <2>2 DEF app_suota_state, Idx, Pd, Len0, Base
  <2>4. /\ peer' \in Peers /\ peer'.ver = peer.ver /\ peer'.sent = peer.sent /\ peer'.blk = peer.sent
        /\ Sending'
    BY <1>1, <1>2, <1>5, <2>1 DEF Peers, Sending
  <2>5. TypeOK'
    BY <1>1, <1>3, <2>3, <2>4 DEF TypeInv, TypeOK, Statuses
  <2>6. PeerInv'
    <3>1. peer'.blk <= peer'.sent /\ peer'.sent <= FileLen(peer'.ver) /\ peer'.blk # 0 /\ Idx' # 0
      BY <2>1, <2>2, <2>3, <2>4
    <3>2. Idx' = peer'.blk \/ (Idx' = Len0' /\ peer'.blk = FileLen(peer'.ver))
      BY <2>1, <2>3, <2>4
    <3>. QED
      BY <2>4, <3>1, <3>2 DEF PeerInv, Open
  <2>7. TargetInv'
    <3>1. /\ suota_state.mem_dev = "IMG_SPI_FLASH" /\ Base = Offset(Target)
          /\ Len0 = ImageLen[peer.ver] /\ Len0 <= BankSize
      BY <1>5 DEF TypeInv, SessionInv, TargetInv
    <3>. QED
      BY <2>3, <2>4, <3>1 DEF TargetInv, Target
  <2>8. BufferInv' /\ JobInv'
    <3>1. Len(Pd') = 0 /\ peer'.sent - peer'.blk = 0
      BY <2>1, <2>3, <2>4
    <3>2. BufferInv'
      BY <2>3, <3>1 DEF BufferInv
    <3>3. JobInv'
      BY <1>1, <1>3 DEF JobInv
    <3>. QED
      BY <3>2, <3>3
  <2>. QED
    BY <2>5, <2>6, <2>7, <2>8 DEF TypeInv, SessionInv
<1>. QED
  BY <1>2, <1>4, <1>5

(* Nothing changes.                                                        *)
LEMMA IdleTypes == TypeInv /\ UNCHANGED vars => TypeInv'
<1>. SUFFICES ASSUME TypeInv, UNCHANGED vars PROVE TypeInv'
  OBVIOUS
<1>1. UNCHANGED <<flash, running, suota_state, job, connected, status, peer>>
  BY DEF vars
<1>2. UNCHANGED <<Idx, Pd, Len0, Base>>
  BY <1>1 DEF Idx, Pd, Len0, Base
<1>3. TypeOK'
  BY <1>1 DEF TypeInv, TypeOK
<1>4. PeerInv' /\ TargetInv'
  BY <1>1, <1>2 DEF TypeInv, SessionInv, PeerInv, TargetInv, Open, Sending, Target
<1>5. BufferInv' /\ JobInv'
  BY <1>1, <1>2 DEF TypeInv, SessionInv, BufferInv, JobInv, Sending, MayGoOn
<1>. QED
  BY <1>3, <1>4, <1>5 DEF TypeInv, SessionInv

(* Every step keeps the types and the counts.                              *)
LEMMA StepTypes == Orderly /\ TypeInv /\ [Next]_vars => TypeInv'
  BY RequestTypes, LengthTypes, DataInTurn, DataTypes, GpioTypes, OperationTypes, FaultTypes, ReturnTypes,
     AgainTypes, LinkTypes, RestartTypes, IdleTypes DEF Next, PowerCycle

(* Receiver and initiator count alike, for any images, any failure of the  *)
(* flash and every initiator that sends data only in turn: what the        *)
(* receiver accepts out of turn, also after it refused a bank, is outside  *)
(* of this theorem.                                                        *)
THEOREM TypeCorrect ==
    ASSUME Orderly
    PROVE  Spec => []TypeInv
<1>1. TypeInv /\ [Next]_vars => TypeInv'
  BY StepTypes
<1>. QED
  BY <1>1, InitTypes, PTL DEF Spec

(* Contents of the flash, the receiver's RAM, the commands of a handler    *)
(* and the initiator's counts are what they are declared to be, for such   *)
(* an initiator.                                                           *)
THEOREM TypesAreKept ==
    ASSUME Orderly
    PROVE  Spec => []TypeOK
<1>1. TypeInv => TypeOK
  BY DEF TypeInv
<1>2. Spec => []TypeInv
  BY TypeCorrect
<1>. QED
  BY <1>1, <1>2, PTL
=============================================================================
