------------------------- MODULE UpdateFlashProofs --------------------------
(* Facts about the update flash and the choice of the bootloader, for any  *)
(* images and any size of the banks and sectors.                           *)
EXTENDS UpdateFlash, TLAPS

-----------------------------------------------------------------------------
(* Sectors. *)

(* Division with remainder, and that there is only one.                    *)
LEMMA Quotient ==
    ASSUME NEW n \in Int, n > 0, NEW a \in Int, NEW q \in Int, q = a \div n, NEW r \in Int, r = a % n
    PROVE  a = n * q + r
  OBVIOUS

(* Every quotient has a remainder below the divisor.                       *)
LEMMA Division ==
    ASSUME NEW n \in Nat, n > 0, NEW a \in Nat
    PROVE  \E k \in Nat, r \in 0..(n - 1) : r = a % n /\ a = n * k + r
<1>1. PICK q \in Int : q = a \div n
  OBVIOUS
<1>2. PICK r \in 0..(n - 1) : r = a % n
  OBVIOUS
<1>3. a = n * q + r
  BY <1>1, <1>2, Quotient
<1>4. q >= 0
  <2>. SUFFICES ASSUME q <= -1 PROVE FALSE
    OBVIOUS
  <2>1. n * q <= n * (-1)
    OBVIOUS
  <2>. QED
    BY <1>3, <2>1
<1>. QED
  BY <1>2, <1>3, <1>4

(* There is only one remainder.                                            *)
LEMMA OneDivision ==
    ASSUME NEW n \in Nat, n > 0, NEW q \in Nat, NEW k \in Nat,
           NEW r \in 0..(n - 1), NEW s \in 0..(n - 1), n * q + r = n * k + s
    PROVE  q = k /\ r = s
<1>1. CASE q > k
  <2>1. n * q >= n * (k + 1)
    BY <1>1
  <2>. QED
    BY <2>1
<1>2. CASE q < k
  <2>1. n * k >= n * (q + 1)
    BY <1>2
  <2>. QED
    BY <2>1
<1>. QED
  BY <1>1, <1>2

(* The addresses of a sector start at a multiple of the sector size.       *)
LEMMA Multiple ==
    ASSUME NEW a \in Nat
    PROVE  \E k \in Nat : /\ SectorOf(a) = SectorSize * k
                          /\ SectorSize * k <= a /\ a < SectorSize * k + SectorSize
<1>1. SectorSize \in Nat /\ SectorSize > 0
  BY LayoutAssumption
<1>2. PICK k \in Nat, r \in 0..(SectorSize - 1) : r = a % SectorSize /\ a = SectorSize * k + r
  BY <1>1, Division
<1>3. SectorSize * k \in Nat /\ SectorOf(a) = SectorSize * k
  BY <1>1, <1>2 DEF SectorOf
<1>. QED
  BY <1>1, <1>2, <1>3

(* A sector is the interval from its first address.                        *)
LEMMA Sector ==
    ASSUME NEW a \in Nat
    PROVE  /\ SectorOf(a) \in Nat /\ SectorOf(a) <= a /\ a < SectorOf(a) + SectorSize
           /\ \A c \in Nat : SectorOf(a) <= c /\ c < SectorOf(a) + SectorSize => SectorOf(c) = SectorOf(a)
<1>1. PICK k \in Nat : /\ SectorOf(a) = SectorSize * k
                       /\ SectorSize * k <= a /\ a < SectorSize * k + SectorSize
  BY Multiple
<1>2. SectorSize * k \in Nat
  BY LayoutAssumption
<1>3. ASSUME NEW c \in Nat, SectorOf(a) <= c, c < SectorOf(a) + SectorSize
      PROVE  SectorOf(c) = SectorOf(a)
  <2>1. PICK m \in Nat : /\ SectorOf(c) = SectorSize * m
                         /\ SectorSize * m <= c /\ c < SectorSize * m + SectorSize
    BY Multiple
  <2>2. SectorSize * m \in Nat
    BY LayoutAssumption
  <2>3. /\ c - SectorSize * k \in 0..(SectorSize - 1) /\ c - SectorSize * m \in 0..(SectorSize - 1)
        /\ SectorSize * k + (c - SectorSize * k) = SectorSize * m + (c - SectorSize * m)
    BY <1>1, <1>2, <1>3, <2>1, <2>2, LayoutAssumption
  <2>4. k = m
    BY <2>3, LayoutAssumption, OneDivision
  <2>. QED
    BY <1>1, <2>1, <2>4
<1>. QED
  BY <1>1, <1>2, <1>3

(* Sectors are in the order of their addresses and do not overlap.         *)
LEMMA SectorOrder ==
    ASSUME NEW a \in Nat, NEW c \in Nat, a <= c, SectorOf(a) # SectorOf(c)
    PROVE  SectorOf(a) + SectorSize <= SectorOf(c)
<1>1. ~(c < SectorOf(a) + SectorSize)
  BY Sector
<1>2. SectorOf(a) \in Nat /\ SectorOf(c) \in Nat /\ c < SectorOf(c) + SectorSize
      /\ SectorOf(c) <= c /\ SectorOf(a) <= a
  BY Sector
<1>3. CASE SectorOf(c) < SectorOf(a) + SectorSize
  <2>1. CASE SectorOf(a) <= SectorOf(c)
    <3>1. SectorOf(SectorOf(c)) = SectorOf(a)
      BY <1>2, <1>3, <2>1, Sector
    <3>2. SectorOf(SectorOf(c)) = SectorOf(c)
      <4>1. SectorOf(c) <= SectorOf(c) /\ SectorOf(c) < SectorOf(c) + SectorSize
        BY <1>2, LayoutAssumption
      <4>. QED
        BY <1>2, <4>1, Sector
    <3>. QED
      BY <3>1, <3>2
  <2>2. CASE SectorOf(c) < SectorOf(a)
    <3>1. SectorOf(a) <= c /\ c < SectorOf(a) + SectorSize
      BY <1>1, <1>2, <2>2, LayoutAssumption
    <3>. QED
      BY <1>1, <3>1
  <2>. QED
    BY <1>2, <2>1, <2>2
<1>. QED
  BY <1>2, <1>3, LayoutAssumption

(* The banks start at a sector.                                            *)
LEMMA BankStart ==
    ASSUME NEW b \in 1..3
    PROVE  Offset(b) \in Nat /\ SectorOf(Offset(b)) = Offset(b)
<1>1. PICK q \in Nat : BankSize = SectorSize * q
  <2>1. BankSize \in Nat /\ SectorSize \in Nat /\ SectorSize > 0 /\ BankSize % SectorSize = 0
    BY LayoutAssumption
  <2>2. PICK k \in Nat, r \in 0..(SectorSize - 1) :
           r = BankSize % SectorSize /\ BankSize = SectorSize * k + r
    BY <2>1, Division
  <2>3. r = 0 /\ SectorSize * k \in Nat
    BY <2>1, <2>2
  <2>. QED
    BY <2>2, <2>3
<1>2. Offset(b) = SectorSize * (1 + (b - 1) * q)
  <2>1. CASE b = 1
    BY <1>1, <2>1, LayoutAssumption DEF Offset
  <2>2. CASE b = 2
    BY <1>1, <2>2, LayoutAssumption DEF Offset
  <2>3. CASE b = 3
    BY <1>1, <2>3, LayoutAssumption DEF Offset
  <2>. QED
    BY <2>1, <2>2, <2>3
<1>3. 1 + (b - 1) * q \in Nat
  <2>1. b = 1 \/ b = 2 \/ b = 3
    OBVIOUS
  <2>. QED
    BY <1>1, <2>1
<1>4. PICK m \in Nat : m = 1 + (b - 1) * q
  BY <1>3
<1>5. Offset(b) \in Nat
  BY <1>2, <1>4, LayoutAssumption
<1>6. PICK k \in Nat : /\ SectorOf(Offset(b)) = SectorSize * k
                       /\ SectorSize * k <= Offset(b) /\ Offset(b) < SectorSize * k + SectorSize
  BY <1>5, Multiple
<1>7. SectorSize * k \in Nat /\ SectorSize * m \in Nat
  BY LayoutAssumption
<1>8. /\ Offset(b) - SectorSize * k \in 0..(SectorSize - 1) /\ 0 \in 0..(SectorSize - 1)
      /\ SectorSize * m + 0 = SectorSize * k + (Offset(b) - SectorSize * k)
  BY <1>2, <1>4, <1>5, <1>6, <1>7, LayoutAssumption
<1>9. m = k
  <2>1. \A r, s \in 0..(SectorSize - 1) : SectorSize * m + r = SectorSize * k + s => m = k
    BY LayoutAssumption, OneDivision
  <2>. QED
    BY <1>8, <2>1
<1>. QED
  BY <1>2, <1>4, <1>5, <1>6, <1>9

(* The sectors of a bank lie inside the bank.                              *)
LEMMA BankSectors ==
    ASSUME NEW b \in Banks, NEW x \in Offset(b)..(Offset(b) + BankSize - 1)
    PROVE  /\ x \in Nat /\ x >= SectorSize /\ x < Offset(3)
           /\ SectorOf(x) \in Nat /\ SectorOf(x) >= Offset(b) /\ SectorOf(x) <= x
           /\ SectorOf(x) + SectorSize <= Offset(b) + BankSize
<1>1. b \in 1..3 /\ b + 1 \in 1..3 /\ (b = 1 \/ b = 2)
  BY DEF Banks
<1>2. /\ Offset(b) \in Nat /\ SectorOf(Offset(b)) = Offset(b)
      /\ Offset(b + 1) \in Nat /\ SectorOf(Offset(b + 1)) = Offset(b + 1)
  BY <1>1, BankStart
<1>3. /\ Offset(b + 1) = Offset(b) + BankSize /\ Offset(b) >= SectorSize
      /\ Offset(b + 1) <= Offset(3)
  BY <1>1, LayoutAssumption DEF Offset
<1>4. x \in Nat
  BY <1>2, LayoutAssumption
<1>5. SectorOf(x) \in Nat /\ SectorOf(x) <= x
  BY <1>4, Sector
<1>6. SectorOf(x) >= Offset(b)
  BY <1>2, <1>4, <1>5, SectorOrder, LayoutAssumption
<1>7. SectorOf(x) + SectorSize <= Offset(b + 1)
  <2>1. x <= Offset(b + 1) /\ SectorOf(x) # SectorOf(Offset(b + 1))
    BY <1>2, <1>3, <1>4, <1>5, LayoutAssumption
  <2>. QED
    BY <1>2, <1>4, <2>1, SectorOrder
<1>8. x >= SectorSize /\ x < Offset(3)
  <2>1. Offset(3) \in Nat
    BY BankStart
  <2>. QED
    BY <1>2, <1>3, <1>4, <2>1, LayoutAssumption
<1>. QED
  BY <1>3, <1>4, <1>5, <1>6, <1>7, <1>8

(* A bank has a sector at least, and ends before the product header.       *)
LEMMA BankEnds ==
    ASSUME NEW b \in Banks
    PROVE  /\ Offset(b) \in Nat /\ Offset(b) >= SectorSize /\ BankSize >= SectorSize
           /\ Offset(b) + BankSize + SectorSize <= ProductHeader
           /\ \A x \in Offset(b)..(Offset(b) + BankSize) :
                x \in Addresses /\ SectorOf(x) \in Addresses
                /\ SectorOf(x) >= SectorSize /\ SectorOf(x) + SectorSize <= ProductHeader
<1>1. b = 1 \/ b = 2
  BY DEF Banks
<1>2. /\ Offset(b) \in Nat /\ Offset(b) >= SectorSize
      /\ Offset(b) + BankSize + SectorSize <= ProductHeader
      /\ Offset(b) + BankSize = Offset(b + 1) /\ ProductHeader \in Nat
  BY <1>1, LayoutAssumption DEF Offset, ProductHeader
<1>3. BankSize >= SectorSize
  <2>1. Offset(b) \in Offset(b)..(Offset(b) + BankSize - 1)
    BY <1>2, LayoutAssumption
  <2>2. SectorOf(Offset(b)) >= Offset(b) /\ SectorOf(Offset(b)) + SectorSize <= Offset(b) + BankSize
        /\ SectorOf(Offset(b)) \in Nat
    BY <2>1, BankSectors
  <2>. QED
    BY <1>2, <2>2, LayoutAssumption
<1>4. ASSUME NEW x \in Offset(b)..(Offset(b) + BankSize)
      PROVE  x \in Addresses /\ SectorOf(x) \in Addresses
             /\ SectorOf(x) >= SectorSize /\ SectorOf(x) + SectorSize <= ProductHeader
  <2>1. CASE x \in Offset(b)..(Offset(b) + BankSize - 1)
    BY <1>2, <2>1, BankSectors, LayoutAssumption DEF Addresses
  <2>2. CASE x = Offset(b + 1)
    <3>1. SectorOf(x) = x
      BY <1>1, <2>2, BankStart
    <3>. QED
      BY <1>2, <2>2, <3>1, LayoutAssumption DEF Addresses
  <2>. QED
    BY <1>2, <2>1, <2>2, LayoutAssumption
<1>. QED
  BY <1>2, <1>3, <1>4

-----------------------------------------------------------------------------
(* Contents. *)

(* The constructors of contents make what their names say.                *)
LEMMA HeaderFields ==
    ASSUME NEW v \in Versions, NEW i \in Ids, NEW f \in BOOLEAN
    PROVE  /\ Header(v, i, f) \in Headers /\ Header(v, i, f) \in Contents
           /\ Header(v, i, f).ver = v /\ Header(v, i, f).id = i /\ Header(v, i, f).validflag = f
<1>1. Header(v, i, f) \in Headers
  BY Zenon DEF Header, Headers
<1>2. Header(v, i, f).ver = v /\ Header(v, i, f).id = i /\ Header(v, i, f).validflag = f
  BY Zenon DEF Header
<1>. QED
  BY <1>1, <1>2 DEF Contents

(* A unit of code of an image is named by its place in the file.          *)
LEMMA ChunkFields ==
    ASSUME NEW v \in Versions, NEW p \in 0..ImageLen[v]
    PROVE  /\ Chunk(v, p) \in Chunks /\ Chunk(v, p) \in Contents
           /\ Chunk(v, p).ver = v /\ Chunk(v, p).pos = p
  BY ImageAssumption DEF Chunk, Chunks, Contents

(* The flash operations change contents to contents.                       *)
LEMMA FlashTypes ==
    ASSUME NEW fl \in [Addresses -> Contents], NEW a \in Addresses, NEW u \in Contents
    PROVE  /\ Erase(fl, a) \in [Addresses -> Contents]
           /\ Program(fl, a, u) \in [Addresses -> Contents]
           /\ SetFlag(fl, a) \in [Addresses -> Contents]
<1>. USE DEF Contents
<1>1. Erase(fl, a) \in [Addresses -> Contents]
  BY DEF Erase
<1>2. Program(fl, a, u) \in [Addresses -> Contents]
  BY DEF Program, Programmed
<1>3. SetFlag(fl, a) \in [Addresses -> Contents]
  <2>1. CASE fl[a] \in Headers
    <3>1. [fl[a] EXCEPT !.validflag = TRUE] \in Headers
      BY <2>1 DEF Headers
    <3>. QED
      BY <2>1, <3>1 DEF SetFlag
  <2>2. CASE fl[a] \notin Headers
    BY <2>2 DEF SetFlag
  <2>. QED
    BY <2>1, <2>2
<1>. QED
  BY <1>1, <1>2, <1>3

(* What the bootloader makes of the flash is an image or a mark.           *)
LEMMA LoadTypes ==
    ASSUME NEW fl
    PROVE  loadActiveImage(fl) \in Versions \cup {Nothing, Corrupt}
<1>1. \A b \in Banks : IsValid(fl, b) => HeaderOf(fl, b).ver \in Versions
  BY DEF IsValid, Headers
<1>2. ActiveBank(fl) \in Banks /\ 3 - ActiveBank(fl) \in Banks
  BY DEF ActiveBank, findlatest, Banks
<1>3. CASE fl[ProductHeader] # Foreign
  BY <1>3 DEF loadActiveImage
<1>4. CASE fl[ProductHeader] = Foreign
  <2>1. CASE IsValid(fl, 1) /\ IsValid(fl, 2)
    BY <1>1, <1>2, <1>4, <2>1 DEF loadActiveImage, Banks
  <2>2. CASE IsValid(fl, 1) /\ ~IsValid(fl, 2)
    BY <1>1, <1>4, <2>2 DEF loadActiveImage, Banks
  <2>3. CASE ~IsValid(fl, 1) /\ IsValid(fl, 2)
    BY <1>1, <1>4, <2>3 DEF loadActiveImage, Banks
  <2>4. CASE ~IsValid(fl, 1) /\ ~IsValid(fl, 2)
    BY <1>4, <2>4 DEF loadActiveImage
  <2>. QED
    BY <2>1, <2>2, <2>3, <2>4
<1>. QED
  BY <1>3, <1>4

(* What each flash operation does to the unit at x.                        *)
LEMMA CellAfter ==
    ASSUME NEW fl \in [Addresses -> Contents], NEW a \in Addresses, NEW u, NEW x \in Addresses
    PROVE  /\ Erase(fl, a)[x] = IF SectorOf(x) = SectorOf(a) THEN Blank ELSE fl[x]
           /\ Program(fl, a, u)[x] = IF x = a THEN Programmed(fl[a], u) ELSE fl[x]
           /\ x # a => SetFlag(fl, a)[x] = fl[x]
           /\ fl[a] \in Headers => SetFlag(fl, a)[a] = [fl[a] EXCEPT !.validflag = TRUE]
           /\ fl[a] \notin Headers => SetFlag(fl, a)[a] = Spoiled
  BY DEF Erase, Program, SetFlag

(* An address outside of the product header is below or above it.          *)
LEMMA Places ==
    /\ ProductHeader \in Nat /\ ProductHeader \in Addresses /\ Addresses \subseteq Nat
    /\ \A b \in Banks : Offset(b) \in Addresses /\ Offset(b) # ProductHeader /\ 3 - b \in Banks
    /\ Offset(1) # Offset(2)
<1>1. ProductHeader \in Nat
  BY BankStart, LayoutAssumption DEF ProductHeader
<1>2. ASSUME NEW b \in Banks
      PROVE  Offset(b) \in Addresses /\ Offset(b) # ProductHeader /\ 3 - b \in Banks
  <2>1. Offset(b) \in Nat /\ Offset(b) + BankSize + SectorSize <= ProductHeader
    BY BankEnds
  <2>2. Offset(b) < ProductHeader
    BY <1>1, <2>1, LayoutAssumption
  <2>3. 3 - b \in Banks
    BY DEF Banks
  <2>. QED
    BY <1>1, <2>1, <2>2, <2>3, LayoutAssumption DEF Addresses
<1>3. Offset(1) # Offset(2)
  BY LayoutAssumption DEF Offset
<1>. QED
  BY <1>1, <1>2, <1>3, LayoutAssumption DEF Addresses

-----------------------------------------------------------------------------
(* The secondary bootloader. *)

(* The wrap-around of the image id.                                        *)
NextId(i) == IF i = MaxId THEN 0 ELSE i + 1

(* The next id is another id, also where the byte wraps.                   *)
LEMMA NextIds ==
    ASSUME NEW i \in Ids
    PROVE  NextId(i) \in Ids /\ NextId(i) # i /\ NextId(i) = (i + 1) % (MaxId + 1)
<1>1. PICK n \in Nat : n = MaxId + 1 /\ n > 0
  BY IdAssumption
<1>2. PICK a \in Nat : a = i + 1 /\ a <= n
  BY <1>1, IdAssumption DEF Ids
<1>3. PICK k \in Nat, r \in 0..(n - 1) : r = a % n /\ a = n * k + r
  BY <1>1, Division
<1>4. CASE a = n
  <2>0. n * 1 + 0 = n /\ 0 \in 0..(n - 1)
    BY <1>1
  <2>1. n * k + r = n * 1 + 0
    <3>. n * k + r = n
      BY <1>3, <1>4
    <3>. QED
      BY <2>0
  <2>2. r = 0
    BY <1>1, <1>3, <2>0, <2>1, OneDivision
  <2>. QED
    BY <1>1, <1>2, <1>3, <1>4, <2>2, IdAssumption DEF NextId, Ids
<1>5. CASE a # n
  <2>1. a \in 0..(n - 1)
    BY <1>1, <1>2, <1>5
  <2>2. n * k + r = n * 0 + a
    BY <1>1, <1>3
  <2>3. r = a
    <3>1. n > 0 /\ 0 \in Nat
      BY <1>1
    <3>. QED
      BY <1>3, <2>1, <2>2, <3>1, OneDivision
  <2>. QED
    BY <1>1, <1>2, <1>3, <1>5, <2>3, IdAssumption DEF NextId, Ids
<1>. QED
  BY <1>4, <1>5

(* An image with the next id is the latest one.                            *)
LEMMA NextIsLatest ==
    ASSUME NEW i \in Ids
    PROVE  findlatest(i, NextId(i)) = 2 /\ findlatest(NextId(i), i) = 1
  BY IdAssumption DEF findlatest, NextId, Ids

(* A valid header names an image and an id.                                *)
LEMMA ValidHeader ==
    ASSUME NEW fl, NEW b \in Banks, IsValid(fl, b)
    PROVE  HeaderOf(fl, b).ver \in Versions /\ HeaderOf(fl, b).id \in Ids
  BY DEF IsValid, Headers

(* A single valid image, if it is intact, is the one that runs.            *)
LEMMA SingleImageBoots ==
    ASSUME NEW fl, NEW b \in Banks, fl[ProductHeader] = Foreign,
           IsValid(fl, b), ~IsValid(fl, 3 - b), CrcMatches(fl, b)
    PROVE  loadActiveImage(fl) = HeaderOf(fl, b).ver
<1>1. CASE b = 1
  BY <1>1 DEF loadActiveImage
<1>2. CASE b = 2
  BY <1>2 DEF loadActiveImage
<1>. QED
  BY <1>1, <1>2 DEF Banks

(* Of two valid images the latest one runs, if it is intact.               *)
LEMMA LatestImageBoots ==
    ASSUME NEW fl, fl[ProductHeader] = Foreign, IsValid(fl, 1), IsValid(fl, 2),
           CrcMatches(fl, ActiveBank(fl))
    PROVE  loadActiveImage(fl) = HeaderOf(fl, ActiveBank(fl)).ver
  BY Zenon DEF loadActiveImage

(* The bootloader compares two ids and picks a bank.                       *)
LEMMA ActiveBankIsABank ==
    ASSUME NEW fl
    PROVE  ActiveBank(fl) \in Banks
  BY DEF ActiveBank, findlatest, Banks

(* With every valid image intact, and one there, an image runs.            *)
LEMMA SomeImageBoots ==
    ASSUME NEW fl, fl[ProductHeader] = Foreign, \E b \in Banks : IsValid(fl, b),
           \A b \in Banks : IsValid(fl, b) => CrcMatches(fl, b)
    PROVE  loadActiveImage(fl) \in Versions
<1>1. CASE IsValid(fl, 1) /\ IsValid(fl, 2)
  <2>1. ActiveBank(fl) \in Banks /\ IsValid(fl, ActiveBank(fl))
    BY <1>1, ActiveBankIsABank DEF Banks
  <2>2. loadActiveImage(fl) = HeaderOf(fl, ActiveBank(fl)).ver
    BY <1>1, <2>1, LatestImageBoots
  <2>. QED
    BY <2>1, <2>2, ValidHeader
<1>2. CASE \E b \in Banks : IsValid(fl, b) /\ ~IsValid(fl, 3 - b)
  BY <1>2, SingleImageBoots, ValidHeader
<1>. QED
  BY <1>1, <1>2 DEF Banks
=============================================================================
