----------------------------- MODULE UpdateFlash -----------------------------
(***************************************************************************)
(* The external SPI flash that holds two firmware images, and the choice   *)
(* the secondary bootloader makes between them (bootloader.c).  The flash  *)
(* is counted in units: an image header is one unit, a sector is           *)
(* SectorSize units.  Sector 0 belongs to the product, then come the two   *)
(* banks, an unused sector and the product header.                         *)
(***************************************************************************)
EXTENDS Integers

CONSTANTS
    Versions,     \* the images that exist: version string and timestamp
    ImageLen,     \* version -> length of header and code, in units
    SectorSize,   \* SPI_FLASH_SECTOR_SIZE
    BankSize,     \* offset2 - offset1 of the product header
    MaxId,        \* 0xFF, the largest image id
    Blank, Foreign, Spoiled,  \* erased unit, other data, mixed bits
    Nothing, Corrupt          \* no image to boot, an image that fails its CRC

Ids   == 0..MaxId
Banks == 1..2

ASSUME LayoutAssumption ==
    /\ SectorSize \in Nat /\ SectorSize >= 2
    /\ BankSize \in Nat /\ BankSize > 0 /\ BankSize % SectorSize = 0
ASSUME ImageAssumption == ImageLen \in [Versions -> Nat \ {0, 1}]
ASSUME IdAssumption == MaxId \in Nat /\ MaxId >= 2

Offset(b)     == SectorSize + (b - 1) * BankSize
ProductHeader == Offset(3) + SectorSize
Addresses     == 0..(ProductHeader + SectorSize - 1)
SectorOf(a)   == a - (a % SectorSize)

(* What a unit can hold: an image header, which names the version and so   *)
(* the code size and CRC, or the unit of code at pos of a version.         *)
Header(v, i, valid) == [ver |-> v, id |-> i, validflag |-> valid]
Chunk(v, p)         == [ver |-> v, pos |-> p]

Headers  == [ver : Versions, id : Ids, validflag : BOOLEAN]
Chunks   == {c \in [ver : Versions, pos : Nat] : c.pos <= ImageLen[c.ver]}
Contents == Headers \cup Chunks \cup {Blank, Foreign, Spoiled}

(* Marks are told from each other and from what images are made of.        *)
ASSUME MarkAssumption ==
    /\ Blank \notin Headers \cup Chunks \cup {Foreign, Spoiled}
    /\ Foreign \notin Headers \cup Chunks /\ Spoiled \notin Headers
    /\ Nothing \notin Versions /\ Corrupt \notin Versions

(* Programming only clears bits: a unit that is not erased is spoiled      *)
(* unless it already holds what is written.                                *)
Programmed(old, new) == IF old = Blank \/ old = new THEN new ELSE Spoiled

Erase(fl, a) == [x \in Addresses |-> IF SectorOf(x) = SectorOf(a) THEN Blank ELSE fl[x]]
Program(fl, a, new) == [fl EXCEPT ![a] = Programmed(fl[a], new)]

(* One byte of a header, on the place of its erased valid flag. *)
SetFlag(fl, a) ==
    [fl EXCEPT ![a] = IF fl[a] \in Headers THEN [fl[a] EXCEPT !.validflag = TRUE]
                      ELSE Spoiled]

HeaderOf(fl, b) == fl[Offset(b)]

(* Valid for the receiver and the bootloader: signature and valid flag. *)
IsValid(fl, b) == HeaderOf(fl, b) \in Headers /\ HeaderOf(fl, b).validflag

(* The code of the bank matches the CRC32 of its header. *)
CrcMatches(fl, b) ==
    LET v == HeaderOf(fl, b).ver
    IN  \A p \in 1..(ImageLen[v] - 1) :
           Offset(b) + p \in Addresses /\ fl[Offset(b) + p] = Chunk(v, p)

-----------------------------------------------------------------------------
(* The secondary bootloader. *)

(* Mutant: the wrap-around of the image id is forgotten. *)
findlatest_no_wrap(id1, id2) == IF id1 >= id2 THEN 1 ELSE 2

findlatest(id1, id2) ==
    CASE id1 = MaxId /\ id2 = 0 -> 2
      [] id2 = MaxId /\ id1 = 0 -> 1
      [] OTHER -> IF id1 >= id2 THEN 1 ELSE 2

ActiveBank(fl) == findlatest(HeaderOf(fl, 1).id, HeaderOf(fl, 2).id)

(* What runs after a reset.  The CRC decides between two valid images; of  *)
(* a single one it is computed, but a mismatch does not stop the boot, and *)
(* with no valid image the function reports success with nothing loaded.   *)
loadActiveImage(fl) ==
    LET Image(b) == HeaderOf(fl, b).ver
        active   == ActiveBank(fl)
        other    == 3 - active
    IN  IF fl[ProductHeader] # Foreign THEN Nothing
        ELSE CASE IsValid(fl, 1) /\ IsValid(fl, 2) ->
                    IF CrcMatches(fl, active) THEN Image(active)
                    ELSE IF CrcMatches(fl, other) THEN Image(other) ELSE Nothing
               [] IsValid(fl, 1) /\ ~IsValid(fl, 2) ->
                    IF CrcMatches(fl, 1) THEN Image(1) ELSE Corrupt
               [] ~IsValid(fl, 1) /\ IsValid(fl, 2) ->
                    IF CrcMatches(fl, 2) THEN Image(2) ELSE Corrupt
               [] OTHER -> Corrupt
=============================================================================
