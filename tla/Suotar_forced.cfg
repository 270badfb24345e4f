SPECIFICATION Spec
CONSTANTS
    imgA = imgA
    imgB = imgB
    Versions = {imgA, imgB}
    ImageLen <- TinyPair
    SectorSize = 2
    BankSize = 4
    MaxId = 3
    PdSize = 1
    FactoryImages <- EitherImage
    InitiatorHabits = {"force_bank", "stray"}
    FlashFaults = {"erase"}
    Blank = Blank
    Foreign = Foreign
    Spoiled = Spoiled
    Nothing = Nothing
    Corrupt = Corrupt
INVARIANT IdsAreConsecutive
INVARIANT OutsideBanksUntouched
SYMMETRY Interchangeable
