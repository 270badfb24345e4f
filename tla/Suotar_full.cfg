SPECIFICATION Spec
CONSTANTS
    imgA = imgA
    imgB = imgB
    Versions = {imgA, imgB}
    ImageLen <- FullImages
    SectorSize = 2
    BankSize = 4
    MaxId = 2
    PdSize = 2
    FactoryImages <- OneImage
    InitiatorHabits = {}
    FlashFaults = {}
    Blank = Blank
    Foreign = Foreign
    Spoiled = Spoiled
    Nothing = Nothing
    Corrupt = Corrupt
INVARIANT AlwaysBootable
