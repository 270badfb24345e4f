SPECIFICATION Spec
CONSTANTS
    imgA = imgA
    imgB = imgB
    Versions = {imgA, imgB}
    ImageLen <- EqualImages
    SectorSize = 2
    BankSize = 4
    MaxId = 2
    PdSize = 2
    FactoryImages <- OneImage
    InitiatorHabits = {}
    FlashFaults = {"read", "write"}
    Blank = Blank
    Foreign = Foreign
    Spoiled = Spoiled
    Nothing = Nothing
    Corrupt = Corrupt
INVARIANTS
    TypeOK
    AlwaysBootable
    FlaggedImageIsIntact
    AcknowledgedIsWritten
PROPERTIES
    CompletedImageBoots
    UpdateIsAtomic
