SPECIFICATION FairSpec
CONSTANTS
    NumSlots = 2
    MaxNesting = 1
    FlashQuirks = {}
    Unreadable = Unreadable
    Peers = {1, 2}
    IrksOf <- PlainAndPhone
    Private = {2}
    Legacy = {}
    RalSize = 2
    PrivacyModes = {TRUE}
    MaxPairings = 2
    LinkQuirks = {}
PROPERTIES
    RalSyncEnds
