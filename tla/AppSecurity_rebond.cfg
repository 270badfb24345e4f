SPECIFICATION Spec
CONSTANTS
    NumSlots = 2
    MaxNesting = 1
    FlashQuirks = {}
    Unreadable = Unreadable
    Peers = {1}
    IrksOf <- ResetPhone
    Private = {}
    Legacy = {}
    RalSize = 1
    PrivacyModes = {FALSE}
    MaxPairings = 2
    LinkQuirks = {}
PROPERTIES
    RightKeyIsGiven
