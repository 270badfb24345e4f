SPECIFICATION Spec
VIEW LiveState
CONSTANTS
    NumSlots = 2
    MaxNesting = 2
    FlashQuirks = {}
    Unreadable = Unreadable
    Peers = {1, 2, 3}
    IrksOf <- FaithfulPhones
    Private = {2}
    Legacy = {3}
    RalSize = 2
    PrivacyModes = {TRUE, FALSE}
    MaxPairings = 3
    LinkQuirks = {}
INVARIANTS
    TypeOK
    StoredAtRest
    PairingFlagAgrees
    BondedIdentityIsListed
PROPERTIES
    RightKeyIsGiven
    BondedPeerIsServed
    ImplementsBondTable
