SPECIFICATION FairSpec
CONSTANTS
    Handles = {1, 2}
    Period = 3
    NumMessages = 2
    MaxQueue = 6
    ButtonQuirks = {}
    NULL = NULL
    NoTimer = NoTimer
    app_wakeup_cb = app_wakeup_cb
INVARIANTS
    TypeOK
    SleepIsLeft
    WakeupIsBound
    DormantIsQuiet
    AdvTimerIsHeld
    HostAndTaskAgree
PROPERTIES
    ImplementsBeacon
    AdvertisingEnds
    AdvertisesAgain
