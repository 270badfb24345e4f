SPECIFICATION FairSpec
CONSTANTS
    NumTimers = 2
    Callbacks = {f, g}
    MaxDelay = 2
    MaxQueue = 6
    AppHabits = {}
    NULL = NULL
    Canceled = Canceled
    Modified = Modified
    NoTimer = NoTimer
    Off = Off
    Uninit = Uninit
INVARIANTS
    TypeOK
    FreeSlotIsClean
    CanceledSlotWillBeFreed
    LiveTimerIsArmedOnce
    IInv
PROPERTIES
    CallbackOnlyWhenDue
    ImplementsOneShot
    DueTimerIsServed
    CanceledSlotIsReused
