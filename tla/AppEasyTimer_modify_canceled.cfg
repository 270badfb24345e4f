SPECIFICATION Spec
CONSTANTS
    NumTimers = 1
    Callbacks = {f}
    MaxDelay = 2
    MaxQueue = 3
    AppHabits = {"modify_canceled"}
    NULL = NULL
    Canceled = Canceled
    Modified = Modified
    NoTimer = NoTimer
    Off = Off
    Uninit = Uninit
INVARIANT CanceledSlotWillBeFreed
