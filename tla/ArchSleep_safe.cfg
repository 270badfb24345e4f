SPECIFICATION FairSpec
CONSTANTS
    led = led
    pwm = pwm
    Users = {led, pwm}
    Console = Console
    CntSize = 4
    BufSize = 3
    MaxList = 3
    AppHabits = {}
    NoOp = NoOp
INVARIANTS TypeOK NoMessageIsLeftBehind NothingPending OnlyLateTextsAreLost
PROPERTIES AwakeWhileHeld ModeIsTheOneAskedFor MessagesGoOut
