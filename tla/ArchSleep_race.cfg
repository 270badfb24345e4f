SPECIFICATION Spec
CONSTANTS
    led = led
    pwm = pwm
    Users = {led, pwm}
    Console = Console
    CntSize = 4
    BufSize = 2
    MaxList = 2
    AppHabits = {"force_while_printing"}
    NoOp = NoOp
INVARIANT NothingPending
