----------------------------- MODULE ArchSleep -----------------------------
(***************************************************************************)
(* The sleep mode of the system (platform/arch/main/arch_sleep.c), its two *)
(* kinds of users, and the main loop that puts the system to sleep         *)
(* (arch_main.c, rwip.c).  Parts of the application hold the system in     *)
(* active mode from the main loop; the console (arch_console.c) holds it   *)
(* while messages go out and lets go in the UART interrupt, which can come *)
(* between any two accesses the main loop makes to the shared variables.   *)
(***************************************************************************)
EXTENDS Integers, FiniteSets

CONSTANTS
    Users,      \* the parts of the application that force active mode
    Console,    \* the holder that stands for the console
    CntSize,    \* the values sleep_cnt can take (256, a uint8_t)
    BufSize,    \* texts that fit current_msg_buffer
    MaxList,    \* bound: the longest printf_msg_list in which the app prints
    AppHabits,  \* what the application does while the console prints, see below
    NoOp        \* no call of arch_sleep.c in progress in the main loop

(* "force_while_printing"  force active mode or restore                    *)
(* "set_while_printing"    set the sleep mode, against the note on         *)
(*                         uart_callback in arch_console.c                 *)
Habits == {"force_while_printing", "set_while_printing"}

ASSUME UsersAssumption == IsFiniteSet(Users) /\ Console \notin Users
ASSUME CntAssumption   == CntSize \in Nat /\ Cardinality(Users) + 1 < CntSize
ASSUME BoundAssumption == BufSize \in Nat \ {0} /\ MaxList \in Nat
ASSUME HabitAssumption == AppHabits \subseteq Habits

(* sleep_state_t: off, extended, extended with OTP copy. *)
ARCH_SLEEP_OFF == 0
Modes   == 0..2
Holders == Users \cup {Console}
NoPend  == -1

VARIABLES
    slp_state,      \* sleep_env.slp_state
    sleep_enable,   \* rwip_env.sleep_enable
    sleep_md,       \* 0, or 1 + the mode saved by arch_force_active_mode
    sleep_pend,     \* NoPend, or the mode asked for while active mode is forced
    sleep_cnt,      \* how many forced active mode
    holding,        \* history: who forced active mode and did not restore it
    op,             \* the call of arch_sleep.c the main loop is in, or NoOp
    buffered,       \* texts in current_msg_buffer (current_msg_offset)
    late,           \* history: those of them printed since arch_printf_process
    lost,           \* those of them that a sleep did not retain
    listed,         \* length of printf_msg_list
    defer_sending, uart_busy,
    sending,        \* the UART is transmitting the head of printf_msg_list
    ble_on,         \* ble_is_powered()
    pc              \* where main() is

sleepVars   == <<slp_state, sleep_enable, sleep_md, sleep_pend, sleep_cnt, holding>>
bufferVars  == <<buffered, late, lost>>
consoleVars == <<bufferVars, listed, defer_sending, uart_busy, sending>>
vars        == <<sleepVars, consoleVars, op, ble_on, pc>>

Cnt == 0..(CntSize - 1)

Calls ==
    [name : {"force", "restore"}, user : Users, step : {"load", "store", "act"}, cnt : Cnt]
    \cup [name : {"set"}, mode : Modes]

ASSUME NoOpAssumption == NoOp \notin Calls

TypeOK ==
    /\ slp_state \in Modes
    /\ sleep_enable \in BOOLEAN
    /\ sleep_md \in 0..3
    /\ sleep_pend \in Modes \cup {NoPend}
    /\ sleep_cnt \in Cnt
    /\ holding \subseteq Holders
    /\ op \in Calls \cup {NoOp}
    /\ buffered \in 0..BufSize /\ late \in 0..BufSize /\ lost \in 0..BufSize
    /\ listed \in Nat
    /\ defer_sending \in BOOLEAN /\ uart_busy \in BOOLEAN /\ sending \in BOOLEAN
    /\ ble_on \in BOOLEAN
    /\ pc \in {"ble", "process", "sent", "app", "sleep", "asleep"}

(* The application has set its default mode and nobody has printed yet. *)
Init ==
    /\ slp_state \in Modes
    /\ sleep_enable = (slp_state # ARCH_SLEEP_OFF)
    /\ sleep_md = 0 /\ sleep_pend = NoPend /\ sleep_cnt = 0 /\ holding = {}
    /\ op = NoOp
    /\ buffered = 0 /\ late = 0 /\ lost = 0 /\ listed = 0
    /\ defer_sending = FALSE /\ uart_busy = FALSE /\ sending = FALSE
    /\ ble_on = TRUE /\ pc = "ble"

-----------------------------------------------------------------------------
(* arch_sleep.c *)

(* arch_disable_sleep and arch_set_extended_sleep, nobody forcing active mode. *)
Apply(m) ==
    /\ slp_state' = m
    /\ sleep_enable' = (m # ARCH_SLEEP_OFF)

(* arch_force_active_mode after the count: save the mode unless one is saved. *)
SaveMode ==
    IF sleep_md = 0
    THEN Apply(ARCH_SLEEP_OFF) /\ sleep_md' = slp_state + 1
    ELSE UNCHANGED <<slp_state, sleep_enable, sleep_md>>

(* Mutant: the saved mode wins over the one asked for since. *)
RestoreMode_saved ==
    LET mode == IF sleep_md # 0 THEN sleep_md - 1 ELSE 0
    IN /\ sleep_md' = 0
       /\ sleep_pend' = NoPend
       /\ IF mode = 0 THEN UNCHANGED <<slp_state, sleep_enable>> ELSE Apply(mode)

(* arch_restore_sleep_mode after the count has dropped to 0.  The modes 1  *)
(* and 2 are put into effect, 0 leaves sleep off.                          *)
RestoreMode ==
    LET mode == IF sleep_pend # NoPend THEN sleep_pend
                ELSE IF sleep_md # 0 THEN sleep_md - 1 ELSE 0
    IN /\ sleep_md' = 0
       /\ sleep_pend' = NoPend
       /\ IF mode = 0 THEN UNCHANGED <<slp_state, sleep_enable>> ELSE Apply(mode)

(* The whole of arch_force_active_mode and of arch_restore_sleep_mode, as  *)
(* the console calls them: nothing interrupts the UART interrupt, and no   *)
(* transfer is in flight when arch_printf_process forces active mode.      *)
arch_force_active_mode ==
    /\ sleep_cnt' = (sleep_cnt + 1) % CntSize
    /\ SaveMode
    /\ UNCHANGED sleep_pend

arch_restore_sleep_mode ==
    LET cnt == IF sleep_cnt > 0 THEN sleep_cnt - 1 ELSE 0
    IN /\ sleep_cnt' = cnt
       /\ IF cnt > 0
          THEN UNCHANGED <<slp_state, sleep_enable, sleep_md, sleep_pend>>
          ELSE RestoreMode

-----------------------------------------------------------------------------
(* The application's calls, in the callbacks of the main loop.  Each reads *)
(* and writes the shared variables one at a time.                          *)

AppRuns == op = NoOp /\ (pc = "app" \/ (pc = "ble" /\ ble_on))

(* All that was printed has gone out. *)
ConsoleIdle == buffered = 0 /\ listed = 0

MayCall(habit) == AppRuns /\ (ConsoleIdle \/ habit \in AppHabits)

(* The app forces active mode and restores it alternately, as with its own *)
(* flag custs1_pwm_enabled.                                                *)
call_force(u) ==
    /\ MayCall("force_while_printing")
    /\ u \notin holding
    /\ op' = [name |-> "force", user |-> u, step |-> "load", cnt |-> 0]
    /\ UNCHANGED <<sleepVars, consoleVars, ble_on, pc>>

call_restore(u) ==
    /\ MayCall("force_while_printing")
    /\ u \in holding
    /\ op' = [name |-> "restore", user |-> u, step |-> "load", cnt |-> 0]
    /\ UNCHANGED <<sleepVars, consoleVars, ble_on, pc>>

Counting(step) == op # NoOp /\ op.name # "set" /\ op.step = step

(* sleep_cnt++ or sleep_cnt--: load. *)
load_cnt ==
    /\ Counting("load")
    /\ op' = [op EXCEPT !.cnt = sleep_cnt,
                        !.step = IF op.name = "restore" /\ sleep_cnt = 0 THEN "act" ELSE "store"]
    /\ UNCHANGED <<sleepVars, consoleVars, ble_on, pc>>

(* sleep_cnt++ or sleep_cnt--: store. *)
store_cnt ==
    /\ Counting("store")
    /\ sleep_cnt' = IF op.name = "force" THEN (op.cnt + 1) % CntSize ELSE op.cnt - 1
    /\ op' = [op EXCEPT !.step = "act"]
    /\ UNCHANGED <<slp_state, sleep_enable, sleep_md, sleep_pend, holding, consoleVars, ble_on, pc>>

(* Mutant: the restore does not wait for the others. *)
finish_restore_at_once ==
    /\ Counting("act") /\ op.name = "restore"
    /\ RestoreMode
    /\ holding' = holding \ {op.user}
    /\ op' = NoOp
    /\ UNCHANGED <<sleep_cnt, consoleVars, ble_on, pc>>

(* The rest of each function.  It tests sleep_md or sleep_cnt first; where *)
(* it goes on to write, active mode is not forced by the console, so no    *)
(* UART interrupt comes in between.                                        *)
finish_force ==
    /\ Counting("act") /\ op.name = "force"
    /\ SaveMode
    /\ holding' = holding \cup {op.user}
    /\ op' = NoOp
    /\ UNCHANGED <<sleep_pend, sleep_cnt, consoleVars, ble_on, pc>>

finish_restore ==
    /\ Counting("act") /\ op.name = "restore"
    /\ IF sleep_cnt > 0
       THEN UNCHANGED <<slp_state, sleep_enable, sleep_md, sleep_pend>>
       ELSE RestoreMode
    /\ holding' = holding \ {op.user}
    /\ op' = NoOp
    /\ UNCHANGED <<sleep_cnt, consoleVars, ble_on, pc>>

(* arch_set_sleep_mode: applied at once when active mode is not forced, ... *)
arch_set_sleep_mode(m) ==
    /\ MayCall("set_while_printing")
    /\ sleep_md = 0
    /\ Apply(m)
    /\ UNCHANGED <<sleep_md, sleep_pend, sleep_cnt, holding, op, consoleVars, ble_on, pc>>

(* ... and left pending when it is: first sleep_md is tested, ...          *)
call_set(m) ==
    /\ MayCall("set_while_printing")
    /\ sleep_md # 0
    /\ op' = [name |-> "set", mode |-> m]
    /\ UNCHANGED <<sleepVars, consoleVars, ble_on, pc>>

(* ... then sleep_pend written. *)
store_pend ==
    /\ op # NoOp /\ op.name = "set"
    /\ sleep_pend' = op.mode
    /\ op' = NoOp
    /\ UNCHANGED <<slp_state, sleep_enable, sleep_md, sleep_cnt, holding, consoleVars, ble_on, pc>>

-----------------------------------------------------------------------------
(* arch_console.c *)

(* Mutant: sending is deferred whatever is in the list. *)
arch_printf_flush_defers ==
    /\ listed' = listed + 1
    /\ defer_sending' = TRUE

(* Mutant: the list is tested after the message was put into it. *)
arch_printf_flush_tests_late ==
    /\ listed' = listed + 1
    /\ defer_sending' = IF listed' = 0 THEN TRUE ELSE defer_sending

(* arch_printf_flush, a critical section: the buffer becomes a message. *)
arch_printf_flush ==
    /\ listed' = listed + 1
    /\ defer_sending' = IF listed = 0 THEN TRUE ELSE defer_sending

(* A text of a callback of the scheduler is submitted in the same round of *)
(* the main loop; one that app_asynch_proc prints is late for it.          *)
Late == IF pc = "app" THEN 1 ELSE 0

(* arch_vprintf: append a text, flushing first when it does not fit. *)
arch_vprintf ==
    /\ AppRuns
    /\ listed < MaxList
    /\ IF buffered = BufSize
       THEN arch_printf_flush /\ buffered' = 1 /\ late' = Late /\ lost' = 0
       ELSE /\ buffered' = buffered + 1 /\ late' = late + Late
            /\ UNCHANGED <<lost, listed, defer_sending>>
    /\ UNCHANGED <<sleepVars, uart_busy, sending, op, ble_on, pc>>

(* Mutant: only a full buffer is submitted. *)
submit_full ==
    /\ pc = "ble" /\ ble_on /\ op = NoOp
    /\ IF buffered = BufSize
       THEN arch_printf_flush /\ buffered' = 0 /\ late' = 0 /\ lost' = 0
       ELSE UNCHANGED <<bufferVars, listed, defer_sending>>
    /\ pc' = "process"
    /\ UNCHANGED <<sleepVars, uart_busy, sending, op, ble_on>>

(* arch_printf_process starts when app_asynch_trm lets the system sleep: *)
(* it submits what is in the buffer, ...                                 *)
submit ==
    /\ pc = "ble" /\ ble_on /\ op = NoOp
    /\ IF buffered > 0
       THEN arch_printf_flush /\ buffered' = 0 /\ late' = 0 /\ lost' = 0
       ELSE UNCHANGED <<bufferVars, listed, defer_sending>>
    /\ pc' = "process"
    /\ UNCHANGED <<sleepVars, uart_busy, sending, op, ble_on>>

(* ... and if sending was deferred forces active mode and starts the UART; *)
arch_printf_process ==
    /\ pc = "process" /\ defer_sending
    /\ arch_force_active_mode
    /\ holding' = holding \cup {Console}
    /\ IF uart_busy THEN pc' = "app" /\ UNCHANGED sending
                    ELSE pc' = "sent" /\ sending' = TRUE
    /\ UNCHANGED <<bufferVars, listed, defer_sending, uart_busy, op, ble_on>>

(* the UART may be done before the flag is cleared. *)
clear_defer ==
    /\ pc = "sent"
    /\ defer_sending' = FALSE
    /\ pc' = "app"
    /\ UNCHANGED <<sleepVars, bufferVars, listed, uart_busy, sending, op, ble_on>>

nothing_to_send ==
    /\ pc = "process" /\ ~defer_sending
    /\ pc' = "app"
    /\ UNCHANGED <<sleepVars, consoleVars, op, ble_on>>

InterruptsOn == pc \notin {"sleep", "asleep"}

(* Mutant: the next message is sent whether there is one or not. *)
uart_callback_unchecked ==
    /\ InterruptsOn
    /\ sending
    /\ listed' = listed - 1
    /\ UNCHANGED <<uart_busy, sending, sleepVars, bufferVars, defer_sending, op, ble_on, pc>>

(* Mutant: the next message is marked busy but not sent. *)
uart_callback_forgets ==
    /\ InterruptsOn
    /\ sending
    /\ listed' = listed - 1
    /\ uart_busy' = (listed > 1)
    /\ sending' = FALSE
    /\ IF listed > 1
       THEN UNCHANGED sleepVars
       ELSE arch_restore_sleep_mode /\ holding' = holding \ {Console}
    /\ UNCHANGED <<bufferVars, defer_sending, op, ble_on, pc>>

(* The UART interrupt: the head is out; send the next message, or restore *)
(* the sleep mode when there is none.                                     *)
uart_callback ==
    /\ InterruptsOn
    /\ sending
    /\ listed' = listed - 1
    /\ IF listed > 1
       THEN uart_busy' = TRUE /\ sending' = TRUE /\ UNCHANGED sleepVars
       ELSE /\ uart_busy' = FALSE /\ sending' = FALSE
            /\ arch_restore_sleep_mode
            /\ holding' = holding \ {Console}
    /\ UNCHANGED <<bufferVars, defer_sending, op, ble_on, pc>>

-----------------------------------------------------------------------------
(* main() *)

(* schedule_while_ble_on finds the BLE core asleep. *)
ble_is_off ==
    /\ pc = "ble" /\ ~ble_on
    /\ pc' = "app"
    /\ UNCHANGED <<sleepVars, consoleVars, op, ble_on>>

(* app_asynch_proc: the application keeps the system powered or lets it   *)
(* go to sleep, with the interrupts off.                                  *)
app_asynch_proc ==
    /\ pc = "app" /\ op = NoOp
    /\ pc' \in {"ble", "sleep"}
    /\ UNCHANGED <<sleepVars, consoleVars, op, ble_on>>

(* rwip_power_down finds sleep disabled, or a reason not to sleep now. *)
stay_awake ==
    /\ pc = "sleep"
    /\ pc' = "ble"
    /\ UNCHANGED <<sleepVars, consoleVars, op, ble_on>>

(* rwip_sleep programs the deep sleep of the BLE core; the radio is not   *)
(* down yet and the processor only idles.                                 *)
ble_to_sleep ==
    /\ pc = "sleep" /\ sleep_enable /\ ble_on
    /\ ble_on' = FALSE
    /\ pc' = "ble"
    /\ UNCHANGED <<sleepVars, consoleVars, op>>

(* rwip_sleep finds the radio down: extended sleep.  current_msg_buffer is *)
(* not in the retained RAM and what is in it is lost, unless its block is  *)
(* retained for another reason; current_msg_offset is kept.                *)
arch_goto_sleep ==
    /\ pc = "sleep" /\ sleep_enable /\ ~ble_on
    /\ pc' = "asleep"
    /\ lost' \in {lost, buffered}
    /\ UNCHANGED <<sleepVars, buffered, late, listed, defer_sending, uart_busy, sending>>
    /\ UNCHANGED <<op, ble_on>>

(* Another interrupt than that of the BLE core ends the sleep. *)
arch_resume_from_sleep ==
    /\ pc = "asleep"
    /\ pc' = "ble"
    /\ UNCHANGED <<sleepVars, consoleVars, op, ble_on>>

(* BLE_WAKEUP_LP_Handler: the BLE core wakes, at the latest when its sleep *)
(* duration is over, and with it the system.                               *)
ble_wakes ==
    /\ ~ble_on
    /\ pc # "sleep"
    /\ ble_on' = TRUE
    /\ pc' = IF pc = "asleep" THEN "ble" ELSE pc
    /\ UNCHANGED <<sleepVars, consoleVars, op>>

AppCalls ==
    \/ \E u \in Users : call_force(u) \/ call_restore(u)
    \/ \E m \in Modes : arch_set_sleep_mode(m) \/ call_set(m)
    \/ arch_vprintf

CallSteps == load_cnt \/ store_cnt \/ finish_force \/ finish_restore \/ store_pend

ConsoleSteps == submit \/ arch_printf_process \/ clear_defer \/ nothing_to_send

LoopSteps ==
    ble_is_off \/ app_asynch_proc \/ stay_awake \/ ble_to_sleep \/ arch_goto_sleep
    \/ arch_resume_from_sleep

Next == AppCalls \/ CallSteps \/ ConsoleSteps \/ uart_callback \/ LoopSteps \/ ble_wakes

Spec == Init /\ [][Next]_vars

(* A call in progress goes on, the loop goes round, and the UART finishes  *)
(* a transfer.  The application's callbacks do not ask to be called again  *)
(* for ever, and the BLE core, whose sleep duration is bounded, does not   *)
(* wake each time in the moment between the test of schedule_while_ble_on  *)
(* and the sleep.                                                          *)
Fairness ==
    /\ WF_vars(CallSteps) /\ WF_vars(uart_callback)
    /\ WF_vars(arch_printf_process \/ clear_defer \/ nothing_to_send)
    /\ WF_vars(ble_is_off \/ stay_awake \/ ble_to_sleep \/ arch_goto_sleep)
    /\ SF_vars(app_asynch_proc) /\ SF_vars(submit)
    /\ SF_vars(ble_wakes /\ pc \in {"ble", "asleep"})

FairSpec == Spec /\ Fairness

-----------------------------------------------------------------------------
(* Properties *)

(* Neither the system nor the BLE core goes to sleep while the UART sends  *)
(* or somebody holds active mode (arch_main.c, rwip_power_down; rwip.c,    *)
(* rwip_sleep; the interrupt that ends a transfer would be lost).          *)
FallsAsleep == pc # "asleep" /\ pc' = "asleep"
BleFallsAsleep == ble_on /\ ~ble_on'

AwakeWhileHeld ==
    [][FallsAsleep \/ BleFallsAsleep => ~sending /\ holding = {}]_vars

(* A message in the list is being sent or sending it is deferred to the    *)
(* next arch_printf_process: it is never left behind (arch_console.c,      *)
(* arch_printf_flush against uart_callback).                               *)
NoMessageIsLeftBehind ==
    listed > 0 => sending \/ defer_sending

(* When nobody holds active mode and no call is in progress, no mode is    *)
(* left saved or pending for a restore that nobody will make, and the      *)
(* count is back at 0 (arch_sleep.c, arch_restore_sleep_mode).             *)
NothingPending ==
    op = NoOp /\ holding = {} => sleep_md = 0 /\ sleep_pend = NoPend /\ sleep_cnt = 0

(* The sleep control does what SleepRequests says. *)
Requested ==
    IF sleep_pend # NoPend THEN sleep_pend
    ELSE IF sleep_md # 0 THEN sleep_md - 1
    ELSE slp_state

Requests == INSTANCE SleepRequests WITH
    SleepOff <- ARCH_SLEEP_OFF, requested <- Requested, mode <- slp_state

ModeIsTheOneAskedFor == Requests!Spec

(* A sleep loses no text of a callback of the scheduler, although the      *)
(* buffer is not retained: of the texts in it, those lost were printed     *)
(* after arch_printf_process (arch_console.c, current_msg_buffer).         *)
OnlyLateTextsAreLost == lost <= late

(* The UART takes up the messages of the list, the first from the main     *)
(* loop and the next ones from the interrupt of the one before.            *)
MessagesGoOut == listed > 0 ~> sending
=============================================================================
