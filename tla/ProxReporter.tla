---------------------------- MODULE ProxReporter ----------------------------
(***************************************************************************)
(* The advertising of the proximity reporter: advertising with a timeout   *)
(* (app.c, app_task.c, app_default_handlers.c), the extended sleep that    *)
(* follows it and the button that ends it (user_proxr.c).  The main loop,  *)
(* the interrupt of the button and the BLE host interleave.                *)
(*                                                                         *)
(* The easy timers are taken by what OneShotTimers promises: a handle that *)
(* is not in use, and no callback after a cancel.  The host (`host',       *)
(* `linked') and the button are external.                                  *)
(***************************************************************************)
EXTENDS EasyMsg, Sequences

CONSTANTS
    Handles,        \* handles of the easy timers, positive
    Period,         \* advertise_period, in ticks
    NoTimer,        \* a handle that is not in use
    app_wakeup_cb,  \* the only callback bound to a message
    MaxQueue,       \* bound: messages in the queue of the task
    ButtonQuirks    \* what the button does beyond the ordinary, see below

(* "held"  the button is down when the device goes dormant: its interrupt  *)
(*         is then not enabled (user_proxr.c:121) and no press wakes it    *)
ButtonQuirkNames == {"held"}

ASSUME HandlesAssumption == Handles \subseteq Nat \ {0} /\ NoTimer \notin Nat
ASSUME PeriodAssumption == Period \in Nat \ {0}
ASSUME QueueAssumption == MaxQueue \in Nat \ {0}
ASSUME ButtonAssumption == ButtonQuirks \subseteq ButtonQuirkNames
ASSUME CallbackAssumption == app_wakeup_cb # NULL

VARIABLES
    task_state,     \* state of TASK_APP
    adv_timer_id,   \* handle of the advertising timeout, or 0
    live,           \* handle -> NoTimer or the ticks left
    queue,          \* messages for TASK_APP
    cmds,           \* messages for TASK_GAPM
    host,           \* "idle" or "advertising"
    linked,         \* there is a connection
    age,            \* history: ticks that it has been advertising, up to Period
    ext_wakeup,     \* arch_ble_ext_wakeup_get()
    asleep,         \* in extended sleep
    button,         \* level of the pin: "high" or "low"
    irq,            \* WKUPCT: "off", "armed" or "pending"
    pc              \* where the main loop is

appVars   == <<task_state, adv_timer_id, live>>
hostVars  == <<host, linked, age>>
powerVars == <<ext_wakeup, asleep>>
vars == <<appVars, queue, cmds, hostVars, powerVars, button, irq, pc, msgVars>>

States == {"APP_DISABLED", "APP_CONNECTABLE", "APP_CONNECTED"}
Kinds  == {"completed", "canceled", "conn", "disc", "msg"}
(* In the main loop, or inside one of its handlers: the end of advertising *)
(* ("set", "read", "arm") and the message callback ("call", "run").        *)
Places == {"boot", "start", "loop", "set", "read", "arm", "call", "run"}

TypeOK ==
    /\ task_state \in States
    /\ adv_timer_id \in Handles \cup {0}
    /\ live \in [Handles -> {NoTimer} \cup 0..Period]
    /\ queue \in Seq([kind : Kinds, id : Messages \cup {0}]) /\ Len(queue) <= MaxQueue
    /\ cmds \in Seq({"start", "cancel"}) /\ Len(cmds) <= 3
    /\ host \in {"idle", "advertising"} /\ linked \in BOOLEAN /\ age \in 0..Period
    /\ ext_wakeup \in BOOLEAN /\ asleep \in BOOLEAN
    /\ button \in {"high", "low"} /\ irq \in {"off", "armed", "pending"}
    /\ pc \in Places
    /\ msg_util_callbacks \in [Messages -> {NULL, app_wakeup_cb}]
    /\ wakeup_id \in Messages \cup {0}

Event(kind) == [kind |-> kind, id |-> 0]

Init ==
    /\ task_state = "APP_DISABLED" /\ adv_timer_id = 0
    /\ live = [h \in Handles |-> NoTimer]
    /\ queue = <<>> /\ cmds = <<>>
    /\ host = "idle" /\ linked = FALSE /\ age = 0
    /\ ext_wakeup = FALSE /\ asleep = FALSE
    /\ button \in {"high", "low"} /\ irq = "off"
    /\ pc = "boot" /\ MsgInit

-----------------------------------------------------------------------------
(* The button's interrupt is enabled for one low event, and only while the *)
(* pin is high.                                                            *)

(* app_button_enable, where nothing can come between its steps.            *)
Armed == IF button = "high" /\ irq = "off" THEN "armed" ELSE irq

app_button_enable == app_easy_wakeup_set(app_wakeup_cb) /\ irq' = Armed

Press ==
    /\ button = "high" /\ button' = "low"
    /\ irq' = IF irq = "armed" THEN "pending" ELSE irq
    /\ UNCHANGED <<appVars, queue, cmds, hostVars, powerVars, pc, msgVars>>

Release ==
    /\ button = "low" /\ button' = "high"
    /\ UNCHANGED <<appVars, queue, cmds, hostVars, powerVars, irq, pc, msgVars>>

(* Mutant: the BLE core stays under external wake-up                       *)
app_resume_system_from_sleep_dormant ==
    /\ asleep' = FALSE
    /\ UNCHANGED ext_wakeup
    /\ queue' = IF ext_wakeup THEN queue \o app_easy_wakeup ELSE queue

(* A dormant device is to advertise again.  It runs from here on.          *)
app_resume_system_from_sleep ==
    /\ asleep' = FALSE
    /\ ext_wakeup' = FALSE
    /\ queue' = IF ext_wakeup THEN queue \o app_easy_wakeup ELSE queue

(* Mutant: the callback is not bound anew at a press                       *)
WKUP_QUADEC_Handler_unbound ==
    /\ irq = "pending"
    /\ app_resume_system_from_sleep
    /\ irq' = IF button = "high" THEN "armed" ELSE "off"
    /\ UNCHANGED <<appVars, cmds, hostVars, button, pc, msgVars>>

(* The handler of the interrupt disables it and calls app_button_press_cb. *)
WKUP_QUADEC_Handler ==
    /\ irq = "pending"
    /\ app_resume_system_from_sleep
    /\ app_easy_wakeup_set(app_wakeup_cb)
    /\ irq' = IF button = "high" THEN "armed" ELSE "off"
    /\ UNCHANGED <<appVars, cmds, hostVars, button, pc>>

-----------------------------------------------------------------------------
(* Advertising with a timeout. *)

Canceled(h) == IF h = 0 THEN live ELSE [live EXCEPT ![h] = NoTimer]

(* Mutant: the application does not become connectable                     *)
with_timeout_start_as_is ==
    \E h \in Handles :
        /\ live[h] = NoTimer
        /\ live' = [Canceled(adv_timer_id) EXCEPT ![h] = Period]
        /\ adv_timer_id' = h
        /\ cmds' = Append(cmds, "start") /\ UNCHANGED task_state

(* Mutant: advertising starts although no timer could be had               *)
with_timeout_start_no_timer ==
    /\ live' = Canceled(adv_timer_id) /\ adv_timer_id' = 0
    /\ cmds' = Append(cmds, "start") /\ task_state' = "APP_CONNECTABLE"

(* app_easy_gap_undirected_advertise_with_timeout_start.                   *)
with_timeout_start ==
    \E h \in Handles :
        /\ Canceled(adv_timer_id)[h] = NoTimer
        /\ live' = [Canceled(adv_timer_id) EXCEPT ![h] = Period]
        /\ adv_timer_id' = h
        /\ cmds' = Append(cmds, "start")
        /\ task_state' = "APP_CONNECTABLE"

(* Mutant: the timer runs on, only its handle is forgotten                 *)
with_timeout_stop_running == adv_timer_id' = 0 /\ UNCHANGED live

(* app_easy_gap_advertise_with_timeout_stop.                               *)
with_timeout_stop == adv_timer_id' = 0 /\ live' = Canceled(adv_timer_id)

(* Mutant: the timer that ran is not freed                                 *)
AdvTimeout_stays_due ==
    /\ pc = "loop" /\ ~asleep
    /\ \E h \in Handles : live[h] = 0
    /\ cmds' = Append(cmds, "cancel")
    /\ adv_timer_id' = 0
    /\ UNCHANGED <<live, task_state, queue, hostVars, powerVars, button, irq, pc, msgVars>>

(* The timer runs app_easy_gap_advertise_stop_handler; this application    *)
(* gives no callback of its own.                                           *)
AdvTimeout ==
    /\ pc = "loop" /\ ~asleep
    /\ \E h \in Handles : live[h] = 0 /\ live' = [live EXCEPT ![h] = NoTimer]
    /\ cmds' = Append(cmds, "cancel")
    /\ adv_timer_id' = 0
    /\ UNCHANGED <<task_state, queue, hostVars, powerVars, button, irq, pc, msgVars>>

(* Time; a timer that is due is served before its next tick.  Under        *)
(* external wake-up the BLE core, and with it every timer, stands still.   *)
Tick ==
    /\ \A h \in Handles : live[h] # 0
    /\ \E h \in Handles : live[h] # NoTimer
    /\ ~(asleep /\ ext_wakeup)
    /\ live' = [h \in Handles |-> IF live[h] = NoTimer THEN NoTimer ELSE live[h] - 1]
    /\ age' = IF ~linked /\ ~ext_wakeup /\ age < Period THEN age + 1 ELSE age
    /\ UNCHANGED <<task_state, adv_timer_id, queue, cmds, host, linked, powerVars, button, irq, pc>>
    /\ UNCHANGED msgVars

-----------------------------------------------------------------------------
(* The main loop. *)

Boot ==
    /\ pc = "boot" /\ pc' = "start"
    /\ app_button_enable
    /\ UNCHANGED <<appVars, queue, cmds, hostVars, powerVars, button>>

(* The data base is complete: default_app_on_db_init_complete.             *)
AppStarts ==
    /\ pc = "start" /\ pc' = "loop"
    /\ with_timeout_start
    /\ UNCHANGED <<queue, hostVars, powerVars, button, irq, msgVars>>

Received(kind) == pc = "loop" /\ ~asleep /\ queue # <<>> /\ Head(queue).kind = kind
Consumed == queue' = Tail(queue)

(* gapc_connection_req_ind_handler and default_app_on_connection.          *)
gapc_connection_req_ind ==
    /\ Received("conn") /\ Consumed
    /\ IF task_state = "APP_CONNECTABLE"
       THEN task_state' = "APP_CONNECTED" /\ with_timeout_stop
       ELSE UNCHANGED appVars
    /\ UNCHANGED <<cmds, hostVars, powerVars, button, irq, pc, msgVars>>

(* gapc_disconnect_ind_handler and user_app_on_disconnect.                 *)
gapc_disconnect_ind ==
    /\ Received("disc") /\ Consumed
    /\ IF task_state = "APP_CONNECTED"
       THEN with_timeout_start
       ELSE UNCHANGED <<appVars, cmds>>
    /\ UNCHANGED <<hostVars, powerVars, button, irq, pc, msgVars>>

(* gapm_cmp_evt_handler: a connection ended the advertising.               *)
AdvertisingCompleted ==
    /\ Received("completed") /\ Consumed
    /\ UNCHANGED <<appVars, cmds, hostVars, powerVars, button, irq, pc, msgVars>>

(* app_advertise_complete with GAP_ERR_CANCELED, first step: the BLE core  *)
(* sleeps until the button wakes it.                                       *)
AdvertisingCanceled ==
    /\ Received("canceled") /\ Consumed
    /\ ext_wakeup' = TRUE /\ age' = 0
    /\ pc' = "set"
    /\ UNCHANGED <<appVars, cmds, host, linked, asleep, button, irq, msgVars>>

(* Its call of app_button_enable: app_easy_wakeup_set ...                  *)
SetWakeup ==
    /\ pc = "set" /\ pc' = "read"
    /\ app_easy_wakeup_set(app_wakeup_cb)
    /\ UNCHANGED <<appVars, queue, cmds, hostVars, powerVars, button, irq>>

(* Mutant: the pin is read and found low, its interrupt is left off        *)
ReadPin_never ==
    /\ pc = "read" /\ pc' = "loop"
    /\ UNCHANGED <<appVars, queue, cmds, hostVars, powerVars, button, irq, msgVars>>

(* ... GPIO_GetPinStatus ...                                               *)
ReadPin ==
    /\ pc = "read"
    /\ (ext_wakeup /\ button = "low" /\ irq = "off") => "held" \in ButtonQuirks
    /\ pc' = IF button = "high" THEN "arm" ELSE "loop"
    /\ UNCHANGED <<appVars, queue, cmds, hostVars, powerVars, button, irq, msgVars>>

(* ... and wkupct_enable_irq.  The pin may have gone low in between: the   *)
(* controller counts that event or it does not.                            *)
ArmIrq ==
    /\ pc = "arm" /\ pc' = "loop"
    /\ irq' \in IF irq = "pending" THEN {"pending"}
                ELSE IF button = "low" THEN {"armed", "pending"} ELSE {"armed"}
    /\ UNCHANGED <<appVars, queue, cmds, hostVars, powerVars, button, msgVars>>

(* app_easy_msg_call_callback reads the entry, ...                         *)
CallCallback ==
    /\ Received("msg")
    /\ IF msg_util_callbacks[Head(queue).id] = NULL
       THEN Consumed /\ UNCHANGED pc
       ELSE pc' = "call" /\ UNCHANGED queue
    /\ UNCHANGED <<appVars, cmds, hostVars, powerVars, button, irq, msgVars>>

(* ... frees it ...                                                        *)
FreeCallback ==
    /\ pc = "call" /\ pc' = "run"
    /\ FreeEntry(Head(queue).id)
    /\ UNCHANGED <<appVars, queue, cmds, hostVars, powerVars, button, irq>>

(* Mutant: a wake-up is taken for one while there is a connection only     *)
RunWakeup_connected ==
    /\ pc = "run" /\ pc' = "loop" /\ Consumed
    /\ IF task_state = "APP_CONNECTED" THEN with_timeout_start ELSE UNCHANGED <<appVars, cmds>>
    /\ UNCHANGED <<hostVars, powerVars, button, irq, msgVars>>

(* ... and runs app_wakeup_cb: default_advertise_operation.                *)
RunWakeup ==
    /\ pc = "run" /\ pc' = "loop" /\ Consumed
    /\ IF task_state = "APP_CONNECTABLE"
       THEN with_timeout_start
       ELSE UNCHANGED <<appVars, cmds>>
    /\ UNCHANGED <<hostVars, powerVars, button, irq, msgVars>>

(* rwip_sleep: nothing is left to do in the kernel.                        *)
MaySleep == queue = <<>> /\ cmds = <<>> /\ \A h \in Handles : live[h] # 0

Sleep ==
    /\ pc = "loop" /\ ~asleep /\ irq # "pending"
    /\ MaySleep
    /\ asleep' = TRUE
    /\ UNCHANGED <<appVars, queue, cmds, hostVars, ext_wakeup, button, irq, pc, msgVars>>

(* The BLE core wakes the system unless wake-ups are external: periph_init *)
(* enables the button anew.                                                *)
BleWakes ==
    /\ asleep /\ ~ext_wakeup
    /\ asleep' = FALSE
    /\ app_button_enable
    /\ UNCHANGED <<appVars, queue, cmds, hostVars, ext_wakeup, button, pc>>

-----------------------------------------------------------------------------
(* The host.  A start is followed by one completion; a cancel ends the     *)
(* advertising or, when there is none, has no effect.                      *)

HostRuns == ~asleep /\ cmds # <<>> /\ Len(queue) < MaxQueue

HostStart ==
    /\ HostRuns /\ Head(cmds) = "start" /\ host = "idle" /\ cmds' = Tail(cmds)
    /\ host' = "advertising"
    /\ UNCHANGED <<appVars, queue, linked, age, powerVars, button, irq, pc, msgVars>>

HostCancel ==
    /\ HostRuns /\ Head(cmds) = "cancel" /\ cmds' = Tail(cmds)
    /\ host' = "idle"
    /\ queue' = IF host = "advertising" THEN Append(queue, Event("canceled")) ELSE queue
    /\ UNCHANGED <<appVars, linked, age, powerVars, button, irq, pc, msgVars>>

(* The application hears of the connection and of the end of advertising.  *)
HostConnect ==
    /\ ~asleep /\ host = "advertising" /\ Len(queue) + 2 <= MaxQueue
    /\ host' = "idle" /\ linked' = TRUE /\ age' = 0
    /\ \E two \in {<<"completed", "conn">>, <<"conn", "completed">>} :
           queue' = queue \o <<Event(two[1]), Event(two[2])>>
    /\ UNCHANGED <<appVars, cmds, powerVars, button, irq, pc, msgVars>>

HostDisconnect ==
    /\ ~asleep /\ linked /\ Len(queue) < MaxQueue
    /\ linked' = FALSE
    /\ queue' = Append(queue, Event("disc"))
    /\ UNCHANGED <<appVars, cmds, host, age, powerVars, button, irq, pc, msgVars>>

-----------------------------------------------------------------------------
MainLoop ==
    \/ Boot \/ AppStarts
    \/ gapc_connection_req_ind \/ gapc_disconnect_ind \/ AdvertisingCompleted
    \/ AdvertisingCanceled \/ SetWakeup \/ ReadPin \/ ArmIrq
    \/ CallCallback \/ FreeCallback \/ RunWakeup

HostCommand == HostStart \/ HostCancel

Next ==
    \/ MainLoop \/ AdvTimeout \/ Tick \/ Sleep \/ BleWakes
    \/ WKUP_QUADEC_Handler \/ Press \/ Release
    \/ HostCommand \/ HostConnect \/ HostDisconnect

Spec == Init /\ [][Next]_vars

(* The main loop serves messages and timers in turn, the host its          *)
(* commands; interrupts are taken; time passes; a button is let go.        *)
FairSpec ==
    /\ Spec
    /\ WF_vars(MainLoop) /\ WF_vars(AdvTimeout) /\ WF_vars(HostCommand)
    /\ WF_vars(WKUP_QUADEC_Handler) /\ WF_vars(BleWakes) /\ WF_vars(Tick)
    /\ WF_vars(Release)

-----------------------------------------------------------------------------
(* Safety. *)

WakeupIsSet == wakeup_id # 0 /\ msg_util_callbacks[wakeup_id] = app_wakeup_cb

(* A device never sleeps with nothing to wake it: it advertises, has a     *)
(* link, or is dormant with the button enabled and its callback bound      *)
(* (rwip.c sleeps for ever under external wake-up).                        *)
SleepIsLeft ==
    asleep => \/ ~ext_wakeup /\ (linked \/ host = "advertising")
              \/ ext_wakeup /\ irq # "off" /\ WakeupIsSet

(* A wake-up message in the queue finds its callback, whatever the         *)
(* interrupt and the task did to the entry since the press: with an empty  *)
(* entry the device would stay awake and silent.                           *)
WakeupIsBound ==
    \A i \in 1..Len(queue) :
        queue[i].kind = "msg" /\ ~(i = 1 /\ pc = "run")
            => msg_util_callbacks[queue[i].id] = app_wakeup_cb

(* The BLE core is stopped only when nobody needs it: no advertising, no   *)
(* link, no command to the host, no timer.                                 *)
DormantIsQuiet ==
    ext_wakeup => /\ host = "idle" /\ ~linked /\ cmds = <<>>
                  /\ \A h \in Handles : live[h] = NoTimer

(* The advertising timer that runs is the one adv_timer_id names, and none *)
(* runs in a connection: neither can a timer be lost nor end the next      *)
(* advertising early.                                                      *)
AdvTimerIsHeld ==
    /\ \A h \in Handles : live[h] # NoTimer <=> adv_timer_id = h
    /\ task_state = "APP_CONNECTED" => adv_timer_id = 0

(* Host and task agree about the link.  An indication is served in the     *)
(* state its handler asks for, whose ASSERT_ERROR is never reached, and    *)
(* the host is not asked to start while it advertises or has a link.       *)
HostAndTaskAgree ==
    /\ Received("conn") => task_state = "APP_CONNECTABLE"
    /\ Received("disc") => task_state = "APP_CONNECTED"
    /\ cmds # <<>> /\ Head(cmds) = "start" => host = "idle" /\ ~linked

(* Advertising does not last: a timeout or a connection ends it.           *)
AdvertisingEnds == host = "advertising" ~> host = "idle"

(* The press of the button of a dormant device makes it advertise, and so  *)
(* does the loss of a link, through the messages this takes.               *)
AdvertisesAgain ==
    \/ ext_wakeup /\ irq = "pending"
    \/ task_state = "APP_CONNECTED" /\ ~linked
    ~> host = "advertising"

Mode == IF linked THEN "connected" ELSE IF ext_wakeup THEN "dormant" ELSE "advertising"
Noticed == irq = "pending"

(* What the owner sees is a beacon, whose clock counts from the moment it  *)
(* is up or the link is lost.                                              *)
B == INSTANCE Beacon WITH mode <- Mode, noticed <- Noticed

(* The steps of the reporter are those of a beacon: it goes dormant only   *)
(* when it has been up for a full period without a connection, and gets up *)
(* again only after a press (app.c, the advertising timer; user_proxr.c).  *)
ImplementsBeacon == B!Spec
=============================================================================
