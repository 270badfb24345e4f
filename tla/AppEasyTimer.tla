---------------------------- MODULE AppEasyTimer ----------------------------
(***************************************************************************)
(* The easy timers of the SDK (app_modules/src/app_easy/app_easy_timer.c): *)
(* one-shot timers with a callback, built on the kernel timers and on the  *)
(* message queue of TASK_APP.  A timer occupies a slot of timer_callbacks; *)
(* cancel and modify cannot know whether the expiry message of the timer   *)
(* is already queued, so they park the slot on a dummy callback and post a *)
(* message behind it.  When the BLE core sleeps the kernel does not run    *)
(* and a new timer is posted as a message instead of being armed at once.  *)
(***************************************************************************)
EXTENDS Integers, Sequences

CONSTANTS
    NumTimers,   \* APP_TIMER_MAX_NUM, the number of slots
    Callbacks,   \* the functions the application passes as callback
    MaxDelay,    \* bound: the longest delay asked for, in kernel ticks of 10 ms
    MaxQueue,    \* bound: the longest message queue in which the app still calls
    AppHabits,   \* the delicate call patterns the application uses, see below
    NULL, Canceled, Modified,   \* NULL and the two dummy callbacks
    NoTimer, Off, Uninit        \* no request, timer not armed, field never written

(* A pattern in AppHabits is one the API accepts and the code mishandles:  *)
(*   "touch_creating"   cancel or modify a timer whose APP_CREATE_TIMER    *)
(*                      message is still queued (BLE was asleep)           *)
(*   "cancel_modifying" cancel a timer whose modification is still queued  *)
(*   "modify_canceled"  modify a timer whose cancellation is still queued  *)
Habits == {"touch_creating", "cancel_modifying", "modify_canceled"}

ASSUME SizeAssumption == NumTimers \in Nat /\ MaxDelay \in Nat /\ MaxQueue \in Nat
ASSUME HabitAssumption == AppHabits \subseteq Habits
ASSUME CallbackAssumption == Callbacks \cap {NULL, Canceled, Modified} = {}
ASSUME DummyAssumption == NULL # Canceled /\ NULL # Modified /\ Canceled # Modified
ASSUME OffAssumption == Off \notin Int /\ Uninit \notin Int
ASSUME NoTimerAssumption == NoTimer \notin [fn : Callbacks, due : Nat]

VARIABLES
    timer_callbacks,           \* slot -> callback, dummy or NULL
    modified_timer_callbacks,  \* slot -> callback saved while being modified
    ke_timers,                 \* kernel timer of the slot: Off or ticks to go
    ke_queue,                  \* messages of TASK_APP, oldest first
    ble_active,                \* app_check_BLE_active(): the kernel runs
    asked,                     \* history: what the application last asked for
                               \* the slot: NoTimer or [fn, due], due counting
                               \* down the ticks of the delay it asked for
    calls                      \* history: the callback the slot ran last and
                               \* the parity of its runs

vars == <<timer_callbacks, modified_timer_callbacks, ke_timers, ke_queue,
          ble_active, asked, calls>>

Slots    == 1..NumTimers
Delays   == 1..MaxDelay
Ticks    == 0..MaxDelay
Requests == [fn : Callbacks, due : Ticks]
Messages == {m \in [kind : {"CREATE", "CANCEL", "MODIFY", "EXPIRY"}, slot : Slots,
                   delay : Ticks \cup {Uninit}] :
                m.kind \in {"CREATE", "MODIFY"} => m.delay # Uninit}

TypeOK ==
    /\ timer_callbacks \in [Slots -> Callbacks \cup {NULL, Canceled, Modified}]
    /\ modified_timer_callbacks \in [Slots -> Callbacks \cup {NULL, Canceled}]
    /\ ke_timers \in [Slots -> Ticks \cup {Off}]
    /\ ke_queue \in Seq(Messages)
    /\ ble_active \in BOOLEAN
    /\ asked \in [Slots -> Requests \cup {NoTimer}]
    /\ calls \in [Slots -> [fn : Callbacks \cup {NULL}, odd : BOOLEAN]]

Init ==
    /\ timer_callbacks = [s \in Slots |-> NULL]
    /\ modified_timer_callbacks = [s \in Slots |-> NULL]
    /\ ke_timers = [s \in Slots |-> Off]
    /\ ke_queue = << >>
    /\ ble_active = TRUE
    /\ asked = [s \in Slots |-> NoTimer]
    /\ calls = [s \in Slots |-> [fn |-> NULL, odd |-> FALSE]]

Msg(k, s, d) == [kind |-> k, slot |-> s, delay |-> d]

Queued(kinds, s) ==
    \E i \in 1..Len(ke_queue) : ke_queue[i].kind \in kinds /\ ke_queue[i].slot = s

-----------------------------------------------------------------------------
(* The API, called by the application between two kernel messages: from a  *)
(* callback, from another handler or from the main loop.  Calls that only  *)
(* raise an ASSERT_WARNING change nothing and are no steps.                *)

(* create_timer: arm the kernel timer, or post the request when BLE sleeps. *)
create_timer(s, d) ==
    IF ble_active
    THEN ke_timers' = [ke_timers EXCEPT ![s] = d] /\ UNCHANGED ke_queue
    ELSE ke_queue' = Append(ke_queue, Msg("CREATE", s, d)) /\ UNCHANGED ke_timers

(* set_callback: the slot a new timer gets, the lowest free one. *)
FirstFree(s) ==
    /\ timer_callbacks[s] = NULL
    /\ \A t \in 1..(s - 1) : timer_callbacks[t] # NULL

app_easy_timer(s, d, fn) ==
    /\ Len(ke_queue) < MaxQueue
    /\ FirstFree(s)
    /\ timer_callbacks' = [timer_callbacks EXCEPT ![s] = fn]
    /\ create_timer(s, d)
    /\ asked' = [asked EXCEPT ![s] = [fn |-> fn, due |-> d]]
    /\ UNCHANGED <<modified_timer_callbacks, ble_active, calls>>

Touchable(s) == "touch_creating" \in AppHabits \/ ~Queued({"CREATE"}, s)

(* The cancellations the application makes: of a timer it started, and     *)
(* outside the delicate patterns it does not use.                          *)
MayCancel(s) ==
    /\ asked[s] # NoTimer
    /\ Touchable(s)
    /\ timer_callbacks[s] = Modified => "cancel_modifying" \in AppHabits

CancelAccepted(s) == timer_callbacks[s] \notin {NULL, Canceled}

(* Mutant: the kernel timer is left running. *)
cancel_without_clear(s) ==
    /\ Len(ke_queue) < MaxQueue
    /\ MayCancel(s) /\ CancelAccepted(s)
    /\ timer_callbacks' = [timer_callbacks EXCEPT ![s] = Canceled]
    /\ ke_queue' = Append(ke_queue, Msg("CANCEL", s, Uninit))
    /\ asked' = [asked EXCEPT ![s] = NoTimer]
    /\ UNCHANGED <<modified_timer_callbacks, ke_timers, ble_active, calls>>

(* Mutant: the slot is parked but no message is posted to free it. *)
cancel_without_message(s) ==
    /\ Len(ke_queue) < MaxQueue
    /\ MayCancel(s) /\ CancelAccepted(s)
    /\ ke_timers' = [ke_timers EXCEPT ![s] = Off]
    /\ timer_callbacks' = [timer_callbacks EXCEPT ![s] = Canceled]
    /\ asked' = [asked EXCEPT ![s] = NoTimer]
    /\ UNCHANGED <<modified_timer_callbacks, ke_queue, ble_active, calls>>

(* Mutant: the slot is freed at once, as if no expiry could be queued. *)
cancel_at_once(s) ==
    /\ MayCancel(s) /\ CancelAccepted(s)
    /\ ke_timers' = [ke_timers EXCEPT ![s] = Off]
    /\ timer_callbacks' = [timer_callbacks EXCEPT ![s] = NULL]
    /\ asked' = [asked EXCEPT ![s] = NoTimer]
    /\ UNCHANGED <<modified_timer_callbacks, ke_queue, ble_active, calls>>

app_easy_timer_cancel(s) ==
    /\ Len(ke_queue) < MaxQueue
    /\ MayCancel(s) /\ CancelAccepted(s)
    /\ ke_timers' = [ke_timers EXCEPT ![s] = Off]
    /\ timer_callbacks' = [timer_callbacks EXCEPT ![s] = Canceled]
    /\ ke_queue' = Append(ke_queue, Msg("CANCEL", s, Uninit))
    /\ asked' = [asked EXCEPT ![s] = NoTimer]
    /\ UNCHANGED <<modified_timer_callbacks, ble_active, calls>>

(* The loop of cancel_all posts one message per running timer, in the      *)
(* order of the slots.                                                     *)
SlotOrder(S, order) ==
    /\ \A i, j \in DOMAIN order : i < j => order[i] < order[j]
    /\ \A s \in S : \E i \in DOMAIN order : order[i] = s

CancelMessages(n, order) == [i \in 1..n |-> Msg("CANCEL", order[i], Uninit)]

app_easy_timer_cancel_all ==
    LET running == {s \in Slots : CancelAccepted(s)}
    IN  /\ Len(ke_queue) < MaxQueue
        /\ running # {} /\ \A s \in running : MayCancel(s)
        /\ \E n \in Slots : \E order \in [1..n -> running] :
              /\ SlotOrder(running, order)
              /\ ke_queue' = ke_queue \o CancelMessages(n, order)
        /\ ke_timers' = [s \in Slots |-> IF s \in running THEN Off ELSE ke_timers[s]]
        /\ timer_callbacks' =
              [s \in Slots |-> IF s \in running THEN Canceled ELSE timer_callbacks[s]]
        /\ asked' = [s \in Slots |-> IF s \in running THEN NoTimer ELSE asked[s]]
        /\ UNCHANGED <<modified_timer_callbacks, ble_active, calls>>

MayModify(s) ==
    /\ Touchable(s)
    /\ asked[s] = NoTimer => "modify_canceled" \in AppHabits

(* Mutant: the callback is saved after it was overwritten. *)
modify_saves_late(s, d) ==
    /\ Len(ke_queue) < MaxQueue
    /\ MayModify(s) /\ timer_callbacks[s] \notin {NULL, Modified}
    /\ ke_timers' = [ke_timers EXCEPT ![s] = Off]
    /\ modified_timer_callbacks' = [modified_timer_callbacks EXCEPT ![s] = Modified]
    /\ timer_callbacks' = [timer_callbacks EXCEPT ![s] = Modified]
    /\ ke_queue' = Append(ke_queue, Msg("CANCEL", s, d))
    /\ UNCHANGED <<asked, ble_active, calls>>

(* Mutant: the kernel timer is left running during the modification. *)
modify_without_clear(s, d) ==
    /\ Len(ke_queue) < MaxQueue
    /\ MayModify(s) /\ timer_callbacks[s] \in Callbacks
    /\ modified_timer_callbacks' =
          [modified_timer_callbacks EXCEPT ![s] = timer_callbacks[s]]
    /\ timer_callbacks' = [timer_callbacks EXCEPT ![s] = Modified]
    /\ ke_queue' = Append(ke_queue, Msg("CANCEL", s, d))
    /\ asked' = [asked EXCEPT ![s] = [fn |-> asked[s].fn, due |-> d]]
    /\ UNCHANGED <<ke_timers, ble_active, calls>>

(* Mutant: the kernel timer is set again at once, without the detour. *)
modify_at_once(s, d) ==
    /\ MayModify(s) /\ timer_callbacks[s] \in Callbacks
    /\ ke_timers' = [ke_timers EXCEPT ![s] = d]
    /\ asked' = [asked EXCEPT ![s] = [fn |-> asked[s].fn, due |-> d]]
    /\ UNCHANGED <<timer_callbacks, modified_timer_callbacks, ke_queue, ble_active, calls>>

app_easy_timer_modify(s, d) ==
    /\ Len(ke_queue) < MaxQueue
    /\ MayModify(s) /\ timer_callbacks[s] \notin {NULL, Modified}
    /\ ke_timers' = [ke_timers EXCEPT ![s] = Off]
    /\ modified_timer_callbacks' =
          [modified_timer_callbacks EXCEPT ![s] = timer_callbacks[s]]
    /\ timer_callbacks' = [timer_callbacks EXCEPT ![s] = Modified]
    /\ ke_queue' = Append(ke_queue, Msg("CANCEL", s, d))
    /\ asked' = IF asked[s] = NoTimer THEN asked
                ELSE [asked EXCEPT ![s] = [fn |-> asked[s].fn, due |-> d]]
    /\ UNCHANGED <<ble_active, calls>>

-----------------------------------------------------------------------------
(* The handlers of TASK_APP: app_timer_api_process_handler dispatches the  *)
(* oldest message to one of them while the BLE core is awake.              *)

Receive(kind) == ble_active /\ ke_queue # << >> /\ Head(ke_queue).kind = kind

create_timer_handler ==
    /\ Receive("CREATE")
    /\ ke_timers' = [ke_timers EXCEPT ![Head(ke_queue).slot] = Head(ke_queue).delay]
    /\ ke_queue' = Tail(ke_queue)
    /\ UNCHANGED <<timer_callbacks, modified_timer_callbacks, ble_active, asked, calls>>

(* The delay a handler reads: a field that was never written holds anything. *)
DelayRead(d) == IF d = Uninit THEN Ticks ELSE {d}

Release(s) ==
    /\ timer_callbacks' = [timer_callbacks EXCEPT ![s] = NULL]
    /\ modified_timer_callbacks' = [modified_timer_callbacks EXCEPT ![s] = NULL]

(* Mutant: every slot is released, a modified one too. *)
cancel_handler_releases ==
    /\ Receive("CANCEL")
    /\ Release(Head(ke_queue).slot)
    /\ ke_queue' = Tail(ke_queue)
    /\ UNCHANGED <<ke_timers, ble_active, asked, calls>>

(* Mutant: the callback array of a canceled slot is not reset. *)
cancel_handler_keeps ==
    /\ Receive("CANCEL")
    /\ modified_timer_callbacks' =
          [modified_timer_callbacks EXCEPT ![Head(ke_queue).slot] = NULL]
    /\ ke_queue' = Tail(ke_queue)
    /\ UNCHANGED <<timer_callbacks, ke_timers, ble_active, asked, calls>>

cancel_timer_handler ==
    LET s == Head(ke_queue).slot
    IN  /\ Receive("CANCEL")
        /\ \/ /\ timer_callbacks[s] = Canceled
              /\ Release(s)
              /\ ke_queue' = Tail(ke_queue)
           \/ /\ timer_callbacks[s] = Modified
              /\ \E d \in DelayRead(Head(ke_queue).delay) :
                    ke_queue' = Append(Tail(ke_queue), Msg("MODIFY", s, d))
              /\ UNCHANGED <<timer_callbacks, modified_timer_callbacks>>
           \/ /\ timer_callbacks[s] \notin {Canceled, Modified}
              /\ ke_queue' = Tail(ke_queue)
              /\ UNCHANGED <<timer_callbacks, modified_timer_callbacks>>
        /\ UNCHANGED <<ke_timers, ble_active, asked, calls>>

(* Mutant: the callback is restored but the kernel timer is not set. *)
modify_handler_keeps_off ==
    LET s == Head(ke_queue).slot
    IN  /\ Receive("MODIFY")
        /\ timer_callbacks' = [timer_callbacks EXCEPT ![s] = modified_timer_callbacks[s]]
        /\ ke_queue' = Tail(ke_queue)
        /\ UNCHANGED <<modified_timer_callbacks, ke_timers, ble_active, asked, calls>>

(* The handler runs awake, so its create_timer arms the kernel timer. *)
modify_timer_handler ==
    LET s == Head(ke_queue).slot
    IN  /\ Receive("MODIFY")
        /\ IF timer_callbacks[s] = Modified
           THEN /\ timer_callbacks' =
                      [timer_callbacks EXCEPT ![s] = modified_timer_callbacks[s]]
                /\ ke_timers' = [ke_timers EXCEPT ![s] = Head(ke_queue).delay]
           ELSE UNCHANGED <<timer_callbacks, ke_timers>>
        /\ ke_queue' = Tail(ke_queue)
        /\ UNCHANGED <<modified_timer_callbacks, ble_active, asked, calls>>

(* The slot is free before the user callback runs; what the callback does  *)
(* to the timers are further API steps.                                    *)
call_callback_handler ==
    LET s == Head(ke_queue).slot
    IN  /\ Receive("EXPIRY")
        /\ IF timer_callbacks[s] \in Callbacks
           THEN /\ Release(s)
                /\ asked' = [asked EXCEPT ![s] = NoTimer]
                /\ calls' = [calls EXCEPT ![s] = [fn |-> timer_callbacks[s],
                                                  odd |-> ~calls[s].odd]]
           ELSE UNCHANGED <<timer_callbacks, modified_timer_callbacks, asked, calls>>
        /\ ke_queue' = Tail(ke_queue)
        /\ UNCHANGED <<ke_timers, ble_active>>

-----------------------------------------------------------------------------
(* The kernel and the BLE core (ROM and arch_main.c). *)

Down(n) == IF n = 0 THEN 0 ELSE n - 1

Tick ==
    /\ \E s \in Slots : \/ ke_timers[s] # Off /\ ke_timers[s] # 0
                        \/ asked[s] # NoTimer /\ asked[s].due # 0
    /\ ke_timers' = [s \in Slots |-> IF ke_timers[s] = Off THEN Off
                                     ELSE Down(ke_timers[s])]
    /\ asked' = [s \in Slots |-> IF asked[s] = NoTimer THEN NoTimer
                                 ELSE [fn |-> asked[s].fn, due |-> Down(asked[s].due)]]
    /\ UNCHANGED <<timer_callbacks, modified_timer_callbacks, ke_queue, ble_active, calls>>

(* An expired kernel timer is freed and its message queued. *)
ke_timer_expiry(s) ==
    /\ ble_active
    /\ ke_timers[s] = 0
    /\ ke_timers' = [ke_timers EXCEPT ![s] = Off]
    /\ ke_queue' = Append(ke_queue, Msg("EXPIRY", s, Uninit))
    /\ UNCHANGED <<timer_callbacks, modified_timer_callbacks, ble_active, asked, calls>>

(* rwip_sleep: no pending message and no kernel timer about to expire. *)
rwip_sleep ==
    /\ ble_active
    /\ ke_queue = << >>
    /\ \A s \in Slots : ke_timers[s] # 0
    /\ ble_active' = FALSE
    /\ UNCHANGED <<timer_callbacks, modified_timer_callbacks, ke_timers, ke_queue, asked, calls>>

(* A wake-up request, a kernel timer, a radio event or the longest sleep. *)
ble_wakeup ==
    /\ ~ble_active
    /\ ble_active' = TRUE
    /\ UNCHANGED <<timer_callbacks, modified_timer_callbacks, ke_timers, ke_queue, asked, calls>>

Api ==
    \/ \E s \in Slots, d \in Delays, fn \in Callbacks : app_easy_timer(s, d, fn)
    \/ \E s \in Slots : app_easy_timer_cancel(s)
    \/ app_easy_timer_cancel_all
    \/ \E s \in Slots, d \in Delays : app_easy_timer_modify(s, d)

Handler ==
    \/ create_timer_handler
    \/ cancel_timer_handler
    \/ modify_timer_handler
    \/ call_callback_handler

Next ==
    \/ Api
    \/ Handler
    \/ Tick
    \/ \E s \in Slots : ke_timer_expiry(s)
    \/ rwip_sleep
    \/ ble_wakeup

(* The main loop schedules the kernel as long as the core is awake, time   *)
(* passes, and the core never sleeps longer than max_sleep_duration.       *)
Fairness ==
    /\ WF_vars(Handler)
    /\ WF_vars(Tick)
    /\ \A s \in Slots : WF_vars(ke_timer_expiry(s))
    /\ WF_vars(ble_wakeup)

Spec     == Init /\ [][Next]_vars
FairSpec == Spec /\ Fairness

-----------------------------------------------------------------------------
(* Properties. *)

OneShot == INSTANCE OneShotTimers WITH Handles <- Slots, live <- asked

(* The easy timers keep the promise of OneShotTimers: dummy callbacks,     *)
(* queued messages and BLE sleep are invisible to the application.         *)
ImplementsOneShot == OneShot!Spec

OldestFirst(early, late, s) ==
    \A i, j \in 1..Len(ke_queue) :
        /\ ke_queue[i].slot = s /\ ke_queue[i].kind \in early
        /\ ke_queue[j].slot = s /\ ke_queue[j].kind \in late
        => i < j

AtMostOne(kinds, s) ==
    \A i, j \in 1..Len(ke_queue) :
        /\ ke_queue[i].slot = s /\ ke_queue[i].kind \in kinds
        /\ ke_queue[j].slot = s /\ ke_queue[j].kind \in kinds
        => i = j

(* A free slot has left nothing behind: no kernel timer that could fire    *)
(* and no message that a later timer in the slot could receive.            *)
FreeSlotIsClean ==
    \A s \in Slots : timer_callbacks[s] = NULL =>
        /\ ke_timers[s] = Off
        /\ ~Queued({"CREATE", "CANCEL", "MODIFY", "EXPIRY"}, s)

(* The message that frees a canceled slot is on its way: the comment in    *)
(* app_easy_timer_cancel says it will "free the respective position".      *)
CanceledSlotWillBeFreed ==
    \A s \in Slots : timer_callbacks[s] = Canceled => Queued({"CANCEL"}, s)

(* A timer the application waits for is never lost and never armed twice:  *)
(* exactly one kernel timer or message will lead to its callback, and      *)
(* none of them before the delay has passed.                               *)
LiveTimerIsArmedOnce ==
    \A s \in Slots : asked[s] # NoTimer =>
        \/ /\ timer_callbacks[s] = asked[s].fn
           /\ ke_timers[s] # Off /\ asked[s].due <= ke_timers[s]
           /\ ~Queued({"CREATE", "CANCEL", "MODIFY", "EXPIRY"}, s)
        \/ /\ timer_callbacks[s] = asked[s].fn
           /\ ke_timers[s] = Off
           /\ Queued({"CREATE", "EXPIRY"}, s) /\ ~Queued({"CANCEL", "MODIFY"}, s)
           /\ AtMostOne({"CREATE", "EXPIRY"}, s)
        \/ /\ timer_callbacks[s] = Modified
           /\ modified_timer_callbacks[s] = asked[s].fn
           /\ ke_timers[s] = Off
           /\ Queued({"CANCEL", "MODIFY"}, s) /\ ~Queued({"CREATE"}, s)
           /\ AtMostOne({"CANCEL", "MODIFY"}, s)
           /\ OldestFirst({"EXPIRY"}, {"CANCEL", "MODIFY"}, s)

(* A user callback runs only for a timer the application still waits for,  *)
(* it is the function registered with that timer, and the delay last asked *)
(* for has passed: nothing stale in the queue or in the kernel reaches it. *)
CallbackOnlyWhenDue ==
    [][\A s \in Slots : calls'[s] # calls[s] =>
          /\ asked[s] # NoTimer
          /\ asked[s].due = 0
          /\ calls'[s].fn = asked[s].fn]_vars

(* A timer whose delay has passed is eventually called, canceled or        *)
(* modified: a callback is never swallowed for good.                       *)
DueTimerIsServed ==
    \A s \in Slots :
        (asked[s] # NoTimer /\ asked[s].due = 0)
        ~> (asked[s] = NoTimer \/ asked[s].due # 0)

(* A canceled slot is eventually given back to app_easy_timer. *)
CanceledSlotIsReused ==
    \A s \in Slots : timer_callbacks[s] = Canceled ~> timer_callbacks[s] = NULL
-----------------------------------------------------------------------------
(* The inductive invariant of an application without the delicate habits.  *)

Carries(i, kinds, s) == ke_queue[i].kind \in kinds /\ ke_queue[i].slot = s

(* The state of a slot says what the application is owed, whether the      *)
(* kernel timer runs and which message the slot is waiting for.            *)
SlotOK(s) ==
    \/ /\ timer_callbacks[s] = NULL
       /\ asked[s] = NoTimer /\ ke_timers[s] = Off
    \/ /\ timer_callbacks[s] = Canceled
       /\ asked[s] = NoTimer /\ ke_timers[s] = Off
       /\ \E i \in 1..Len(ke_queue) : Carries(i, {"CANCEL"}, s)
    \/ /\ timer_callbacks[s] = Modified
       /\ asked[s] # NoTimer /\ modified_timer_callbacks[s] = asked[s].fn
       /\ ke_timers[s] = Off
       /\ \E i \in 1..Len(ke_queue) : Carries(i, {"CANCEL", "MODIFY"}, s)
    \/ /\ timer_callbacks[s] \in Callbacks
       /\ asked[s] # NoTimer /\ timer_callbacks[s] = asked[s].fn
       /\ ke_timers[s] # Off /\ asked[s].due <= ke_timers[s]
       /\ \A i \in 1..Len(ke_queue) : ke_queue[i].slot # s
    \/ /\ timer_callbacks[s] \in Callbacks
       /\ asked[s] # NoTimer /\ timer_callbacks[s] = asked[s].fn
       /\ ke_timers[s] = Off
       /\ \E i \in 1..Len(ke_queue) : Carries(i, {"CREATE", "EXPIRY"}, s)

(* A queued message m is one its slot is waiting for; the delay it carries *)
(* is not shorter than what is left of the delay asked for.                *)
MessageOK(m) ==
    /\ m.kind = "CREATE" => /\ timer_callbacks[m.slot] \in Callbacks
                            /\ asked[m.slot].due <= m.delay
    /\ m.kind = "EXPIRY" => /\ timer_callbacks[m.slot] # NULL
                            /\ timer_callbacks[m.slot] \in Callbacks
                               => asked[m.slot].due = 0
    /\ m.kind = "CANCEL" => \/ timer_callbacks[m.slot] = Canceled
                            \/ /\ timer_callbacks[m.slot] = Modified
                               /\ m.delay # Uninit
                               /\ asked[m.slot].due <= m.delay
    /\ m.kind = "MODIFY" => /\ timer_callbacks[m.slot] = Modified
                            /\ asked[m.slot].due <= m.delay

(* Two messages for one slot are an expiry and, behind it, the message of  *)
(* a cancel or a modify.                                                   *)
ExpiryFirst ==
    \A i, j \in 1..Len(ke_queue) :
        i < j /\ ke_queue[i].slot = ke_queue[j].slot
        => ke_queue[i].kind = "EXPIRY" /\ ke_queue[j].kind \in {"CANCEL", "MODIFY"}

IInv ==
    /\ TypeOK
    /\ \A s \in Slots : SlotOK(s)
    /\ \A i \in 1..Len(ke_queue) : MessageOK(ke_queue[i])
    /\ ExpiryFirst
=============================================================================
