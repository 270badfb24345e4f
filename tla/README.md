# A model of the DA1458x SDK core

The repository is a small application (blinky on an e-paper board) on top of the Dialog
DA14580/DA14581 Bluetooth Low Energy SDK. The SDK carries all of the logic, and this
project models the parts of it where order, failure and interrupts matter: the easy
timers, the over-the-air firmware update with the bootloader behind it, the control of the
sleep mode together with the main loop and the console, the bond database with the
security messages that use it, and the advertising of the proximity reporter with its
dormant sleep and its button. Every module is translated from the C code; `PROJECT.json`
names the lines behind each definition.

Contents: [inventory](#inventory), [modules](#modules), [timers](#easy-timers),
[SUOTA](#firmware-update), [sleep](#sleep-mode), [bonds](#bonds-and-security),
[advertising](#advertising-and-the-button), [proofs](#proofs), [findings](#findings), [not
modelled](#not-modelled), [plan](#plan).

Paths below are relative to `src/`; `app_modules` stands for `sdk/app_modules/src`,
`platform` for `sdk/platform`.

## Inventory

The firmware has one thread of control, `main()` in `platform/arch/main/arch_main.c`. It
schedules the BLE stack and the kernel, which delivers messages to the handlers of the
application; each handler runs to completion. Interrupts (UART, BLE, GPIO, timers) come
between any two instructions. Three other things happen by themselves: the BLE core wakes
up, the peer sends, and the power goes away.

| Component | State | Operations | Speaks with | What is hard | What makes it correct |
|---|---|---|---|---|---|
| Easy timers, `app_modules/app_easy/app_easy_timer.c` | `timer_callbacks`, `modified_timer_callbacks`, kernel timers and queued messages per slot | start, cancel, cancel all, modify; four message handlers | kernel timers, queue of TASK_APP, BLE sleep | an expiry already queued when the timer is canceled or modified; the kernel does not run while BLE sleeps; ten slots | a callback runs once, when due, for a timer still wanted; slots come back |
| SUOTA receiver, `app_modules/app_suotar` | `suota_state` in RAM, two banks in the flash | select device, set GPIO map, announce a length, data, end, reboot, exit | the SUOTA profile (requests in, status out), the SPI flash | power loss between flash operations, failing operations, retries, an index that wraps, sector boundaries | a reset always boots an intact image; an acknowledged update is the one that boots |
| Secondary bootloader, `utilities/secondary_bootloader` | the flash | `loadActiveImage` at reset | the flash written by SUOTA | must agree with the receiver on the newest valid image | starts only intact code |
| mkimage, `utilities/mkimage` | none | builds image files | contents of the flash | none, a host tool | fields of the header as both sides read them |
| Sleep control, `platform/arch/main/arch_sleep.c` | `sleep_env`, `sleep_md`, `sleep_pend`, `sleep_cnt` | set a mode, force active mode, restore | application, console, main loop | unprotected counters, shared with the UART interrupt | the mode in effect is the one asked for, off while forced |
| Main loop and power down, `arch_main.c`, `rwip.c` | `rwip_env`, power of the BLE core | schedule, process, sleep | all of the others | reasons not to sleep that appear late | no sleep during work, and no work left behind |
| Console, `platform/core_modules/arch_console` | line buffer, `printf_msg_list`, `defer_sending`, `uart_busy` | print, flush, process, UART callback | sleep control, UART interrupt | interrupt between test and append; interrupt between start and bookkeeping | all that is printed goes out |
| Advertising and GAP procedures, `app_modules/app_common/app.c`, `app_easy/app_easy_gap.c` | static command pointers, `adv_timer_id`, callback | start, stop, with timeout, update | easy timers, GAP task | timeout racing a connection or a restart | advertising stops once, the right callback runs |
| Bond database, `app_modules/app_bond_db` | `bdb` in retained RAM and its copy in flash or EEPROM | init, add, remove, search, clear | security, flash driver, scheduler | erase runs the scheduler, so handlers can enter again; reset between erase and write | RAM and flash agree; only the oldest entry is replaced |
| Security, `app_modules/app_sec`, `app_easy_security.c` | keys and state per connection | pairing, encryption, bonding messages | GAP task, bond database | order of messages | keys match the peer |
| Proximity reporter, `projects/target_apps/ble_examples/prox_reporter` | external wake-up flag, interrupt of the button, alert | advertising complete, button, wake-up | GAP task, BLE sleep, WKUPCT interrupt, wake-up message | the interrupt shares flag, callback and message with the handlers; a core that sleeps for ever | a sleeping device can be woken; it is dormant only when nobody needs it |
| Message callbacks, `app_modules/app_easy/app_easy_msg_utils.c` | `msg_util_callbacks`, `wakeup_id` | set, modify, free, dispatch | queue of TASK_APP, external wake-up | a queued message outlives its callback | a message reaches the callback it was sent for |
| Profiles and profile applications | per-profile environments | write and notify handlers | GATT in the host | mostly forwarding | outside of this project |
| Drivers, NVDS, crypto, radio | registers | initialise, transfer | hardware | busy waits | outside of this project |
| Kernel, BLE host and controller | in ROM or in a library | messages, timers, wake-up | all | not in source form | assumed as used |
| Blinky, examples, tools | none to speak of | one straight sequence; host tools | drivers | none | outside of this project |

`PROJECT.json` lists the same components with their files, and under `hazards` each place
where one of the difficulties bites, with the properties that watch it.

## Modules

| Module | What it is |
|---|---|
| `OneShotTimers` | abstract: what a one-shot timer promises |
| `AppEasyTimer` | the easy timers, their kernel and their queue |
| `AppEasyTimerProofs` | theorems about it |
| `MCAppEasyTimer` | instance for TLC |
| `ImageUpdate` | abstract: an update is one atomic change of the bootable image |
| `UpdateFlash` | the flash layout, NOR flash operations and the bootloader's choice |
| `Suotar` | the SUOTA receiver, its initiator, flash faults and power loss; implements `ImageUpdate` |
| `UpdateFlashProofs` | sectors, operations and the choice of the bootloader |
| `SuotarProofs` | type correctness of the receiver, and what each handler writes |
| `SuotarFlashProofs` | theorems about the flash at any loss of power |
| `MCSuotar` | instances for TLC |
| `SleepRequests` | abstract: the mode asked for, unless somebody holds active mode |
| `ArchSleep` | sleep control, console, UART interrupt and main loop composed; implements `SleepRequests` |
| `ArchSleepProofs` | theorems about it |
| `MCArchSleep` | instance for TLC |
| `BondTable` | abstract: what a bond database promises, also through a reset |
| `BondDb` | the table, its flash sector, and stores inside stores |
| `AppSecurity` | the client: one link that pairs, encrypts and resolves addresses, and the resolving list; implements `BondTable` |
| `AppSecurityProofs` | theorems about it |
| `MCAppSecurity` | instances for TLC |
| `Beacon` | abstract: what the owner of a proximity reporter sees |
| `EasyMsg` | the message callbacks and the wake-up message |
| `ProxReporter` | advertising with a timeout, dormancy, button, host and main loop composed; implements `Beacon` |
| `ProxReporterProofs` | theorems about it |
| `MCProxReporter` | instance for TLC |

Run TLC as `tlc -config <run>.cfg MC<component>.tla` and tlapm as `tlapm
<component>Proofs.tla`; the SUOTA proofs are in three modules, each checked on its own.
Definitions named `<definition>_<variant>` or `<operation>_<variant>` with a comment
"Mutant:" are deliberate bugs; the specifications never use them, and each one, put in the
place of the original, violates the property `PROJECT.json` names for it.

The constants named `AppHabits`, `InitiatorHabits`, `FlashQuirks`, `LinkQuirks` and
`ButtonQuirks` list what the environment does beyond careful use or ordinary timing. The
empty set is a careful caller; the calls that the code accepts and mishandles are named
one by one, so a run can show what each one does and a theorem can say which are excluded.
A run that excludes one says nothing about it: the hazards that need it name no property
of such a run, and their notes say what TLC finds when it is allowed.

## Easy timers

**State.** The C arrays become functions on `Slots`; `ke_timers` is the kernel timer with
the message id of the slot, `ke_queue` the messages of TASK_APP in order, `ble_active` the
result of `app_check_BLE_active()`. `asked` and `calls` are history: what the application
asked for last and what ran last.

**Actions.** `app_easy_timer`, `app_easy_timer_cancel`, `app_easy_timer_cancel_all` and
`app_easy_timer_modify` are the API functions with all their effects; a call that only
warns changes nothing and is no step. `create_timer_handler`, `cancel_timer_handler`,
`modify_timer_handler` and `call_callback_handler` handle the head of the queue. The
callback of a user may call the API again: the slot is free before the callback runs, so
those calls are separate API steps. The cancel message of `app_easy_timer_cancel` leaves
the field `delay` unwritten; the model reads any value there (`DelayRead`). `Tick`,
`ke_timer_expiry`, `rwip_sleep` and `ble_wakeup` are the kernel in ROM, external.

**Runs.**

* `timer_safe`: two slots, two callbacks, delays up to two ticks, API calls while the
  queue holds fewer than six messages. Two slots are what "lowest free slot" and "cancel
  all" need; a slot never has more than two messages, so six never holds back two slots
  for long; two ticks separate "not yet armed", "running" and "due". Checks the type
  invariant, that a free slot has left nothing behind (`FreeSlotIsClean`), that a canceled
  slot has its freeing message (`CanceledSlotWillBeFreed`), that a live timer has exactly
  one thing that leads to its callback (`LiveTimerIsArmedOnce`), that a callback is never
  early, stale or foreign (`CallbackOnlyWhenDue`), the inductive invariant `IInv` of the
  proofs, the refinement `ImplementsOneShot`, and under fairness `DueTimerIsServed` and
  `CanceledSlotIsReused`. Weak fairness of the handlers (the main loop schedules as long
  as the core is awake), of time, of each kernel timer's expiry, and of the wake-up (the
  sleep duration is bounded by `max_sleep_duration`). No fairness on API calls: an
  application may stop calling, or keep canceling.
* `timer_modify_canceled`: one slot and one careless habit; see [findings](#findings). The
  other two habits break `FreeSlotIsClean`, `LiveTimerIsArmedOnce` and
  `CallbackOnlyWhenDue`: `touch_creating`, because a timer started while BLE slept is
  armed from a message, also when it was canceled before that, and then runs the callback
  of the slot's next timer; `cancel_modifying`, because two cancel messages are queued for
  one slot. They have no run of their own.

## Firmware update

**State.** The flash is counted in units: an image header is a unit and the code is a
sequence of units that know which image and position they belong to. A sector is two units
and a bank two sectors in the runs, enough for a header with code in its sector, a second
sector, and a write that crosses, starts at or ends at a sector boundary. Programming only
clears bits: a unit written without an erase is `Spoiled`. `suota_state` has the fields of
the C structure that outlive a call; `peer` is the initiator, `status` its last
notification.

**Actions.** Each write of the initiator is one action with the switch of
`app_suotar_read_mem` in its disjuncts; devices other than the external memories select
`IMG_INT` or, as unknown ones, nothing. `suotar_patch_data_ind` is the handler with the
guards of the code alone: a device selected, a length announced, room in the buffer. What
the initiator sends when is kept apart, in `MayAnnounce` and `peer_sends_data`. A complete
block computes the XOR, chooses the bank, checks the header (in the order of the code) and
leaves a list of single flash operations in `job`; `flash_operation` does one of them,
`unchecked_fault` and `checked_fault` let it fail (an erase inside `app_flash_write_data`
is not checked), `handler_returns` does what follows the last one. Nothing but
`PowerCycle` interleaves with a job, because handlers run to completion. `loadActiveImage`
and `findlatest` are operators used by `Restart` and by the properties, so receiver and
bootloader are checked against each other.

**Runs.** Image ids end at 2 (at 3 in `suota_forced`) instead of 255, so they wrap within
a few updates.

* `suota_safe`: two images that reach into the second sector, power loss before each flash
  operation, failing reads and writes, lost links, blocks sent again. `AlwaysBootable`: at
  every moment a reset boots an intact image. `FlaggedImageIsIntact`: the valid flag
  stands on complete images only. `CompletedImageBoots`: the final OK means the next reset
  runs the new image. `AcknowledgedIsWritten`: what was acknowledged is in the flash at
  its place. `UpdateIsAtomic`: refinement of `ImageUpdate`.
* `suota_forced`: the initiator chooses the bank; `IdsAreConsecutive`, on which the
  comparison of ids by both sides rests, through several wraps. It also sends requests
  outside of a session, for other devices, for invalid banks and of wrong lengths, with
  erases that fail: nothing outside the banks is written (`OutsideBanksUntouched`). Data
  it sends only within a session. With four ids a step of two would show. The two images
  have the same length and may both come from the factory, so they are symmetric; both
  properties are invariants, for which that reduction is sound.
* `suota_full`, `suota_corrupt`: see [findings](#findings).

**Assumptions on the initiator.** After an error status it starts again, or sends the
refused block again; it sends data in a session only, the next of its file, and ends the
session only after the whole file. The code checks none of this, and no passing run allows
the two habits that break it, both listed as hazards:

* `any_data`: the request for an invalid bank is refused, but the device is selected, and
  index, announced length and XOR are those of the session before
  (`app_modules/app_suotar/app_suotar.c:144`). Data that follows is accepted and written
  from the refused number on, as if it were a base address: in sector 0. With this habit
  next to `stray` TLC finds `OutsideBanksUntouched` violated in 14 steps.
* `end_early`: the image end request is accepted with no image in progress; the XOR is
  still zero and the base address still a bank number, so the flag goes to the start of
  the flash.

**Idealised.** The XOR of distinct units is zero only for whole files, and a CRC32 matches
only the right code: chance collisions are not the subject. An erase is atomic; a torn
erase differs only by leaving units no header points to intact, except in the sector of
the header, where it leaves a spoiled header, which is as invalid as an erased one.

## Sleep mode

**State.** The variables of `arch_sleep.c` and of the console, `op` for the call of
`arch_sleep.c` the main loop is in, `pc` for the place in `main()`. `holding` is history:
who forced active mode and did not restore it.

**Actions.** `sleep_cnt++` and `sleep_cnt--` in the main loop are a load and a store
(`load_cnt`, `store_cnt`) with the rest of the function after it (`finish_force`,
`finish_restore`); setting a mode tests `sleep_md` and then writes `sleep_pend`
(`call_set`, `store_pend`). The UART interrupt `uart_callback` can come between any of
these steps, and does the whole of `arch_restore_sleep_mode` at once, since nothing
interrupts it. The critical section of `arch_printf_flush` is one step. `app_asynch_proc`
to `arch_goto_sleep` are the phases of the main loop: it sleeps with the interrupts off
and only when `sleep_enable` was found set.

**Runs.**

* `sleep_safe`: two parts of the application that hold, all three modes, a counter of four
  values (it never wraps, as long as there are fewer holders than values:
  `CntAssumption`), a buffer of three texts and a list of three messages: enough for an
  empty, a filled and a full buffer and for a message behind the one being sent.
  `AwakeWhileHeld`: no step puts the system or the BLE core to sleep while the UART sends
  or active mode is held. `NoMessageIsLeftBehind`, `NothingPending`,
  `OnlyLateTextsAreLost`, the refinement `ModeIsTheOneAskedFor`, and under fairness
  `MessagesGoOut`.
* `sleep_race`: as above with an application that forces and restores while the console
  prints. An application that sets a mode then (`set_while_printing`) breaks
  `NothingPending` and `ModeIsTheOneAskedFor`; it has no run of its own.

The line buffer of the console is not in the retained RAM: `arch_goto_sleep` loses what is
in it, or not, if the block is retained for another reason. The comment on the buffer says
that nothing can be, it is "flushed at end of each main loop iteration"
(`platform/core_modules/arch_console/arch_console.c:51`). That is not so of what is
printed after the console was processed in an iteration, from `app_asynch_proc` for
instance (`platform/arch/main/arch_main.c:431`): such a text can be lost, and TLC finds
`lost = 0` violated. `late` counts these texts, and `OnlyLateTextsAreLost` is what is left
of the comment: a text of a handler, printed before, never is.

**Fairness.** Weak fairness of the steps of a call, of the console, of the main loop and
of the UART (a transfer ends). Strong fairness of `app_asynch_proc` and of `submit`: both
stand where the application may run any number of callbacks (prints, calls), and the code
reaches the end of them each time round. Strong fairness of the wake-up at the head of the
loop or asleep: the BLE core wakes again and again, and not each time in the few
instructions between the test of the core and the sleep, in which the model lets it wake
as well.

## Bonds and security

**State.** `bdb` is the table in retained RAM, `flash` its sector: a table, or
`Unreadable` from the start of an erase to the end of the write (and after a reset in
between). A bond has the fields the searches compare and the users take: address,
resolving key, identity, the flag that the key is there, long term key. `stack` holds the
stores in progress: while the sector erases, `bond_db_erase_flash_sectors` lets the
scheduler run handlers, and one of them may store again, inside the store that waits.
`gave_up` is history: since the last write a store gave up on its erase, or a reset could
not wait for it. `ral` is the resolving list of the controller, from identities to keys,
of `RalSize` entries. Of the link the model keeps how far the host has told the
application (`phase`), `pairing_in_progress`, the data in use (`app_sec_env`), the key
given to the host, and an address resolution under way. `own` is what the peers know of
themselves: the reference for the properties.

**Actions.** One per message of `app_security_task.c` with the default handlers it calls,
down to the store; `EraseEnds`, `EraseDone` and `PowerDown` are the steps of a store that
waits, and continue the handler that waits for it. `EraseTimesOut` is the exit of the
erase after `SPI_FLASH_WAIT` rounds: the write is skipped and the flash powered down.
`Reset` comes at any point: RAM is lost, and either the erase has ended and the sector is
loaded or, as it has no table, cleared and stored again (`LoadedOrCleared`); or the
processor alone was reset and the flash is still busy, so that it refuses the load, the
erase for the fresh table and the power-down (`FlashStaysBusy`). With controller privacy
the resolving list is then filled from the table, one slot per step. `Added` refuses a new
identity when the list is full: the application has an assertion there
(`default_app_on_ral_cmp_evt`), which a production build does not, and goes on. Nothing
takes a bond that is removed or evicted, or a pairing that failed, out of the list; only a
reset empties it.

**Runs.**

* `bond_safe`: three peers, one of them behind resolvable addresses and one without Secure
  Connections, for two slots, so the full table, a replacement and an eviction happen;
  three pairings; two stores inside each other, any of which may time out; a resolving
  list of two entries, so that three peers fill it; builds with and without controller
  privacy. `StoredAtRest`: with no store in progress the flash has the table of the RAM,
  or none if the last erase was given up, and never another one. `PairingFlagAgrees`: the
  flag the encryption handler goes by agrees with the host. `BondedIdentityIsListed`: the
  controller knows every bonded identity, as long as its list has room. `RightKeyIsGiven`:
  a key given to the host is that of the pairing under way, or of the last bond with this
  very peer. `BondedPeerIsServed`: nobody is rejected whose key is in the table.
  `ImplementsBondTable`: changes follow the replacement rule, and a reset brings back a
  table that was saved or none, never a mixture. The VIEW of the run hides `sec_env`
  outside of a pairing, where it is only written: the steps of a pairing set each of its
  fields before anything reads them, as every peer of this run has a resolving key.
  Without the view, four times the states, the run passes as well.
* `bond_sync`, `bond_rebond`: see [findings](#findings). `bond_sync` states fairness of
  the loop only, which runs without a break, and asks nothing when resets go on for ever.

**Assumptions.** One link at a time (`conidx` 0); an address resolution ends before the
next link; every pairing bonds, and a peer pairs only while it holds no bond; the table
fits one sector. An erase or a write cut short leaves a sector without valid headers.

**What does not hold.** Without its conditions neither property would be true of the code.
`stack = << >> => flash = bdb` fails when an erase times out, and when the processor is
reset while the flash is busy: the bonds are in the RAM only, or gone, until the next
store. And with a list of two, three peers and no condition on its room,
`BondedIdentityIsListed` fails: a removed bond and a failed pairing keep their entries,
and the next peer is not listed. With an entry for each peer there is it holds without the
condition, which is a theorem. Left out of the passing run, each with the property TLC
shows broken by it:

* `ends_in_store` (`StoredAtRest`): the erase ends in the microseconds between two status
  reads of a store that found the flash busy;
* `reconnect_in_save` (`PairingFlagAgrees`): a link lost and made anew within one erase;
* `silent_loss` (`PairingFlagAgrees`): a link lost while it pairs, with no failure
  reported;
* a peer without a resolving key next to a private one (`RightKeyIsGiven`): the key of the
  last peer stays in `app_sec_env` and is stored with the bond of the next;
* a peer that changes its resolving key (`BondedIdentityIsListed`, and `RightKeyIsGiven`
  in `bond_rebond`): the new key takes the place of the old one in the list when it is
  exchanged, before there is a new bond.

## Advertising and the button

**State.** The variables of `app.c`, the advertising timer as a handle (`live`) that
behaves as `OneShotTimers` promises, the queues of TASK_APP and of the host's task, the
external wake-up flag, the interrupt of the button, `msg_util_callbacks` and `wakeup_id`,
and `pc`, the place inside the two handlers that share state with the interrupt.

**Actions.** `AdvertisingCanceled`, `SetWakeup`, `ReadPin` and `ArmIrq` are the steps of
`app_advertise_complete` between which the interrupt may come; `CallCallback`,
`FreeCallback` and `RunWakeup` those of the message callback. `WKUP_QUADEC_Handler` is the
interrupt with `app_button_press_cb`. The other handlers share nothing with it and are one
step each. The host is external: it starts, cancels if it advertises, connects, and
reports the end of advertising before or after the connection. Of the button, the pin may
go low between the read of the pin and the enabling of the interrupt; the controller then
counts that event or not.

**Run** `adv_safe`: two handles (a timer is always free, as the application holds one),
three ticks, at most six messages, which is more than a press, a connection and a
disconnection together leave behind. `SleepIsLeft`: a device asleep advertises, has a
link, or has its button enabled and the callback bound. `WakeupIsBound`: a wake-up message
finds its callback. `DormantIsQuiet`: the BLE core is stopped only without advertising,
link, command or timer. `AdvTimerIsHeld`: the timer that runs is the one the application
can still cancel. `HostAndTaskAgree`: the `ASSERT_ERROR`s of `app_task.c` are not reached,
and the host is never asked to start twice. `ImplementsBeacon`: dormant only after a full
period, up again only after a press. `Beacon` has a clock: it lies down only when it has
advertised for `Period` ticks since it got up or lost its link. The history `age` counts
these ticks in `ProxReporter`, from the ticks of the kernel and not from the advertising
timer, so a timer that starts late or is left running for the next advertising breaks the
refinement (the mutant `with_timeout_stop_running`). And under fairness `AdvertisingEnds`
and `AdvertisesAgain`, after a press or a lost link. Fairness is weak, of the main loop,
the timeout, the host's commands, the interrupt, the BLE core's wake-up, time, and the
release of the button (nobody holds it for ever); the peer may connect, disconnect and
stay away as it likes.

`held` in `ButtonQuirks` is a button held down at the moment the device goes dormant: its
interrupt is then left off (`user_proxr.c:121`), the device sleeps for ever, and TLC shows
`SleepIsLeft` broken. The alert LED is left out; a hazard notes what a blink message
queued at the end of an alert does to it.

## Proofs

The theorems hold for every value of the constants; the runs show the same formulas on
small instances.

**`AppEasyTimerProofs`** assumes an application without the three habits (`AppHabits =
{}`), any number of slots, delays, callbacks and queue length. The properties are not
inductive: a handler's step depends on why its message is there. `IInv` says it. `SlotOK`
lists the five states of a slot (free, canceled, being modified, running, waiting in the
queue) with what the application is owed in each; `MessageOK` says for each message which
state of its slot it belongs to and that its delay is not too short; `ExpiryFirst` says
that two messages of one slot are an expiry and, behind it, a cancel or a modify. The
proof goes action by action; lemmas about the tail and the extension of the queue carry
the messages that stay. From `IInv` follow `TypeCorrect`, `FreeSlotsAreClean`,
`CanceledSlotsWillBeFreed`, `LiveTimersAreArmedOnce`, `CallbacksOnlyWhenDue`, and
`Refinement`: each step is a step of `OneShotTimers` or leaves `asked` and `calls` alone.

**`ArchSleepProofs`** assumes `Polite`: the application does not touch the sleep mode
while the console prints (`AppHabits = {}`). Users, size of the counter and buffer are
arbitrary within the assumptions of `ArchSleep`. The inductive invariant ties `sleep_md`,
`slp_state`, `sleep_enable` and `sleep_pend` to whether anybody holds; makes `sleep_cnt`
the cardinality of `holding` corrected by the call in progress; says that the console
holds exactly while it sends, with the list not empty; and that no call is in progress
while it does. The last part is what excludes the race of the interrupt, and it is where
`Polite` is needed. From it follow `TypeCorrect`, `SleepsOnlyWhenFree`,
`MessagesAreTakenCareOf`, `AllReleased` and `Refinement`; and, as each text in the buffer
is a late one whenever the system may sleep, `HandlerTextsAreKept`.

**`ProxReporterProofs`** assumes that the button is not held while the device goes dormant
(`"held"` not in `ButtonQuirks`), with any number of timer handles, any period and any
bound of the queue. `Stage` names the eight stages of the advertising: `Booting`,
`Requested`, `Advertising`, `Over`, `Dormant`, `Awoken`, `Connecting`, `Connected`. Each
says what `queue`, `cmds`, `host`, the timer and the external wake-up flag hold in it, so
that there is always exactly one thing that carries the device on; an event that reaches
the task in the wrong stage is excluded by that. The handlers move from stage to stage,
and the interrupt of the button can come between any two steps of
`app_advertise_complete`. The properties and the refinement of `Beacon` follow stage by
stage; for the latter `AgeInv` says that the timer that runs has left what is missing from
a full period, so that a timeout comes at the end of one.

**`AppSecurityProofs`** holds for any number of slots, peers, keys, pairings and stores
inside one another, with seven invariants, each as strong as its property needs:

* `FlashInv`: in power-down the flash holds the table. Out of it the sector is erased, and
  there is a store in progress that has still to write it, unless an erase was given up. A
  store that found the flash busy, or gave up, is on top of the others. It gives
  `StoredAtRest`, without `ends_in_store`.
* `PairInv`: the flag is set exactly while the link pairs or *one* store of the stack
  belongs to a completed pairing. It gives `PairingFlagAgrees`, with `LinkQuirks = {}`.
* `ListInv`: the loop that fills the resolving list has passed only slots that hold a key,
  so when it has passed as many slots as there are keys it has seen all of them. This is a
  counting argument (an index over slots against a number of keys), and why what TLC shows
  in `bond_sync` costs the loop its end and not the list its entries. While the list has
  room all of them are in it, and so is the identity of a pairing under way: what an entry
  is replaced or refused by is the content of `AddedExtends` and `RelistedExtends`. With
  `GenuineInv`, that keys stand only under the identities of peers that have them, it
  gives `BondedIdentityIsListed` for peers that keep their keys; and
  `LargeListHasEveryBond` without its condition for a list with an entry for every peer,
  as a list without room then knows everybody.
* `AgeInv`: the counter is ahead of every timestamp, in RAM and in the flash, hence the
  replacement rule of `BondTable` and what a reset brings back. A reset that finds the
  flash busy loads nothing and loses nothing, because the sector is being erased
  (`EraseInv`). No assumption.
* `BondInv` and `KeyInv`: a slot holds the last bond of its peer, and there is no second
  one. They give `RightKeyIsGiven` and `BondedPeerIsServed`, for `FaithfulPeers`: each
  peer has one resolving key of its own, not zero, and no peer's address is the number of
  a random one. The code needs this. The handler of a pairing request clears `valid_keys`
  and leaves the keys of the last peer in `app_sec_env`
  (`app_modules/app_sec/app_security_task.c:70`), and two searches compare the resolving
  key without asking whether there is one (`app_modules/app_bond_db/app_bond_db.c:411` and
  `:480`). With a peer that has no resolving key TLC finds `RightKeyIsGiven` broken, and
  with one that changes it, `bond_rebond`.

**`UpdateFlashProofs`, `SuotarProofs`, `SuotarFlashProofs`** hold for any images, any size
of banks, sectors and blocks, any ids, and a loss of power before any flash operation. The
first has facts on sectors and on how the receiver and the bootloader choose a bank. The
second has `TypeInv`, whose core is that both sides count alike (`SessionInv`: what is
confirmed, buffered and sent of one image), and the list of operations each handler
leaves. An initiator that sends data at any moment breaks it, so all of this assumes
`Orderly` (`"any_data"` not in `InitiatorHabits`), for every other initiator. The third
has, each on top of the one before:

* `OutsideInv`: every operation of a job stays between the first sector and the product
  header. `WholeFiles` excludes data outside of a session and an image end request with
  nothing in progress (`"any_data"` and `"end_early"` not in `InitiatorHabits`): the code
  accepts both, and writes outside of the banks. From it `RestOfTheFlashIsUntouched`,
  whatever fails and whatever bank is forced.
* `StoreInv`: what was confirmed is in its place (`Written`), and the rest of its last
  sector is erased or right (`Ready`). While a handler runs, this is said of what its
  *remaining* operations make of each cell: `Settled`, it will hold the right unit and no
  later erase takes it; `Prepared`, it can be written. When erases can fail unseen it says
  this of the header alone, whose erase is checked (`Sure`), and that is enough for
  `IdsStayConsecutive`, also with forced banks. For the rest erases must not fail unseen
  (`"erase"` not in `FlashFaults`; `suota_corrupt` shows why). Both need `Fits`: banks of
  more than a sector, images smaller than a bank (`suota_full` shows why). Of all cells it
  gives `AcknowledgedStaysWritten`, `FlaggedImagesAreIntact` and `CompletedImagesBoot`.
* `BootInv`: while one bank is written the other one is valid. It needs the receiver's own
  choice of the bank (no `force_bank`) and a device with an image (`DeliveredWithImage`).
  From it `DeviceStaysBootable` and `RunningImageIsIntact`.
* `TwinInv` (equal ids mean the same image), `ActiveInv` and `OtherInv` (what a reset
  boots before, during and after the header is rewritten), for `UpdatesAreAtomic`, the
  refinement of `ImageUpdate`: only the write of the valid flag changes what a reset
  boots. It needs `OneFactoryImage`: a factory that fills both banks puts the same image
  into them. With two different ones, both with the factory's id, the receiver takes the
  first bank for the old one while the bootloader runs it, and TLC finds `UpdateIsAtomic`
  broken by the first erase.

Each hypothesis on a constant is met by the run that checks the same property, so none of
the theorems is empty.

**Only model-checked.** Liveness under fairness (`DueTimerIsServed`,
`CanceledSlotIsReused`, `MessagesGoOut`, `AdvertisingEnds`, `AdvertisesAgain`) is out of
the prover's reach, and the runs that expect a violation are counterexamples. Every other
property of a passing run is a theorem. No definition is RECURSIVE, so every module can be
proved about.

## Findings

Each is a TLC counterexample of a run whose expected result is a violation.

* `timer_modify_canceled`: `app_easy_timer_modify` accepts a timer that is being canceled,
  saves the dummy callback and restores it later: the slot is lost.
* `suota_full`: a write that ends at a sector boundary erases the next sector; an image
  that fills the first bank, which the size check admits, destroys the header of the
  second.
* `suota_corrupt`: the result of the erase inside a write is dropped; a corrupted image is
  flagged valid, and the bootloader starts a single valid image although its CRC does not
  match.
* `sleep_race`: `sleep_cnt--` in the main loop against the one in the UART interrupt: a
  lost decrement keeps the system awake for ever.
* `bond_sync`: `app_easy_security_ral_sync_with_bdb` compares an index over slots with the
  number of keys and advances only on slots that hold one: with a slot without a key in
  front the loop does not end.
* `bond_rebond`: the header of the bond database says that a bond with the same key *or*
  the same address is replaced; the code compares addresses only if one of the two has no
  key. A phone with a new key and its old address gets a second slot, and the search by
  address returns the old bond and its key.

## Not modelled

* SUOTA: the I2C EEPROM variant (same control, other driver), the patch variants and the
  notifications of the profile; of the bootloader, the UART loader, encryption and the
  boot header of AN-B-001.
* Sleep: `arch_set_deep_sleep` (ends in a reset), clocks, retention registers, radio
  calibration and the computation of the sleep duration; the console in ROM; a failing
  `ke_malloc`; formatting.
* `sleep_cnt` wraps after 256 unmatched calls; the models bound the holders below the size
  of the counter.
* Bonds and security: the I2C EEPROM variant, the contents of the pairing messages,
  temporary and signature keys, the security request, more than one link.
* Advertising: the contents of the commands (kept in static pointers from the first access
  to the send), directed and non-connectable advertising, scanning, the white list, a
  timeout callback of the application (no application of the repository gives one), other
  users of the message callbacks (there are none), the alert LED, deep sleep and
  hibernation.
* Kernel, host and controller are in ROM or in a library; only what the code relies on is
  stated, and marked external.
* Size: `src/` has some 370,000 lines, and nearly all of them are image data, register
  headers, vendor libraries and copies of examples, which hold no state or control to
  model. The logic of the SDK is in a few dozen files of a few hundred lines each, and of
  these the modules above cover the ones with interrupts, failures or ordering in them.
* Profiles, drivers, NVDS, blinky, examples and host tools: forwarding, register accesses
  or straight-line code.

## Plan

Done, in this order: easy timers with proofs, SUOTA with the bootloader, sleep control
with console and main loop and proofs, bond database with security, advertising with the
dormant sleep, and the proofs of the last two and of SUOTA. To come:

1. What still holds when the hypotheses fail, as theorems of their own: which images
   survive an erase that fails unseen, what a forced bank leaves bootable, which keys are
   right without `FaithfulPeers`, what a button held down can cost at most.
2. The alert LED and its blink timer in `ProxReporter`.
