------------------------- MODULE ProxReporterProofs -------------------------
(* What ProxReporter guarantees for any number of timer handles and        *)
(* messages, any advertising period and any capacity of the queue, as long *)
(* as the button is not held while the device goes dormant.                *)
EXTENDS ProxReporter, SequenceTheorems, TLAPS

(* One period of advertising after the other: where the next one comes     *)
(* from is either in the queue of the task, in the commands to the host,   *)
(* in the host, or in the timer, and never in two of these.                *)
CompletedMsg == Event("completed")
CanceledMsg  == Event("canceled")
ConnMsg      == Event("conn")
DiscMsg      == Event("disc")
WakeupMsg    == [kind |-> "msg", id |-> wakeup_id]

Unlinked    == host = "idle" /\ ~linked /\ ~ext_wakeup
Connectable == task_state = "APP_CONNECTABLE"
TimerOff    == adv_timer_id = 0

(* The application has not asked for anything yet.                         *)
Booting ==
    /\ Unlinked /\ pc \in {"boot", "start"}
    /\ task_state = "APP_DISABLED" /\ TimerOff /\ queue = <<>> /\ cmds = <<>>

(* The host has still to start, and perhaps to cancel what it had started. *)
Requested ==
    /\ Unlinked /\ pc = "loop"
    /\ Connectable /\ queue = <<>>
    /\ \/ ~TimerOff /\ cmds \in {<<"start">>, <<"cancel", "start">>}
       \/ TimerOff /\ cmds \in {<<"start", "cancel">>, <<"cancel", "start", "cancel">>}

Advertising ==
    /\ host = "advertising" /\ ~linked /\ ~ext_wakeup /\ pc = "loop"
    /\ Connectable /\ queue = <<>>
    /\ \/ ~TimerOff /\ cmds = <<>>
       \/ TimerOff /\ cmds = <<"cancel">>

(* The task has still to hear that the period is over.                     *)
Over ==
    /\ Unlinked /\ pc = "loop"
    /\ Connectable /\ TimerOff /\ queue = <<CanceledMsg>> /\ cmds = <<>>

Dormant ==
    /\ host = "idle" /\ ~linked /\ ext_wakeup /\ pc \in {"set", "read", "arm", "loop"}
    /\ Connectable /\ TimerOff /\ queue = <<>> /\ cmds = <<>>

(* The press has put the wake-up message into the queue.                   *)
Awoken ==
    /\ Unlinked /\ pc \in {"set", "read", "arm", "loop", "call", "run"}
    /\ Connectable /\ TimerOff /\ queue = <<WakeupMsg>> /\ cmds = <<>>

(* The task has still to hear of the connection, which may be lost again.  *)
Connecting ==
    /\ host = "idle" /\ ~ext_wakeup /\ pc = "loop" /\ Connectable
    /\ \/ linked /\ queue \in {<<CompletedMsg, ConnMsg>>, <<ConnMsg, CompletedMsg>>, <<ConnMsg>>}
       \/ ~linked /\ queue \in {<<CompletedMsg, ConnMsg, DiscMsg>>,
                                <<ConnMsg, CompletedMsg, DiscMsg>>,
                                <<ConnMsg, DiscMsg>>}
    /\ \/ cmds = <<>>
       \/ TimerOff /\ cmds = <<"cancel">>

Connected ==
    /\ host = "idle" /\ ~ext_wakeup /\ pc = "loop"
    /\ task_state = "APP_CONNECTED" /\ TimerOff
    /\ \/ linked /\ queue \in {<<>>, <<CompletedMsg>>}
       \/ ~linked /\ queue \in {<<DiscMsg>>, <<CompletedMsg, DiscMsg>>}
    /\ cmds \in {<<>>, <<"cancel">>}

Stage == Booting \/ Requested \/ Advertising \/ Over \/ Dormant \/ Awoken \/ Connecting \/ Connected

(* Nobody serves the button.                                               *)
Elsewhere == Requested \/ Advertising \/ Over \/ Connecting \/ Connected

TypeInv ==
    /\ adv_timer_id \in Handles \cup {0}
    /\ live \in [Handles -> {NoTimer} \cup 0..Period]
    /\ Len(queue) <= MaxQueue
    /\ linked \in BOOLEAN /\ ext_wakeup \in BOOLEAN /\ asleep \in BOOLEAN
    /\ age \in 0..Period
    /\ button \in {"high", "low"} /\ irq \in {"off", "armed", "pending"}
    /\ msg_util_callbacks \in [Messages -> {NULL, app_wakeup_cb}]
    /\ wakeup_id \in Messages \cup {0}

TimerInv == \A h \in Handles : live[h] # NoTimer <=> adv_timer_id = h

(* The button wakes the dormant device, and its callback is there when the *)
(* message is served.                                                      *)
ButtonInv ==
    /\ IF pc = "boot" THEN irq = "off" /\ MsgInit ELSE wakeup_id \in Messages
    /\ Dormant /\ pc # "set" => WakeupIsSet
    /\ Dormant /\ pc = "loop" => irq # "off"
    /\ Awoken /\ pc # "run" => WakeupIsSet

SleepInv == asleep => pc = "loop" /\ queue = <<>> /\ cmds = <<>>

(* What is left of the advertising timer and the time the device has been  *)
(* advertising make a full period at least; a period that is over was one. *)
AgeInv ==
    /\ linked \/ ext_wakeup => age = 0
    /\ Requested \/ Advertising =>
          IF TimerOff THEN age = Period ELSE age >= Period - live[adv_timer_id]
    /\ Over => age = Period

IInv == TypeInv /\ Stage /\ TimerInv /\ ButtonInv /\ SleepInv /\ AgeInv
-----------------------------------------------------------------------------
(* Short queues. *)

(* What is appended to a tuple of one or two comes last. *)
LEMMA ShortAppend ==
    /\ \A a : Append(<<>>, a) = <<a>>
    /\ \A a, b : Append(<<a>>, b) = <<a, b>>
    /\ \A a, b, c : Append(<<a, b>>, c) = <<a, b, c>>
<1>1. \A a : Append(<<>>, a) = <<a>>
  OBVIOUS
<1>2. ASSUME NEW a, NEW b
      PROVE  Append(<<a>>, b) = <<a, b>>
  <2>. DEFINE t == Append(<<a>>, b)
  <2>1. /\ <<a>> \in Seq({a, b}) /\ <<a, b>> \in Seq({a, b}) /\ b \in {a, b}
        /\ Len(<<a>>) = 1 /\ Len(<<a, b>>) = 2
    OBVIOUS
  <2>2. t \in Seq({a, b}) /\ Len(t) = 2 /\ t[1] = a /\ t[2] = b
    BY <2>1, AppendProperties
  <2>3. \A i \in 1..2 : t[i] = <<a, b>>[i]
    <3>. HIDE DEF t
    <3>. QED
      BY <2>2
  <2>. QED
    BY <2>1, <2>2, <2>3, SeqEqual
<1>3. ASSUME NEW a, NEW b, NEW c
      PROVE  Append(<<a, b>>, c) = <<a, b, c>>
  <2>. DEFINE t == Append(<<a, b>>, c)
  <2>1. /\ <<a, b>> \in Seq({a, b, c}) /\ <<a, b, c>> \in Seq({a, b, c}) /\ c \in {a, b, c}
        /\ Len(<<a, b>>) = 2 /\ Len(<<a, b, c>>) = 3
    OBVIOUS
  <2>2. t \in Seq({a, b, c}) /\ Len(t) = 3 /\ t[1] = a /\ t[2] = b /\ t[3] = c
    BY <2>1, AppendProperties
  <2>3. \A i \in 1..3 : t[i] = <<a, b, c>>[i]
    <3>. HIDE DEF t
    <3>. QED
      BY <2>2
  <2>. QED
    BY <2>1, <2>2, <2>3, SeqEqual
<1>. QED
  BY <1>1, <1>2, <1>3

(* Two messages, appended together to an empty queue, keep their order.    *)
LEMMA ShortConcat ==
    \A a, b : <<>> \o <<>> = <<>> /\ <<>> \o <<a>> = <<a>> /\ <<>> \o <<a, b>> = <<a, b>>
  OBVIOUS

(* The first message of a short queue, and the queue without it.           *)
LEMMA ShortTail ==
    /\ \A a : <<a>> # <<>> /\ Head(<<a>>) = a /\ Tail(<<a>>) = <<>> /\ Len(<<a>>) = 1
    /\ \A a, b : /\ <<a, b>> # <<>> /\ Head(<<a, b>>) = a /\ Tail(<<a, b>>) = <<b>>
                 /\ Len(<<a, b>>) = 2
    /\ \A a, b, c : /\ <<a, b, c>> # <<>> /\ Head(<<a, b, c>>) = a /\ Tail(<<a, b, c>>) = <<b, c>>
                    /\ Len(<<a, b, c>>) = 3
  OBVIOUS

(* The queues of a connection, their first message and their rest.         *)
LEMMA IndicationQueues ==
    /\ \A m \in {CompletedMsg, ConnMsg, DiscMsg} : Head(<<m>>) = m /\ Tail(<<m>>) = <<>>
    /\ \A m, n \in {CompletedMsg, ConnMsg, DiscMsg} : Head(<<m, n>>) = m /\ Tail(<<m, n>>) = <<n>>
    /\ \A m, n, o \in {CompletedMsg, ConnMsg, DiscMsg} :
          Head(<<m, n, o>>) = m /\ Tail(<<m, n, o>>) = <<n, o>>
    /\ CompletedMsg # ConnMsg /\ CompletedMsg # DiscMsg /\ ConnMsg # DiscMsg
<1>1. CompletedMsg # ConnMsg /\ CompletedMsg # DiscMsg /\ ConnMsg # DiscMsg
  BY DEF CompletedMsg, ConnMsg, DiscMsg, Event
<1>. QED
  BY <1>1, ShortTail

(* A lost link is told after what is still to be told of it.               *)
LEMMA DisconnectionQueues ==
    \A m, n \in {CompletedMsg, ConnMsg, DiscMsg} :
        Append(<<m>>, DiscMsg) = <<m, DiscMsg>> /\ Append(<<m, n>>, DiscMsg) = <<m, n, DiscMsg>>
  BY ShortAppend

(* The commands to the host, the first of them and the rest.               *)
LEMMA CommandQueues ==
    /\ Head(<<"start">>) = "start" /\ Tail(<<"start">>) = <<>>
    /\ Head(<<"cancel">>) = "cancel" /\ Tail(<<"cancel">>) = <<>>
    /\ Head(<<"start", "cancel">>) = "start" /\ Tail(<<"start", "cancel">>) = <<"cancel">>
    /\ Head(<<"cancel", "start">>) = "cancel" /\ Tail(<<"cancel", "start">>) = <<"start">>
    /\ Head(<<"cancel", "start", "cancel">>) = "cancel"
    /\ Tail(<<"cancel", "start", "cancel">>) = <<"start", "cancel">>
  BY ShortTail

-----------------------------------------------------------------------------
(* The stage follows the steps. *)

(* A received message tells the stage, and what is left in the queue.      *)
LEMMA ReceivedStage ==
    ASSUME Stage
    PROVE  /\ Received("conn") => Connecting /\ Head(queue) = ConnMsg
           /\ Received("disc") => Connected /\ ~linked /\ queue = <<DiscMsg>>
           /\ Received("canceled") => Over
           /\ Received("completed") =>
                /\ Connecting \/ Connected
                /\ Head(queue) = CompletedMsg
           /\ Received("msg") => Awoken
<1>. USE ShortTail DEF Received, Event, CompletedMsg, CanceledMsg, ConnMsg, DiscMsg, WakeupMsg
<1>1. CASE Booting
  BY <1>1 DEF Booting
<1>2. CASE Requested
  BY <1>2 DEF Requested
<1>3. CASE Advertising
  BY <1>3 DEF Advertising
<1>4. CASE Over
  BY <1>4 DEF Over
<1>5. CASE Dormant
  BY <1>5 DEF Dormant
<1>6. CASE Awoken
  BY <1>6 DEF Awoken
<1>7. CASE Connecting
  BY <1>7 DEF Connecting
<1>8. CASE Connected
  BY <1>8 DEF Connected
<1>. QED
  BY <1>1, <1>2, <1>3, <1>4, <1>5, <1>6, <1>7, <1>8 DEF Stage

(* Steps that leave the stage's variables alone.                           *)
LEMMA SameStage ==
    ASSUME Stage, UNCHANGED <<task_state, adv_timer_id, queue, cmds, host, linked>>,
           UNCHANGED <<ext_wakeup, pc, wakeup_id>>
    PROVE  /\ Stage' /\ (Dormant <=> Dormant') /\ (Awoken <=> Awoken')
           /\ (Requested <=> Requested') /\ (Advertising <=> Advertising') /\ (Over <=> Over')
  BY DEF Stage, Booting, Requested, Advertising, Over, Dormant, Awoken, Connecting, Connected,
         Unlinked, Connectable, TimerOff, CompletedMsg, CanceledMsg, ConnMsg, DiscMsg, WakeupMsg

(* The advertising timeout: a cancel follows what the host was asked for.  *)
LEMMA TimeoutStage ==
    ASSUME IInv, AdvTimeout
    PROVE  /\ ~TimerOff /\ TimerOff'
           /\ \/ (Requested \/ Advertising) /\ (Requested' \/ Advertising')
              \/ Connecting /\ Connecting'
<1>1. ~TimerOff /\ TimerOff' /\ cmds' = Append(cmds, "cancel")
  BY HandlesAssumption DEF AdvTimeout, IInv, TypeInv, TimerInv, TimerOff
<1>2. UNCHANGED <<task_state, queue, hostVars, ext_wakeup, pc, wakeup_id>>
  BY DEF AdvTimeout, powerVars, msgVars
<1>3. pc = "loop"
  BY DEF AdvTimeout
<1>4. Requested \/ Advertising \/ (Connecting /\ cmds = <<>>)
  BY <1>1, <1>3 DEF IInv, Stage, Booting, Over, Dormant, Awoken, Connecting, Connected
<1>5. CASE Requested
  <2>1. cmds' \in {<<"start", "cancel">>, <<"cancel", "start", "cancel">>}
    BY <1>1, <1>5, ShortAppend, ZenonT(30) DEF Requested
  <2>. QED
    BY <1>1, <1>2, <1>5, <2>1 DEF Requested, Unlinked, Connectable, hostVars
<1>6. CASE Advertising
  <2>1. cmds' = <<"cancel">>
    BY <1>1, <1>6, ShortAppend DEF Advertising
  <2>. QED
    BY <1>1, <1>2, <1>6, <2>1 DEF Advertising, Connectable, hostVars
<1>7. CASE Connecting /\ cmds = <<>>
  <2>1. cmds' = <<"cancel">>
    BY <1>1, <1>7, ShortAppend
  <2>. QED
    BY <1>1, <1>2, <1>7, <2>1
    DEF Connecting, Connectable, hostVars, CompletedMsg, ConnMsg, DiscMsg
<1>. QED
  BY <1>4, <1>5, <1>6, <1>7

(* Advertising starts anew where no advertising is under way.              *)
LEMMA StartStage ==
    ASSUME with_timeout_start, cmds \in {<<>>, <<"cancel">>}, queue' = <<>>,
           Unlinked', pc' = "loop"
    PROVE  Requested'
<1>1. adv_timer_id' # 0 /\ Connectable'
  BY HandlesAssumption DEF with_timeout_start, Connectable
<1>2. cmds' \in {<<"start">>, <<"cancel", "start">>}
  BY ShortAppend DEF with_timeout_start
<1>. QED
  BY <1>1, <1>2 DEF Requested, TimerOff

(* The indications of the host reach the task.                             *)
LEMMA IndicationStage ==
    ASSUME IInv, gapc_connection_req_ind \/ gapc_disconnect_ind \/ AdvertisingCompleted
                 \/ AdvertisingCanceled
    PROVE  \/ /\ Connecting \/ Connected
              /\ Connecting' \/ Connected' \/ (Requested' /\ with_timeout_start)
           \/ AdvertisingCanceled /\ Over /\ Dormant' /\ pc' = "set"
<1>1. CASE gapc_connection_req_ind
  <2>1. Connecting /\ Head(queue) = ConnMsg
    BY <1>1, ReceivedStage DEF gapc_connection_req_ind, IInv
  <2>2. task_state' = "APP_CONNECTED" /\ TimerOff' /\ queue' = Tail(queue)
    BY <1>1, <2>1 DEF gapc_connection_req_ind, Connecting, Connectable, with_timeout_stop,
       TimerOff, Consumed
  <2>3. UNCHANGED <<cmds, hostVars, ext_wakeup, pc>>
    BY <1>1 DEF gapc_connection_req_ind, powerVars
  <2>4. \/ linked /\ queue' \in {<<>>, <<CompletedMsg>>}
        \/ ~linked /\ queue' \in {<<DiscMsg>>, <<CompletedMsg, DiscMsg>>}
    <3>. HIDE DEF CompletedMsg, ConnMsg, DiscMsg
    <3>1. CASE linked
      BY <2>1, <2>2, <3>1, IndicationQueues DEF Connecting
    <3>2. CASE ~linked
      BY <2>1, <2>2, <3>2, IndicationQueues DEF Connecting
    <3>. QED
      BY <3>1, <3>2
  <2>. QED
    BY <2>1, <2>2, <2>3, <2>4 DEF Connecting, Connected, hostVars, CompletedMsg, DiscMsg
<1>2. CASE gapc_disconnect_ind
  <2>1. Connected /\ ~linked /\ queue = <<DiscMsg>>
    BY <1>2, ReceivedStage DEF gapc_disconnect_ind, IInv
  <2>2. with_timeout_start /\ queue' = <<>> /\ UNCHANGED <<hostVars, ext_wakeup, pc>>
    BY <1>2, <2>1, ShortTail DEF gapc_disconnect_ind, Connected, Consumed, powerVars
  <2>. QED
    BY <2>1, <2>2, StartStage DEF Connected, Unlinked, hostVars
<1>3. CASE AdvertisingCompleted
  <2>1. (Connecting \/ Connected) /\ Head(queue) = CompletedMsg
    BY <1>3, ReceivedStage DEF AdvertisingCompleted, IInv
  <2>2. queue' = Tail(queue) /\ UNCHANGED <<task_state, adv_timer_id, cmds, hostVars, ext_wakeup, pc>>
    BY <1>3 DEF AdvertisingCompleted, Consumed, appVars, powerVars
  <2>3. CASE Connecting
    <3>1. \/ linked /\ queue' = <<ConnMsg>>
          \/ ~linked /\ queue' = <<ConnMsg, DiscMsg>>
      BY <2>1, <2>2, <2>3, IndicationQueues, ZenonT(30) DEF Connecting
    <3>. QED
      BY <2>2, <2>3, <3>1 DEF Connecting, Connectable, TimerOff, hostVars, ConnMsg, DiscMsg
  <2>4. CASE Connected /\ Received("completed")
    <3>1. \/ linked /\ queue' = <<>>
          \/ ~linked /\ queue' = <<DiscMsg>>
      BY <2>1, <2>2, <2>4, IndicationQueues, ZenonT(30) DEF Connected, Received
    <3>. QED
      BY <2>2, <2>4, <3>1 DEF Connected, TimerOff, hostVars, DiscMsg
  <2>. QED
    BY <1>3, <2>1, <2>3, <2>4 DEF AdvertisingCompleted
<1>4. CASE AdvertisingCanceled
  <2>1. Over
    BY <1>4, ReceivedStage DEF AdvertisingCanceled, IInv
  <2>2. queue' = <<>> /\ ext_wakeup' /\ pc' = "set"
    BY <1>4, <2>1, ShortTail DEF AdvertisingCanceled, Consumed, Over
  <2>3. UNCHANGED <<task_state, adv_timer_id, cmds, host, linked>>
    BY <1>4 DEF AdvertisingCanceled, appVars
  <2>. QED
    BY <1>4, <2>1, <2>2, <2>3 DEF Over, Dormant, Unlinked, Connectable, TimerOff
<1>. QED
  BY <1>1, <1>2, <1>3, <1>4

(* A connection ends the advertising, and the task hears of both.          *)
LEMMA ConnectQueue ==
    ASSUME IInv, HostConnect
    PROVE  Advertising /\ queue' \in {<<CompletedMsg, ConnMsg>>, <<ConnMsg, CompletedMsg>>}
<1>1. Advertising
  BY DEF HostConnect, IInv, Stage, Booting, Requested, Over, Dormant, Awoken, Connecting,
     Connected, Unlinked
<1>2. \/ queue' = queue \o <<Event("completed"), Event("conn")>>
      \/ queue' = queue \o <<Event("conn"), Event("completed")>>
  <2>1. PICK two \in {<<"completed", "conn">>, <<"conn", "completed">>} :
            queue' = queue \o <<Event(two[1]), Event(two[2])>>
    BY Zenon DEF HostConnect
  <2>2. CASE two = <<"completed", "conn">>
    BY <2>1, <2>2
  <2>3. CASE two = <<"conn", "completed">>
    BY <2>1, <2>3
  <2>. QED
    BY <2>2, <2>3
<1>. QED
  BY <1>1, <1>2, ShortConcat DEF Advertising, CompletedMsg, ConnMsg

(* The host starts, cancels, connects and loses the link.                  *)
LEMMA HostStage ==
    ASSUME IInv
    PROVE  /\ HostStart => Requested /\ Advertising'
           /\ HostCancel =>
                \/ Requested /\ Requested'
                \/ Advertising /\ TimerOff /\ Over'
                \/ (Connecting \/ Connected) /\ (Connecting' \/ Connected')
           /\ HostConnect => Advertising /\ Connecting'
           /\ HostDisconnect => (Connecting \/ Connected) /\ (Connecting' \/ Connected')
<1>1. ASSUME HostStart
      PROVE  Requested /\ Advertising'
  <2>1. cmds # <<>> /\ Head(cmds) = "start" /\ cmds' = Tail(cmds) /\ host' = "advertising"
    BY <1>1 DEF HostStart, HostRuns
  <2>2. UNCHANGED <<task_state, adv_timer_id, queue, linked, ext_wakeup, pc>>
    BY <1>1 DEF HostStart, appVars, powerVars
  <2>3. Requested
    BY <1>1, <2>1, ShortTail DEF IInv, Stage, Booting, Over, Dormant, Awoken, Advertising,
       Connecting, Connected, HostStart
  <2>4. IF TimerOff THEN cmds' = <<"cancel">> ELSE cmds' = <<>>
    BY <2>1, <2>3, CommandQueues DEF Requested
  <2>. QED
    BY <2>1, <2>2, <2>3, <2>4 DEF Requested, Advertising, Unlinked, Connectable, TimerOff
<1>2. ASSUME HostCancel
      PROVE  \/ Requested /\ Requested'
             \/ Advertising /\ TimerOff /\ Over'
             \/ (Connecting \/ Connected) /\ (Connecting' \/ Connected')
  <2>1. cmds # <<>> /\ Head(cmds) = "cancel" /\ cmds' = Tail(cmds) /\ host' = "idle"
    BY <1>2 DEF HostCancel, HostRuns
  <2>2. UNCHANGED <<task_state, adv_timer_id, linked, ext_wakeup, pc>>
    BY <1>2 DEF HostCancel, appVars, powerVars
  <2>3. queue' = IF host = "advertising" THEN Append(queue, CanceledMsg) ELSE queue
    BY <1>2 DEF HostCancel, CanceledMsg
  <2>4. CASE Requested
    <3>1. queue' = queue
      BY <2>3, <2>4 DEF Requested, Unlinked
    <3>2. IF TimerOff THEN cmds' = <<"start", "cancel">> ELSE cmds' = <<"start">>
      BY <2>1, <2>4, CommandQueues DEF Requested
    <3>. QED
      BY <2>1, <2>2, <2>4, <3>1, <3>2 DEF Requested, Unlinked, Connectable, TimerOff
  <2>5. CASE Advertising
    <3>1. TimerOff /\ cmds' = <<>>
      BY <2>1, <2>5, ShortTail DEF Advertising
    <3>2. queue' = <<CanceledMsg>>
      BY <2>3, <2>5, ShortAppend DEF Advertising
    <3>. QED
      BY <2>1, <2>2, <2>5, <3>1, <3>2
      DEF Advertising, Over, Unlinked, Connectable, TimerOff, CanceledMsg
  <2>6. CASE Connecting
    <3>1. queue' = queue
      BY <2>3, <2>6 DEF Connecting
    <3>2. cmds' = <<>>
      BY <2>1, <2>6, ShortTail DEF Connecting
    <3>. QED
      BY <2>1, <2>2, <2>6, <3>1, <3>2
      DEF Connecting, Connectable, CompletedMsg, ConnMsg, DiscMsg
  <2>7. CASE Connected
    <3>1. queue' = queue
      BY <2>3, <2>7 DEF Connected
    <3>2. cmds' = <<>>
      BY <2>1, <2>7, ShortTail DEF Connected
    <3>. QED
      BY <2>1, <2>2, <2>7, <3>1, <3>2 DEF Connected, TimerOff, CompletedMsg, DiscMsg
  <2>. QED
    BY <2>1, <2>4, <2>5, <2>6, <2>7 DEF IInv, Stage, Booting, Over, Dormant, Awoken
<1>3. ASSUME HostConnect
      PROVE  Advertising /\ Connecting'
  <2>1. Advertising /\ host' = "idle" /\ linked'
    BY <1>3, ConnectQueue DEF HostConnect
  <2>2. UNCHANGED <<task_state, adv_timer_id, cmds, ext_wakeup, pc>>
    BY <1>3 DEF HostConnect, appVars, powerVars
  <2>3. queue' \in {<<CompletedMsg, ConnMsg>>, <<ConnMsg, CompletedMsg>>}
    BY <1>3, ConnectQueue
  <2>. QED
    BY <2>1, <2>2, <2>3
    DEF Advertising, Connecting, Connectable, TimerOff, CompletedMsg, ConnMsg
<1>4. ASSUME HostDisconnect
      PROVE  (Connecting \/ Connected) /\ (Connecting' \/ Connected')
  <2>1. linked /\ ~linked' /\ queue' = Append(queue, DiscMsg)
    BY <1>4 DEF HostDisconnect, DiscMsg
  <2>2. UNCHANGED <<task_state, adv_timer_id, cmds, host, ext_wakeup, pc>>
    BY <1>4 DEF HostDisconnect, appVars, powerVars
  <2>3. CASE Connecting
    <3>1. queue' \in {<<CompletedMsg, ConnMsg, DiscMsg>>, <<ConnMsg, CompletedMsg, DiscMsg>>,
                      <<ConnMsg, DiscMsg>>}
      BY <2>1, <2>3, DisconnectionQueues DEF Connecting
    <3>. QED
      BY <2>1, <2>2, <2>3, <3>1
      DEF Connecting, Connectable, TimerOff, CompletedMsg, ConnMsg, DiscMsg
  <2>4. CASE Connected
    <3>1. queue' \in {<<DiscMsg>>, <<CompletedMsg, DiscMsg>>}
      BY <2>1, <2>4, DisconnectionQueues, ShortAppend DEF Connected
    <3>. QED
      BY <2>1, <2>2, <2>4, <3>1 DEF Connected, TimerOff, CompletedMsg, DiscMsg
  <2>. QED
    BY <2>1, <2>3, <2>4 DEF IInv, Stage, Booting, Requested, Advertising, Over, Dormant, Awoken,
       Unlinked
<1>. QED
  BY <1>1, <1>2, <1>3, <1>4

(* Once a message is taken for the wake-up it stays the same.              *)
LEMMA WakeupSet ==
    ASSUME IInv, app_easy_wakeup_set(app_wakeup_cb)
    PROVE  /\ wakeup_id' \in Messages
           /\ pc # "boot" => wakeup_id' = wakeup_id
           /\ msg_util_callbacks' \in [Messages -> {NULL, app_wakeup_cb}]
           /\ msg_util_callbacks'[wakeup_id'] = app_wakeup_cb
<1>1. CASE pc # "boot"
  <2>1. wakeup_id \in Messages /\ wakeup_id # 0
    BY <1>1 DEF IInv, ButtonInv, Messages
  <2>2. wakeup_id' = wakeup_id
    BY <2>1 DEF app_easy_wakeup_set
  <2>. QED
    BY <2>1, <2>2 DEF app_easy_wakeup_set, IInv, TypeInv
<1>2. CASE pc = "boot"
  <2>1. FreeMessages = Messages /\ wakeup_id = 0
    BY <1>2 DEF IInv, ButtonInv, MsgInit, FreeMessages
  <2>2. 1 \in Messages /\ \A n \in Messages : 1 <= n
    BY MessagesAssumption DEF Messages
  <2>3. FirstFree \in Messages
    BY <2>1, <2>2 DEF FirstFree
  <2>4. wakeup_id' \in Messages
    BY <2>1, <2>2, <2>3 DEF app_easy_wakeup_set
  <2>. QED
    BY <1>2, <2>4 DEF app_easy_wakeup_set, IInv, TypeInv
<1>. QED
  BY <1>1, <1>2

(* The interrupt of the button wakes a dormant device and leaves another   *)
(* as it is.                                                               *)
LEMMA InterruptStage ==
    ASSUME IInv, WKUP_QUADEC_Handler
    PROVE  /\ Stage'
           /\ pc # "boot" /\ wakeup_id' = wakeup_id
           /\ ext_wakeup' = FALSE /\ asleep' = FALSE
           /\ IF Dormant THEN Awoken' ELSE UNCHANGED queue
<1>1. pc # "boot"
  BY DEF WKUP_QUADEC_Handler, IInv, ButtonInv
<1>2. wakeup_id' = wakeup_id /\ wakeup_id \in Messages
  BY <1>1, WakeupSet DEF WKUP_QUADEC_Handler, IInv, ButtonInv
<1>3. UNCHANGED <<task_state, adv_timer_id, cmds, hostVars, pc>>
  BY DEF WKUP_QUADEC_Handler, appVars
<1>4. /\ ext_wakeup' = FALSE /\ asleep' = FALSE
      /\ queue' = IF ext_wakeup THEN queue \o app_easy_wakeup ELSE queue
  BY DEF WKUP_QUADEC_Handler, app_resume_system_from_sleep
<1>5. CASE ext_wakeup
  <2>1. Dormant
    BY <1>5 DEF IInv, Stage, Booting, Requested, Advertising, Over, Awoken, Connecting, Connected,
       Unlinked
  <2>2. app_easy_wakeup = <<WakeupMsg>>
    BY <1>2 DEF app_easy_wakeup, WakeupMsg, Messages
  <2>3. queue' = <<WakeupMsg>>
    BY <1>4, <1>5, <2>1, <2>2, ShortConcat DEF Dormant
  <2>4. WakeupMsg' = WakeupMsg
    BY <1>2 DEF WakeupMsg
  <2>5. Awoken'
    BY <1>3, <1>4, <2>1, <2>3, <2>4
    DEF Dormant, Awoken, Unlinked, Connectable, TimerOff, hostVars
  <2>. QED
    BY <1>1, <1>2, <1>4, <2>1, <2>5 DEF Stage
<1>6. CASE ~ext_wakeup
  <2>1. UNCHANGED <<queue, ext_wakeup>>
    <3>1. ext_wakeup = FALSE /\ ext_wakeup' = FALSE
      BY <1>4, <1>6, Zenon DEF IInv, TypeInv
    <3>. QED
      BY <1>4, <1>6, <3>1
  <2>2. Stage'
    BY <1>2, <1>3, <2>1, SameStage DEF IInv, hostVars
  <2>. QED
    BY <1>1, <1>2, <1>4, <1>6, <2>1, <2>2 DEF Dormant
<1>. QED
  BY <1>5, <1>6

(* Inside a handler the stage is known.                                    *)
LEMMA HandlerStage ==
    ASSUME IInv
    PROVE  /\ pc \in {"boot", "start"} => Booting
           /\ pc \in {"set", "read", "arm"} => Dormant \/ Awoken
           /\ pc \in {"call", "run"} => Awoken
  BY DEF IInv, Stage, Booting, Requested, Advertising, Over, Dormant, Awoken, Connecting, Connected

(* The steps of the main loop that serve the button.                       *)
LEMMA ButtonStage ==
    ASSUME IInv, SetWakeup \/ ReadPin \/ ArmIrq \/ CallCallback \/ FreeCallback
    PROVE  /\ Stage' /\ wakeup_id' = wakeup_id
           /\ UNCHANGED <<appVars, cmds, hostVars, powerVars>>
           /\ UNCHANGED queue
           /\ \/ Dormant /\ Dormant'
              \/ Awoken /\ Awoken'
<1>1. UNCHANGED <<appVars, cmds, hostVars, powerVars>>
  BY DEF SetWakeup, ReadPin, ArmIrq, CallCallback, FreeCallback
<1>2. wakeup_id' = wakeup_id
  BY WakeupSet DEF SetWakeup, ReadPin, ArmIrq, CallCallback, FreeCallback, FreeEntry, msgVars
<1>3. WakeupMsg' = WakeupMsg
  BY <1>2 DEF WakeupMsg
<1>4. ASSUME Dormant, UNCHANGED queue, pc' \in {"set", "read", "arm", "loop"}
      PROVE  Dormant'
  BY <1>1, <1>4 DEF Dormant, Connectable, TimerOff, appVars, hostVars, powerVars
<1>5. ASSUME Awoken, UNCHANGED queue, pc' \in {"set", "read", "arm", "loop", "call", "run"}
      PROVE  Awoken'
  BY <1>1, <1>3, <1>5 DEF Awoken, Unlinked, Connectable, TimerOff, appVars, hostVars, powerVars
<1>6. CASE SetWakeup \/ ReadPin \/ ArmIrq
  <2>1. Dormant \/ Awoken
    BY <1>6, HandlerStage DEF SetWakeup, ReadPin, ArmIrq
  <2>2. UNCHANGED queue /\ pc' \in {"set", "read", "arm", "loop"}
    BY <1>6 DEF SetWakeup, ReadPin, ArmIrq
  <2>. QED
    BY <1>1, <1>2, <1>4, <1>5, <2>1, <2>2 DEF Stage
<1>7. CASE CallCallback
  <2>1. Awoken /\ pc = "loop"
    BY <1>7, ReceivedStage DEF CallCallback, IInv, Received
  <2>2. Head(queue).id = wakeup_id
    BY <2>1, ShortTail DEF Awoken, WakeupMsg
  <2>3. msg_util_callbacks[Head(queue).id] # NULL
    BY <2>1, <2>2, CallbackAssumption DEF IInv, ButtonInv, WakeupIsSet
  <2>4. pc' = "call" /\ UNCHANGED queue
    BY <1>7, <2>3 DEF CallCallback
  <2>. QED
    BY <1>1, <1>2, <1>5, <2>1, <2>4 DEF Stage
<1>8. CASE FreeCallback
  <2>1. Awoken /\ UNCHANGED queue /\ pc' = "run"
    BY <1>8, HandlerStage DEF FreeCallback
  <2>. QED
    BY <1>1, <1>2, <1>5, <2>1 DEF Stage
<1>. QED
  BY <1>6, <1>7, <1>8

(* The message of the wake-up starts a new period.                         *)
LEMMA WakeupStage ==
    ASSUME IInv, RunWakeup
    PROVE  Awoken /\ with_timeout_start /\ Requested' /\ UNCHANGED <<hostVars, powerVars, irq, msgVars>>
<1>1. Awoken
  BY HandlerStage DEF RunWakeup
<1>2. with_timeout_start /\ UNCHANGED <<hostVars, powerVars, irq, msgVars>>
  BY <1>1 DEF RunWakeup, Awoken, Connectable
<1>3. queue' = <<>> /\ pc' = "loop"
  BY <1>1, ShortTail DEF RunWakeup, Consumed, Awoken
<1>. QED
  BY <1>1, <1>2, <1>3, StartStage DEF Awoken, Unlinked, hostVars, powerVars

(* Every step leads from a stage to a stage.                               *)
LEMMA StageStep ==
    ASSUME IInv, [Next]_vars
    PROVE  Stage'
<1>1. CASE Boot
  <2>1. Booting
    BY <1>1, HandlerStage DEF Boot
  <2>. QED
    BY <1>1, <2>1 DEF Boot, Booting, Stage, Unlinked, TimerOff, appVars, hostVars, powerVars
<1>2. CASE AppStarts
  <2>1. Booting
    BY <1>2, HandlerStage DEF AppStarts
  <2>2. Requested'
    BY <1>2, <2>1, StartStage DEF AppStarts, Booting, Unlinked, hostVars, powerVars
  <2>. QED
    BY <2>2 DEF Stage
<1>3. CASE RunWakeup
  BY <1>3, WakeupStage DEF Stage
<1>4. CASE AdvTimeout
  BY <1>4, TimeoutStage DEF Stage, Elsewhere
<1>5. CASE Tick \/ Sleep \/ Press \/ Release \/ UNCHANGED vars
  BY <1>5, SameStage DEF Tick, Sleep, Press, Release, vars, IInv, appVars, hostVars, powerVars,
     msgVars
<1>6. CASE BleWakes
  <2>1. pc # "boot"
    BY <1>6 DEF BleWakes, IInv, SleepInv
  <2>. QED
    BY <1>6, <2>1, WakeupSet, SameStage DEF BleWakes, app_button_enable, IInv, appVars, hostVars
<1>7. CASE WKUP_QUADEC_Handler
  BY <1>7, InterruptStage
<1>. QED
  BY <1>1, <1>2, <1>3, <1>4, <1>5, <1>6, <1>7, IndicationStage, ButtonStage, HostStage
  DEF Next, MainLoop, HostCommand, Stage, Elsewhere

-----------------------------------------------------------------------------
(* The rest of the invariant follows the steps. *)

(* Starting and stopping: one timer at most runs, and its handle is kept.  *)
LEMMA TimerOperations ==
    ASSUME TypeInv, TimerInv
    PROVE  /\ with_timeout_start =>
                /\ live' \in [Handles -> {NoTimer} \cup 0..Period]
                /\ adv_timer_id' \in Handles
                /\ TimerInv'
           /\ with_timeout_stop =>
                /\ live' \in [Handles -> {NoTimer} \cup 0..Period]
                /\ adv_timer_id' = 0
                /\ TimerInv'
<1>1. /\ Canceled(adv_timer_id) \in [Handles -> {NoTimer} \cup 0..Period]
      /\ \A h \in Handles : Canceled(adv_timer_id)[h] = NoTimer
  BY HandlesAssumption DEF Canceled, TypeInv, TimerInv
<1>2. ASSUME with_timeout_start
      PROVE  /\ live' \in [Handles -> {NoTimer} \cup 0..Period]
             /\ adv_timer_id' \in Handles
             /\ TimerInv'
  <2>1. PICK h \in Handles : live' = [Canceled(adv_timer_id) EXCEPT ![h] = Period] /\ adv_timer_id' = h
    BY <1>2 DEF with_timeout_start
  <2>2. Period \in 0..Period /\ Period # NoTimer
    BY PeriodAssumption, HandlesAssumption
  <2>3. \A k \in Handles : live'[k] = IF k = h THEN Period ELSE NoTimer
    BY <1>1, <2>1
  <2>. QED
    BY <1>1, <2>1, <2>2, <2>3 DEF TimerInv
<1>3. ASSUME with_timeout_stop
      PROVE  /\ live' \in [Handles -> {NoTimer} \cup 0..Period]
             /\ adv_timer_id' = 0
             /\ TimerInv'
  BY <1>1, <1>3, HandlesAssumption DEF with_timeout_stop, TimerInv
<1>. QED
  BY <1>2, <1>3

MessageSet == [kind : Kinds, id : Messages \cup {0}]

(* A stage has queues of the right types, at most three commands long.     *)
LEMMA StageTypes ==
    ASSUME Stage, wakeup_id \in Messages \cup {0}
    PROVE  /\ queue \in Seq(MessageSet)
           /\ cmds \in Seq({"start", "cancel"}) /\ Len(cmds) <= 3
           /\ task_state \in States /\ host \in {"idle", "advertising"} /\ pc \in Places
<1>1. /\ {CompletedMsg, CanceledMsg, ConnMsg, DiscMsg, WakeupMsg} \subseteq MessageSet
  BY DEF CompletedMsg, CanceledMsg, ConnMsg, DiscMsg, WakeupMsg, Event, MessageSet, Kinds
<1>2. \A m, n, o \in MessageSet :
         /\ <<>> \in Seq(MessageSet) /\ <<m>> \in Seq(MessageSet)
         /\ <<m, n>> \in Seq(MessageSet) /\ <<m, n, o>> \in Seq(MessageSet)
  OBVIOUS
<1>3. queue \in Seq(MessageSet)
  <2>1. \/ queue \in {<<>>, <<CanceledMsg>>, <<WakeupMsg>>, <<ConnMsg>>, <<CompletedMsg>>, <<DiscMsg>>}
        \/ queue \in {<<CompletedMsg, ConnMsg>>, <<ConnMsg, CompletedMsg>>, <<ConnMsg, DiscMsg>>,
                      <<CompletedMsg, DiscMsg>>}
        \/ queue \in {<<CompletedMsg, ConnMsg, DiscMsg>>, <<ConnMsg, CompletedMsg, DiscMsg>>}
    BY DEF Stage, Booting, Requested, Advertising, Over, Dormant, Awoken, Connecting, Connected
  <2>. QED
    BY <1>1, <1>2, <2>1, ZenonT(30)
<1>4. cmds \in Seq({"start", "cancel"}) /\ Len(cmds) <= 3
  <2>1. cmds \in {<<>>, <<"start">>, <<"cancel">>, <<"cancel", "start">>, <<"start", "cancel">>,
                  <<"cancel", "start", "cancel">>}
    BY DEF Stage, Booting, Requested, Advertising, Over, Dormant, Awoken, Connecting, Connected
  <2>2. \A a, b, c \in {"start", "cancel"} :
          /\ <<>> \in Seq({"start", "cancel"}) /\ <<a>> \in Seq({"start", "cancel"})
          /\ <<a, b>> \in Seq({"start", "cancel"}) /\ <<a, b, c>> \in Seq({"start", "cancel"})
    OBVIOUS
  <2>3. Len(cmds) <= 3
    <3>1. CASE cmds = <<>>
      BY <3>1
    <3>2. CASE cmds = <<"start">> \/ cmds = <<"cancel">>
      BY <3>2
    <3>3. CASE cmds = <<"cancel", "start">> \/ cmds = <<"start", "cancel">>
      BY <3>3
    <3>4. CASE cmds = <<"cancel", "start", "cancel">>
      BY <3>4
    <3>. QED
      BY ONLY <2>1, <3>1, <3>2, <3>3, <3>4
  <2>. QED
    BY <2>1, <2>2, <2>3
<1>5. task_state \in States /\ host \in {"idle", "advertising"} /\ pc \in Places
  BY DEF Stage, Booting, Requested, Advertising, Over, Dormant, Awoken, Connecting, Connected,
     Unlinked, Connectable, States, Places
<1>. QED
  BY <1>3, <1>4, <1>5

(* The queue keeps within its capacity.                                    *)
LEMMA QueueStep ==
    ASSUME IInv, [Next]_vars
    PROVE  Len(queue') <= MaxQueue
<1>. USE QueueAssumption
<1>1. queue \in Seq(MessageSet) /\ Len(queue) \in Nat /\ Len(queue) <= MaxQueue
  BY StageTypes, LenProperties DEF IInv, TypeInv
<1>2. CASE UNCHANGED queue
  BY <1>1, <1>2
<1>3. ASSUME queue # <<>>, Consumed
      PROVE  Len(queue') <= MaxQueue
  BY <1>1, <1>3, HeadTailProperties DEF Consumed
<1>4. CASE gapc_connection_req_ind \/ gapc_disconnect_ind \/ AdvertisingCompleted
           \/ AdvertisingCanceled
  BY <1>3, <1>4 DEF gapc_connection_req_ind, gapc_disconnect_ind, AdvertisingCompleted,
     AdvertisingCanceled, Received
<1>5. CASE RunWakeup
  BY <1>5, WakeupStage DEF Requested
<1>6. CASE HostCommand
  <2>1. Len(Append(queue, CanceledMsg)) = Len(queue) + 1 /\ Len(queue) < MaxQueue
    <3>1. CanceledMsg \in MessageSet
      BY DEF CanceledMsg, Event, MessageSet, Kinds
    <3>. QED
      BY <1>1, <1>6, <3>1, AppendProperties DEF HostCommand, HostStart, HostCancel, HostRuns
  <2>. QED
    BY <1>1, <1>6, <2>1 DEF HostCommand, HostStart, HostCancel, CanceledMsg
<1>7. CASE HostConnect
  <2>1. Len(queue') = 2 /\ Len(queue) = 0
    BY <1>7, ConnectQueue, ShortTail, EmptySeq DEF Advertising
  <2>. QED
    BY <1>7, <2>1 DEF HostConnect
<1>8. CASE HostDisconnect
  <2>1. DiscMsg \in MessageSet
    BY DEF DiscMsg, Event, MessageSet, Kinds
  <2>2. Len(Append(queue, DiscMsg)) = Len(queue) + 1
    BY <1>1, <2>1, AppendProperties
  <2>. QED
    BY <1>1, <1>8, <2>2 DEF HostDisconnect, DiscMsg
<1>9. CASE WKUP_QUADEC_Handler
  <2>1. CASE Dormant
    BY <1>9, <2>1, InterruptStage, ShortTail DEF Awoken
  <2>. QED
    BY <1>2, <1>9, <2>1, InterruptStage
<1>10. CASE SetWakeup \/ ReadPin \/ ArmIrq \/ CallCallback \/ FreeCallback
  BY <1>2, <1>10, ButtonStage
<1>. QED
  BY <1>2, <1>4, <1>5, <1>6, <1>7, <1>8, <1>9, <1>10
  DEF Next, MainLoop, Boot, AppStarts, AdvTimeout, Tick, Sleep, BleWakes, Press, Release, vars

(* The timers keep their types, and their one handle.                      *)
LEMMA TimerStep ==
    ASSUME IInv, [Next]_vars
    PROVE  /\ adv_timer_id' \in Handles \cup {0}
           /\ live' \in [Handles -> {NoTimer} \cup 0..Period]
           /\ TimerInv'
<1>. USE HandlesAssumption, PeriodAssumption
<1>1. CASE UNCHANGED <<adv_timer_id, live>>
  BY <1>1 DEF IInv, TypeInv, TimerInv
<1>2. CASE with_timeout_start \/ with_timeout_stop
  BY <1>2, TimerOperations DEF IInv
<1>3. CASE AdvTimeout
  <2>1. PICK h \in Handles : live[h] = 0 /\ live' = [live EXCEPT ![h] = NoTimer]
    BY <1>3 DEF AdvTimeout
  <2>2. adv_timer_id = h /\ adv_timer_id' = 0
    BY <1>3, <2>1 DEF AdvTimeout, IInv, TimerInv
  <2>3. \A k \in Handles : live'[k] = NoTimer
    BY <2>1, <2>2 DEF IInv, TypeInv, TimerInv
  <2>. QED
    BY <2>1, <2>2, <2>3 DEF IInv, TypeInv, TimerInv
<1>4. CASE Tick
  <2>1. ASSUME NEW h \in Handles
        PROVE  live[h] = NoTimer \/ live[h] \in 1..Period
    <3>1. live[h] = NoTimer \/ live[h] \in 0..Period
      BY DEF IInv, TypeInv
    <3>2. live[h] # 0
      BY <1>4 DEF Tick
    <3>. QED
      BY <3>1, <3>2
  <2>2. live' = [h \in Handles |-> IF live[h] = NoTimer THEN NoTimer ELSE live[h] - 1]
    BY <1>4 DEF Tick
  <2>3. \A h \in Handles : /\ live'[h] \in {NoTimer} \cup 0..Period
                           /\ live'[h] = NoTimer <=> live[h] = NoTimer
    BY <2>1, <2>2
  <2>4. live' \in [Handles -> {NoTimer} \cup 0..Period]
    BY <2>2, <2>3
  <2>. QED
    BY <1>4, <2>3, <2>4 DEF Tick, IInv, TypeInv, TimerInv
<1>5. CASE MainLoop
  BY <1>1, <1>2, <1>5 DEF MainLoop, Boot, AppStarts, gapc_connection_req_ind, gapc_disconnect_ind,
     AdvertisingCompleted, AdvertisingCanceled, SetWakeup, ReadPin, ArmIrq, CallCallback,
     FreeCallback, RunWakeup, appVars
<1>6. CASE \/ Sleep \/ BleWakes \/ WKUP_QUADEC_Handler \/ Press \/ Release
           \/ HostCommand \/ HostConnect \/ HostDisconnect \/ UNCHANGED vars
  BY <1>1, <1>6 DEF Sleep, BleWakes, WKUP_QUADEC_Handler, Press, Release, HostCommand, HostStart,
     HostCancel, HostConnect, HostDisconnect, vars, appVars
<1>. QED
  BY <1>3, <1>4, <1>5, <1>6 DEF Next

(* The press and the main loop keep the device ready for each other.       *)
LEMMA ButtonStep ==
    ASSUME IInv, [Next]_vars, "held" \notin ButtonQuirks
    PROVE  ButtonInv'
<1>. USE DEF ButtonInv
<1>1. ASSUME ~Dormant', ~Awoken', wakeup_id' \in Messages, pc' # "boot"
      PROVE  ButtonInv'
  BY <1>1
<1>2. Elsewhere' => ~Dormant' /\ ~Awoken' /\ pc' # "boot"
  <2>1. Connecting' \/ Connected' => ~Awoken'
    <3>1. WakeupMsg' # CompletedMsg' /\ WakeupMsg' # ConnMsg' /\ WakeupMsg' # DiscMsg'
      BY DEF WakeupMsg, CompletedMsg, ConnMsg, DiscMsg, Event
    <3>. QED
      BY <3>1 DEF Connecting, Connected, Awoken, Connectable
  <2>2. Over' => ~Awoken'
    BY DEF Over, Awoken, WakeupMsg, CanceledMsg, Event
  <2>3. Requested' \/ Advertising' => ~Awoken'
    BY DEF Requested, Advertising, Awoken
  <2>. QED
    BY <2>1, <2>2, <2>3
    DEF Elsewhere, Requested, Advertising, Over, Connecting, Connected, Dormant, Unlinked
<1>3. CASE Boot
  <2>1. wakeup_id' \in Messages /\ pc' = "start"
    BY <1>3, WakeupSet DEF Boot, app_button_enable
  <2>. QED
    BY <2>1 DEF Dormant, Awoken
<1>4. CASE AppStarts
  <2>1. Requested' /\ wakeup_id' \in Messages
    <3>1. Booting
      BY <1>4, HandlerStage DEF AppStarts
    <3>2. Requested'
      BY <1>4, <3>1, StartStage DEF AppStarts, Booting, Unlinked, hostVars, powerVars
    <3>. QED
      BY <1>4, <3>2 DEF AppStarts, IInv, msgVars
  <2>. QED
    BY <1>1, <1>2, <2>1 DEF Elsewhere
<1>5. CASE \/ gapc_connection_req_ind \/ gapc_disconnect_ind \/ AdvertisingCompleted
           \/ AdvertisingCanceled
  <2>1. wakeup_id' \in Messages
    BY <1>5 DEF gapc_connection_req_ind, gapc_disconnect_ind, AdvertisingCompleted,
       AdvertisingCanceled, Received, IInv, msgVars
  <2>2. CASE Elsewhere'
    BY <1>1, <1>2, <2>1, <2>2
  <2>3. CASE Dormant' /\ pc' = "set"
    <3>1. ~Awoken'
      BY <2>3 DEF Dormant, Awoken, Unlinked
    <3>. QED
      BY <2>1, <2>3, <3>1
  <2>. QED
    BY <1>5, <2>2, <2>3, IndicationStage DEF Elsewhere
<1>6. CASE SetWakeup
  <2>1. /\ wakeup_id' \in Messages /\ wakeup_id' # 0 /\ pc' = "read"
        /\ msg_util_callbacks'[wakeup_id'] = app_wakeup_cb
    BY <1>6, WakeupSet DEF SetWakeup, Messages
  <2>. QED
    BY <2>1 DEF WakeupIsSet
<1>7. CASE ReadPin
  <2>1. (Dormant \/ Awoken) /\ pc = "read" /\ WakeupIsSet /\ wakeup_id \in Messages
    BY <1>7, HandlerStage DEF ReadPin, IInv
  <2>2. UNCHANGED <<wakeup_id, msg_util_callbacks, irq, ext_wakeup>>
    BY <1>7 DEF ReadPin, msgVars, powerVars
  <2>3. WakeupIsSet'
    BY <2>1, <2>2 DEF WakeupIsSet
  <2>4. pc' \in {"arm", "loop"}
    BY <1>7 DEF ReadPin
  <2>5. ASSUME Dormant', pc' = "loop"
        PROVE  irq' # "off"
    <3>1. ext_wakeup /\ button = "low"
      BY <1>7, <2>2, <2>5 DEF Dormant, ReadPin, IInv, TypeInv
    <3>. QED
      BY <1>7, <2>2, <3>1 DEF ReadPin
  <2>. QED
    BY <2>1, <2>2, <2>3, <2>4, <2>5
<1>8. CASE ArmIrq
  <2>1. (Dormant \/ Awoken) /\ pc = "arm" /\ WakeupIsSet /\ wakeup_id \in Messages
    BY <1>8, HandlerStage DEF ArmIrq, IInv
  <2>2. UNCHANGED <<wakeup_id, msg_util_callbacks>> /\ pc' = "loop"
    BY <1>8 DEF ArmIrq, msgVars
  <2>3. irq' # "off"
    BY <1>8 DEF ArmIrq
  <2>. QED
    BY <2>1, <2>2, <2>3 DEF WakeupIsSet
<1>9. CASE CallCallback
  <2>1. Awoken /\ Awoken' /\ pc = "loop"
    BY <1>9, ButtonStage, ReceivedStage DEF CallCallback, Received, IInv, Dormant, Awoken, Unlinked
  <2>2. WakeupIsSet /\ wakeup_id \in Messages /\ UNCHANGED <<wakeup_id, msg_util_callbacks>>
    BY <1>9, <2>1 DEF CallCallback, IInv, msgVars
  <2>3. WakeupIsSet' /\ ~Dormant'
    BY <2>1, <2>2 DEF WakeupIsSet, Dormant, Awoken, Unlinked
  <2>. QED
    BY <2>1, <2>2, <2>3 DEF Awoken
<1>10. CASE FreeCallback
  <2>1. pc' = "run" /\ wakeup_id' \in Messages
    BY <1>10 DEF FreeCallback, FreeEntry, IInv
  <2>. QED
    BY <2>1 DEF Dormant
<1>11. CASE RunWakeup
  <2>1. Requested' /\ wakeup_id' \in Messages
    BY <1>11, WakeupStage DEF RunWakeup, IInv, msgVars
  <2>. QED
    BY <1>1, <1>2, <2>1 DEF Elsewhere
<1>12. CASE AdvTimeout \/ HostCommand \/ HostConnect \/ HostDisconnect
  <2>1. Elsewhere'
    BY <1>12, TimeoutStage, HostStage DEF HostCommand, Elsewhere
  <2>2. pc # "boot" /\ UNCHANGED wakeup_id
    <3>1. pc' # "boot" /\ pc' = pc
      BY <1>2, <1>12, <2>1 DEF AdvTimeout, HostCommand, HostStart, HostCancel, HostConnect,
         HostDisconnect
    <3>. QED
      BY <1>12, <3>1 DEF AdvTimeout, HostCommand, HostStart, HostCancel, HostConnect,
         HostDisconnect, msgVars
  <2>. QED
    BY <1>1, <1>2, <2>1, <2>2 DEF IInv
<1>13. CASE Tick \/ Sleep \/ Press \/ Release \/ UNCHANGED vars
  <2>1. /\ UNCHANGED <<wakeup_id, msg_util_callbacks, pc>>
        /\ irq' = irq \/ (irq = "armed" /\ irq' = "pending")
    BY <1>13 DEF Tick, Sleep, Press, Release, vars, msgVars
  <2>2. (Dormant <=> Dormant') /\ (Awoken <=> Awoken')
    BY <1>13, SameStage DEF Tick, Sleep, Press, Release, vars, IInv, appVars, hostVars, powerVars,
       msgVars
  <2>. QED
    BY <2>1, <2>2 DEF IInv, WakeupIsSet, MsgInit
<1>14. CASE BleWakes
  <2>1. pc # "boot" /\ pc' = pc /\ ~ext_wakeup'
    BY <1>14 DEF BleWakes, IInv, SleepInv
  <2>2. wakeup_id' \in Messages /\ wakeup_id' # 0 /\ msg_util_callbacks'[wakeup_id'] = app_wakeup_cb
    BY <1>14, WakeupSet DEF BleWakes, app_button_enable, Messages
  <2>. QED
    BY <2>1, <2>2 DEF Dormant, WakeupIsSet
<1>15. CASE WKUP_QUADEC_Handler
  <2>1. pc' # "boot" /\ ~Dormant'
    BY <1>15, InterruptStage DEF Dormant, WKUP_QUADEC_Handler
  <2>2. wakeup_id' \in Messages /\ wakeup_id' # 0 /\ msg_util_callbacks'[wakeup_id'] = app_wakeup_cb
    BY <1>15, WakeupSet DEF WKUP_QUADEC_Handler, Messages
  <2>. QED
    BY <2>1, <2>2 DEF WakeupIsSet
<1>. QED
  BY <1>3, <1>4, <1>5, <1>6, <1>7, <1>8, <1>9, <1>10, <1>11, <1>12, <1>13, <1>14, <1>15
  DEF Next, MainLoop

(* The device sleeps with its queues empty.                                *)
LEMMA SleepStep ==
    ASSUME IInv, [Next]_vars
    PROVE  SleepInv'
<1>. USE DEF SleepInv, IInv
<1>1. CASE Sleep
  BY <1>1 DEF Sleep, MaySleep
<1>2. CASE BleWakes \/ WKUP_QUADEC_Handler
  BY <1>2 DEF BleWakes, WKUP_QUADEC_Handler, app_resume_system_from_sleep
<1>3. CASE Tick \/ Press \/ Release \/ UNCHANGED vars
  BY <1>3 DEF Tick, Press, Release, vars, powerVars
<1>4. CASE MainLoop
  BY <1>4 DEF MainLoop, Boot, AppStarts, gapc_connection_req_ind, gapc_disconnect_ind,
     AdvertisingCompleted, AdvertisingCanceled, SetWakeup, ReadPin, ArmIrq, CallCallback,
     FreeCallback, RunWakeup, Received, powerVars
<1>5. CASE AdvTimeout \/ HostCommand \/ HostConnect \/ HostDisconnect
  BY <1>5 DEF AdvTimeout, HostCommand, HostStart, HostCancel, HostRuns, HostConnect,
     HostDisconnect, powerVars
<1>. QED
  BY <1>1, <1>2, <1>3, <1>4, <1>5 DEF Next

(* The flags, the button and the messages keep their types.                *)
LEMMA FlagStep ==
    ASSUME IInv, [Next]_vars
    PROVE  /\ linked' \in BOOLEAN /\ ext_wakeup' \in BOOLEAN /\ asleep' \in BOOLEAN
           /\ button' \in {"high", "low"} /\ irq' \in {"off", "armed", "pending"}
           /\ msg_util_callbacks' \in [Messages -> {NULL, app_wakeup_cb}]
           /\ wakeup_id' \in Messages \cup {0}
<1>. USE DEF TypeInv, IInv
<1>1. CASE Boot \/ SetWakeup \/ BleWakes \/ WKUP_QUADEC_Handler
  <2>1. /\ msg_util_callbacks' \in [Messages -> {NULL, app_wakeup_cb}]
        /\ wakeup_id' \in Messages
    BY <1>1, WakeupSet DEF Boot, SetWakeup, BleWakes, WKUP_QUADEC_Handler, app_button_enable
  <2>2. linked' \in BOOLEAN /\ ext_wakeup' \in BOOLEAN /\ asleep' \in BOOLEAN
    BY <1>1 DEF Boot, SetWakeup, BleWakes, WKUP_QUADEC_Handler, app_button_enable,
       app_resume_system_from_sleep, hostVars, powerVars
  <2>3. button' \in {"high", "low"} /\ irq' \in {"off", "armed", "pending"}
    BY <1>1 DEF Boot, SetWakeup, BleWakes, WKUP_QUADEC_Handler, app_button_enable, Armed
  <2>. QED
    BY <2>1, <2>2, <2>3
<1>2. CASE FreeCallback
  BY <1>2 DEF FreeCallback, FreeEntry, hostVars, powerVars
<1>3. CASE \/ AppStarts \/ gapc_connection_req_ind \/ gapc_disconnect_ind
           \/ AdvertisingCompleted \/ AdvertisingCanceled \/ ReadPin \/ ArmIrq
           \/ CallCallback \/ RunWakeup \/ AdvTimeout \/ Tick \/ UNCHANGED vars
  BY <1>3 DEF AppStarts, gapc_connection_req_ind, gapc_disconnect_ind, AdvertisingCompleted,
     AdvertisingCanceled, ReadPin, ArmIrq, CallCallback, RunWakeup, AdvTimeout, Tick, vars,
     hostVars, powerVars, msgVars
<1>4. CASE Sleep \/ Press \/ Release \/ HostCommand \/ HostConnect \/ HostDisconnect
  BY <1>4 DEF Sleep, Press, Release, HostCommand, HostStart, HostCancel, HostConnect,
     HostDisconnect, hostVars, powerVars, msgVars
<1>. QED
  BY <1>1, <1>2, <1>3, <1>4 DEF Next, MainLoop

(* A period that has been asked for, runs or is over is told from every    *)
(* other stage.                                                            *)
LEMMA StagesDiffer ==
    /\ Booting \/ Dormant \/ Awoken \/ Connecting \/ Connected
          => ~Requested /\ ~Advertising /\ ~Over
    /\ Requested \/ Advertising => ~Over
<1>1. /\ CanceledMsg # CompletedMsg /\ CanceledMsg # ConnMsg /\ CanceledMsg # DiscMsg
      /\ CanceledMsg # WakeupMsg
  BY DEF CompletedMsg, CanceledMsg, ConnMsg, DiscMsg, WakeupMsg, Event
<1>. HIDE DEF CompletedMsg, CanceledMsg, ConnMsg, DiscMsg, WakeupMsg
<1>2. \A m : <<>> # <<m>>
  OBVIOUS
<1>3. \A m, n, o : (<<m>> = <<n>> => m = n) /\ <<m>> # <<n, o>>
  OBVIOUS
<1>4. \A m, n, o, p : <<m>> # <<n, o, p>> /\ <<>> # <<n, o, p>> /\ <<>> # <<m, n>>
  OBVIOUS
<1>. QED
  BY <1>1, <1>2, <1>3, <1>4
  DEF Booting, Requested, Advertising, Over, Dormant, Awoken, Connecting, Connected, Unlinked,
      Connectable

(* The same of the next state.                                             *)
LEMMA NextStagesDiffer ==
    /\ Booting' \/ Dormant' \/ Awoken' \/ Connecting' \/ Connected'
          => ~Requested' /\ ~Advertising' /\ ~Over'
    /\ Requested' \/ Advertising' => ~Over'
  BY StagesDiffer, PTL

(* A new timer runs for a full period.                                     *)
LEMMA FullTimer ==
    ASSUME IInv, with_timeout_start
    PROVE  adv_timer_id' # 0 /\ live'[adv_timer_id'] = Period
<1>1. PICK h \in Handles : live' = [Canceled(adv_timer_id) EXCEPT ![h] = Period] /\ adv_timer_id' = h
  BY DEF with_timeout_start
<1>2. h \in DOMAIN Canceled(adv_timer_id) /\ h # 0
  BY HandlesAssumption DEF Canceled, IInv, TypeInv
<1>. QED
  BY <1>1, <1>2

(* The clock keeps up with the advertising timer.                          *)
LEMMA AgeStep ==
    ASSUME IInv, [Next]_vars
    PROVE  AgeInv'
<1>. USE PeriodAssumption
<1>1. age \in 0..Period /\ (linked \/ ext_wakeup => age = 0) /\ Period \in Nat \ {0}
  BY DEF IInv, TypeInv, AgeInv
<1>2. ASSUME Booting' \/ Dormant' \/ Awoken' \/ Connecting' \/ Connected',
             linked' \/ ext_wakeup' => age' = 0
      PROVE  AgeInv'
  BY <1>2, NextStagesDiffer DEF AgeInv
<1>3. ASSUME Requested', with_timeout_start, age' = age
      PROVE  AgeInv'
  <2>1. ~TimerOff' /\ live'[adv_timer_id'] = Period
    BY <1>3, FullTimer DEF TimerOff
  <2>2. ~linked' /\ ~ext_wakeup' /\ ~Over'
    BY <1>3, NextStagesDiffer DEF Requested, Unlinked
  <2>. QED
    BY <1>1, <1>3, <2>1, <2>2 DEF AgeInv
<1>4. ASSUME UNCHANGED <<task_state, adv_timer_id, live, queue, cmds, host, linked, age>>,
             UNCHANGED <<ext_wakeup, pc, wakeup_id>>
      PROVE  AgeInv'
  BY <1>4, SameStage DEF IInv, AgeInv, TimerOff
<1>5. CASE Boot
  <2>1. Booting /\ UNCHANGED <<appVars, queue, cmds, hostVars, powerVars>> /\ pc' = "start"
    BY <1>5, HandlerStage DEF Boot
  <2>2. Booting'
    BY <2>1 DEF Booting, Unlinked, TimerOff, appVars, hostVars, powerVars
  <2>. QED
    BY <1>1, <1>2, <2>1, <2>2 DEF hostVars, powerVars
<1>6. CASE AppStarts
  <2>1. Booting
    BY <1>6, HandlerStage DEF AppStarts
  <2>2. Requested'
    BY <1>6, <2>1, StartStage DEF AppStarts, Booting, Unlinked, hostVars, powerVars
  <2>. QED
    BY <1>3, <1>6, <2>2 DEF AppStarts, hostVars
<1>7. CASE \/ gapc_connection_req_ind \/ gapc_disconnect_ind \/ AdvertisingCompleted
           \/ AdvertisingCanceled
  <2>1. CASE Connecting' \/ Connected' \/ (Requested' /\ with_timeout_start)
    <3>1. ~AdvertisingCanceled
      BY <2>1, NextStagesDiffer DEF AdvertisingCanceled, Connecting, Connected, Requested, Unlinked
    <3>2. UNCHANGED <<linked, ext_wakeup, age>>
      BY <1>7, <3>1 DEF gapc_connection_req_ind, gapc_disconnect_ind, AdvertisingCompleted,
         hostVars, powerVars
    <3>. QED
      BY <1>1, <1>2, <1>3, <2>1, <3>2
  <2>2. CASE AdvertisingCanceled /\ Dormant'
    BY <1>2, <2>2 DEF AdvertisingCanceled
  <2>. QED
    BY <1>7, <2>1, <2>2, IndicationStage
<1>8. CASE SetWakeup \/ ReadPin \/ ArmIrq \/ CallCallback \/ FreeCallback
  <2>1. /\ UNCHANGED <<hostVars, powerVars>>
        /\ Dormant' \/ Awoken'
    BY <1>8, ButtonStage
  <2>. QED
    BY <1>1, <1>2, <2>1 DEF hostVars, powerVars
<1>9. CASE RunWakeup
  BY <1>3, <1>9, WakeupStage DEF hostVars
<1>10. CASE AdvTimeout
  <2>1. ~TimerOff /\ TimerOff' /\ UNCHANGED <<linked, ext_wakeup, age>>
    BY <1>10, TimeoutStage DEF AdvTimeout, hostVars, powerVars
  <2>2. CASE (Requested \/ Advertising) /\ (Requested' \/ Advertising')
    <3>1. adv_timer_id \in Handles /\ live[adv_timer_id] = 0
      BY <1>10, HandlesAssumption DEF AdvTimeout, IInv, TypeInv, TimerInv
    <3>2. age = Period
      BY <1>1, <2>1, <2>2, <3>1 DEF IInv, AgeInv
    <3>. QED
      BY <1>1, <2>1, <2>2, <3>2, NextStagesDiffer DEF AgeInv
  <2>3. CASE Connecting'
    BY <1>1, <1>2, <2>1, <2>3
  <2>. QED
    BY <1>10, <2>2, <2>3, TimeoutStage
<1>11. CASE Tick
  <2>1. /\ UNCHANGED <<task_state, adv_timer_id, queue, cmds, host, linked, ext_wakeup, pc, wakeup_id>>
        /\ age' = IF ~linked /\ ~ext_wakeup /\ age < Period THEN age + 1 ELSE age
    BY <1>11 DEF Tick, powerVars, msgVars
  <2>2. /\ (Requested <=> Requested') /\ (Advertising <=> Advertising') /\ (Over <=> Over')
        /\ TimerOff' = TimerOff
    BY <2>1, SameStage DEF IInv, TimerOff
  <2>3. linked' \/ ext_wakeup' => age' = 0
    BY <1>1, <2>1
  <2>4. age = Period => age' = Period
    BY <1>1, <2>1
  <2>5. ASSUME Requested \/ Advertising, ~TimerOff
        PROVE  age' >= Period - live'[adv_timer_id']
    <3>1. adv_timer_id \in Handles /\ live[adv_timer_id] \in 0..Period
      BY <2>5, HandlesAssumption DEF IInv, TypeInv, TimerInv, TimerOff
    <3>2. live'[adv_timer_id] = live[adv_timer_id] - 1 /\ live[adv_timer_id] # 0
      BY <1>11, <3>1, HandlesAssumption DEF Tick
    <3>3. age' = IF age < Period THEN age + 1 ELSE age
      BY <2>1, <2>5 DEF Requested, Advertising, Unlinked
    <3>4. age >= Period - live[adv_timer_id]
      BY <2>5 DEF IInv, AgeInv
    <3>5. age' >= Period - live'[adv_timer_id]
      BY ONLY <1>1, <3>1, <3>2, <3>3, <3>4
    <3>. QED
      BY <2>1, <3>5
  <2>. QED
    BY <2>2, <2>3, <2>4, <2>5 DEF IInv, AgeInv
<1>12. CASE Sleep \/ Press \/ Release \/ UNCHANGED vars
  BY <1>4, <1>12 DEF Sleep, Press, Release, vars, appVars, hostVars, powerVars, msgVars
<1>13. CASE BleWakes
  <2>1. pc # "boot"
    BY <1>13 DEF BleWakes, IInv, SleepInv
  <2>. QED
    BY <1>4, <1>13, <2>1, WakeupSet DEF BleWakes, app_button_enable, appVars, hostVars
<1>14. CASE WKUP_QUADEC_Handler
  <2>1. /\ UNCHANGED <<appVars, cmds, hostVars, pc>> /\ wakeup_id' = wakeup_id
        /\ ext_wakeup' = FALSE
        /\ IF Dormant THEN Awoken' ELSE UNCHANGED queue
    BY <1>14, InterruptStage DEF WKUP_QUADEC_Handler
  <2>2. CASE Dormant
    BY <1>1, <1>2, <2>1, <2>2 DEF Dormant, hostVars
  <2>3. CASE ~Dormant
    <3>1. ext_wakeup = FALSE
      BY <2>3 DEF IInv, TypeInv, Stage, Booting, Requested, Advertising, Over, Awoken,
         Connecting, Connected, Unlinked
    <3>. QED
      BY <1>4, <2>1, <2>3, <3>1 DEF appVars, hostVars
  <2>. QED
    BY <2>2, <2>3
<1>15. CASE HostStart \/ HostCancel
  <2>1. UNCHANGED <<adv_timer_id, live, linked, ext_wakeup, age>>
    BY <1>15 DEF HostStart, HostCancel, appVars, powerVars
  <2>2. CASE (Requested \/ Advertising) /\ (Requested' \/ Advertising')
    BY <2>1, <2>2, NextStagesDiffer DEF IInv, AgeInv, TimerOff
  <2>3. CASE Advertising /\ TimerOff /\ Over'
    BY <2>1, <2>3, NextStagesDiffer DEF IInv, AgeInv
  <2>4. CASE Connecting' \/ Connected'
    BY <1>1, <1>2, <2>1, <2>4
  <2>. QED
    BY <1>15, <2>2, <2>3, <2>4, HostStage
<1>16. CASE HostConnect
  <2>1. Connecting' /\ age' = 0
    BY <1>16, HostStage DEF HostConnect
  <2>. QED
    BY <1>2, <2>1
<1>17. CASE HostDisconnect
  <2>1. (Connecting' \/ Connected') /\ UNCHANGED <<age, ext_wakeup>> /\ linked
    BY <1>17, HostStage DEF HostDisconnect, powerVars
  <2>. QED
    BY <1>1, <1>2, <2>1
<1>. QED
  BY <1>5, <1>6, <1>7, <1>8, <1>9, <1>10, <1>11, <1>12, <1>13, <1>14, <1>15, <1>16, <1>17
  DEF Next, MainLoop, HostCommand

(* The clock keeps within the period.                                      *)
LEMMA ClockStep ==
    ASSUME age \in 0..Period, [Next]_vars
    PROVE  age' \in 0..Period
<1>. USE PeriodAssumption
<1>1. CASE Tick
  <2>1. (age' = age + 1 /\ age < Period) \/ age' = age
    BY <1>1 DEF Tick
  <2>. QED
    BY <2>1
<1>2. CASE MainLoop \/ AdvTimeout
  <2>1. age' = 0 \/ age' = age
    BY <1>2 DEF MainLoop, Boot, AppStarts, gapc_connection_req_ind, gapc_disconnect_ind,
       AdvertisingCompleted, AdvertisingCanceled, SetWakeup, ReadPin, ArmIrq, CallCallback,
       FreeCallback, RunWakeup, AdvTimeout, hostVars
  <2>. QED
    BY <2>1
<1>3. CASE \/ Sleep \/ BleWakes \/ WKUP_QUADEC_Handler \/ Press \/ Release
           \/ HostCommand \/ HostConnect \/ HostDisconnect \/ UNCHANGED vars
  <2>1. age' = 0 \/ age' = age
    BY <1>3 DEF Sleep, BleWakes, WKUP_QUADEC_Handler, Press, Release, HostCommand, HostStart,
       HostCancel, HostConnect, HostDisconnect, vars, hostVars
  <2>. QED
    BY <2>1
<1>. QED
  BY <1>1, <1>2, <1>3 DEF Next

(* Every step of a button that is not held keeps the invariant.            *)
LEMMA InvStep ==
    ASSUME IInv, [Next]_vars, "held" \notin ButtonQuirks
    PROVE  IInv'
  BY StageStep, QueueStep, TimerStep, ButtonStep, SleepStep, FlagStep, AgeStep, ClockStep
  DEF IInv, TypeInv

(* It holds when the application starts.                                   *)
LEMMA InitInv == Init => IInv
<1>. SUFFICES ASSUME Init PROVE IInv
  OBVIOUS
<1>1. Booting
  BY DEF Init, Booting, Unlinked, TimerOff
<1>2. TypeInv
  <2>1. Len(queue) <= MaxQueue
    BY QueueAssumption DEF Init
  <2>2. live \in [Handles -> {NoTimer} \cup 0..Period]
    BY DEF Init
  <2>3. msg_util_callbacks \in [Messages -> {NULL, app_wakeup_cb}] /\ wakeup_id = 0
    BY DEF Init, MsgInit
  <2>4. /\ linked \in BOOLEAN /\ ext_wakeup \in BOOLEAN /\ asleep \in BOOLEAN
        /\ age = 0
    BY DEF Init
  <2>5. age \in 0..Period
    BY <2>4, PeriodAssumption
  <2>6. /\ adv_timer_id \in Handles \cup {0}
        /\ button \in {"high", "low"} /\ irq \in {"off", "armed", "pending"}
    BY DEF Init
  <2>. QED
    BY <2>1, <2>2, <2>3, <2>4, <2>5, <2>6 DEF TypeInv
<1>3. TimerInv
  BY HandlesAssumption DEF Init, TimerInv
<1>4. ButtonInv /\ SleepInv
  <2>1. ~Dormant /\ ~Awoken
    BY DEF Init, Dormant, Awoken, Connectable
  <2>2. pc = "boot" /\ irq = "off" /\ MsgInit /\ ~asleep
    BY DEF Init
  <2>. QED
    BY <2>1, <2>2 DEF ButtonInv, SleepInv
<1>5. AgeInv
  BY StagesDiffer, <1>1 DEF Init, AgeInv
<1>. QED
  BY <1>1, <1>2, <1>3, <1>4, <1>5 DEF IInv, Stage

-----------------------------------------------------------------------------
(* The invariants of the reporter. *)

(* One period of advertising follows the other and nothing is lost between *)
(* them, in whatever order the timeout, the connection, its loss, the      *)
(* commands and the button come.                                           *)
THEOREM OnePeriodAfterTheOther == ASSUME "held" \notin ButtonQuirks PROVE Spec => []IInv
<1>1. Init => IInv
  BY InitInv
<1>2. IInv /\ [Next]_vars => IInv'
  BY InvStep
<1>. QED
  BY <1>1, <1>2, PTL DEF Spec

(* The variables keep their types; the host has three commands to run at   *)
(* most (the command buffers of app.c), the task no more messages than its *)
(* queue holds.                                                            *)
THEOREM TypeCorrect == ASSUME "held" \notin ButtonQuirks PROVE Spec => []TypeOK
<1>1. IInv => TypeOK
  <2>. SUFFICES ASSUME IInv PROVE TypeOK
    OBVIOUS
  <2>1. TypeInv /\ Stage
    BY DEF IInv
  <2>2. /\ queue \in Seq([kind : Kinds, id : Messages \cup {0}])
        /\ cmds \in Seq({"start", "cancel"}) /\ Len(cmds) <= 3
        /\ task_state \in States /\ host \in {"idle", "advertising"} /\ pc \in Places
    BY <2>1, StageTypes DEF TypeInv, MessageSet
  <2>. QED
    BY <2>1, <2>2 DEF TypeOK, TypeInv
<1>. QED
  BY <1>1, OnePeriodAfterTheOther, PTL

(* A sleeping reporter advertises, has a link, or is dormant with its      *)
(* button ready: it never sleeps for ever (rwip_sleep, app_button_enable). *)
THEOREM SleepIsNeverFinal == ASSUME "held" \notin ButtonQuirks PROVE Spec => []SleepIsLeft
<1>1. IInv => SleepIsLeft
  <2>. SUFFICES ASSUME IInv, asleep PROVE SleepIsLeft!2
    BY DEF SleepIsLeft
  <2>1. pc = "loop" /\ queue = <<>> /\ cmds = <<>>
    BY DEF IInv, SleepInv
  <2>2. Advertising \/ Dormant \/ (Connected /\ linked)
    BY <2>1, ShortTail DEF IInv, Stage, Booting, Requested, Over, Awoken, Connecting, Connected
  <2>. QED
    BY <2>1, <2>2 DEF Advertising, Dormant, Connected, IInv, ButtonInv
<1>. QED
  BY <1>1, OnePeriodAfterTheOther, PTL

(* Whenever the wake-up message comes to be served, its callback is bound: *)
(* app_easy_msg_call_callback and the interrupt share the entry safely.    *)
THEOREM WakeupFindsItsCallback ==
    ASSUME "held" \notin ButtonQuirks PROVE Spec => []WakeupIsBound
<1>1. IInv => WakeupIsBound
  <2>. SUFFICES ASSUME IInv, NEW i \in 1..Len(queue), queue[i].kind = "msg", ~(i = 1 /\ pc = "run")
                PROVE  msg_util_callbacks[queue[i].id] = app_wakeup_cb
    BY DEF WakeupIsBound
  <2>1. /\ CompletedMsg.kind # "msg" /\ CanceledMsg.kind # "msg"
        /\ ConnMsg.kind # "msg" /\ DiscMsg.kind # "msg"
    BY DEF CompletedMsg, CanceledMsg, ConnMsg, DiscMsg, Event
  <2>2. \A m, n, o \in {CompletedMsg, CanceledMsg, ConnMsg, DiscMsg} :
           queue # <<>> /\ queue # <<m>> /\ queue # <<m, n>> /\ queue # <<m, n, o>>
    BY <2>1
  <2>3. Awoken
    <3>. HIDE DEF CompletedMsg, CanceledMsg, ConnMsg, DiscMsg
    <3>. QED
      BY <2>2 DEF IInv, Stage, Booting, Requested, Advertising, Over, Dormant, Connecting, Connected
  <2>4. i = 1 /\ queue[i].id = wakeup_id
    BY <2>3 DEF Awoken, WakeupMsg
  <2>. QED
    BY <2>3, <2>4 DEF IInv, ButtonInv, WakeupIsSet
<1>. QED
  BY <1>1, OnePeriodAfterTheOther, PTL

(* The BLE core is stopped only when neither host nor timer needs it.      *)
THEOREM DormantDevicesAreQuiet ==
    ASSUME "held" \notin ButtonQuirks PROVE Spec => []DormantIsQuiet
<1>1. IInv => DormantIsQuiet
  <2>. SUFFICES ASSUME IInv, ext_wakeup PROVE DormantIsQuiet!2
    BY DEF DormantIsQuiet
  <2>1. Dormant
    BY DEF IInv, Stage, Booting, Requested, Advertising, Over, Awoken, Connecting, Connected, Unlinked
  <2>2. \A h \in Handles : live[h] = NoTimer
    BY <2>1, HandlesAssumption DEF Dormant, TimerOff, IInv, TimerInv
  <2>. QED
    BY <2>1, <2>2 DEF Dormant
<1>. QED
  BY <1>1, OnePeriodAfterTheOther, PTL

(* The advertising timer is neither lost nor left to end a later period.   *)
THEOREM AdvTimersAreHeld == ASSUME "held" \notin ButtonQuirks PROVE Spec => []AdvTimerIsHeld
<1>1. IInv => AdvTimerIsHeld
  <2>. SUFFICES ASSUME IInv PROVE AdvTimerIsHeld
    OBVIOUS
  <2>1. task_state = "APP_CONNECTED" => adv_timer_id = 0
    BY DEF IInv, Stage, Booting, Requested, Advertising, Over, Dormant, Awoken, Connecting, Connected,
       Connectable, TimerOff
  <2>. QED
    BY <2>1 DEF IInv, TimerInv, AdvTimerIsHeld
<1>. QED
  BY <1>1, OnePeriodAfterTheOther, PTL

(* Indications find the task in the state they ask for, and the host is    *)
(* asked to start only when it is idle (gapc_connection_req_ind_handler,   *)
(* gapc_disconnect_ind_handler).                                           *)
THEOREM HostAndTaskAlwaysAgree ==
    ASSUME "held" \notin ButtonQuirks PROVE Spec => []HostAndTaskAgree
<1>1. IInv => HostAndTaskAgree
  <2>. SUFFICES ASSUME IInv PROVE HostAndTaskAgree
    OBVIOUS
  <2>1. Received("conn") => task_state = "APP_CONNECTABLE"
    BY ReceivedStage DEF IInv, Connecting, Connectable
  <2>2. Received("disc") => task_state = "APP_CONNECTED"
    BY ReceivedStage DEF IInv, Connected
  <2>3. ASSUME cmds # <<>>, Head(cmds) = "start"
        PROVE  host = "idle" /\ ~linked
    <3>1. Requested
      BY <2>3, ShortTail DEF IInv, Stage, Booting, Over, Dormant, Awoken, Advertising,
         Connecting, Connected
    <3>. QED
      BY <3>1 DEF Requested, Unlinked
  <2>. QED
    BY <2>1, <2>2, <2>3 DEF HostAndTaskAgree
<1>. QED
  BY <1>1, OnePeriodAfterTheOther, PTL

-----------------------------------------------------------------------------
(* What the owner sees is a beacon. *)

BeaconVars == <<Mode, age, Noticed>>

(* A step that leaves link, power and clock alone leaves the beacon alone, *)
(* or is its button.                                                       *)
LEMMA BeaconStays ==
    ASSUME UNCHANGED <<linked, ext_wakeup, age>>, Noticed' = TRUE \/ UNCHANGED Noticed
    PROVE  B!Press \/ UNCHANGED BeaconVars
  BY DEF B!Press, BeaconVars, Mode

(* The host's steps: a connection and its loss are the beacon's.           *)
LEMMA HostIsBeacon ==
    ASSUME IInv, HostStart \/ HostCancel \/ HostConnect \/ HostDisconnect
    PROVE  B!Connect \/ B!Disconnect \/ UNCHANGED BeaconVars
<1>1. UNCHANGED <<Noticed, ext_wakeup>>
  BY DEF HostStart, HostCancel, HostConnect, HostDisconnect, Noticed, powerVars
<1>2. CASE HostStart \/ HostCancel
  BY <1>1, <1>2 DEF HostStart, HostCancel, BeaconVars, Mode
<1>3. CASE HostConnect
  <2>1. Advertising /\ linked' /\ age' = 0
    BY <1>3, HostStage DEF HostConnect
  <2>2. Mode = "advertising" /\ Mode' = "connected"
    BY <2>1 DEF Mode, Advertising
  <2>. QED
    BY <1>1, <2>1, <2>2 DEF B!Connect
<1>4. CASE HostDisconnect
  <2>1. (Connecting \/ Connected) /\ linked /\ ~linked' /\ UNCHANGED age
    BY <1>4, HostStage DEF HostDisconnect
  <2>2. Mode = "connected" /\ Mode' = "advertising"
    BY <1>1, <2>1 DEF Mode, Connecting, Connected
  <2>. QED
    BY <1>1, <2>1, <2>2 DEF B!Disconnect
<1>. QED
  BY <1>2, <1>3, <1>4

(* The clock of the reporter is that of the beacon.                        *)
LEMMA TickIsBeacon ==
    ASSUME IInv, Tick
    PROVE  B!Tick \/ UNCHANGED BeaconVars
<1>1. /\ UNCHANGED <<linked, ext_wakeup, Noticed>>
      /\ age' = IF ~linked /\ ~ext_wakeup /\ age < Period THEN age + 1 ELSE age
  BY DEF Tick, powerVars, Noticed
<1>2. CASE ~linked /\ ~ext_wakeup /\ age < Period
  BY <1>1, <1>2 DEF B!Tick, Mode
<1>3. CASE ~(~linked /\ ~ext_wakeup /\ age < Period)
  <2>1. age' = age
    BY ONLY <1>1, <1>3
  <2>. QED
    BY <1>1, <2>1 DEF BeaconVars, Mode
<1>. QED
  BY <1>2, <1>3

(* Every step of the reporter is one of the beacon or changes nothing the  *)
(* owner sees.                                                             *)
LEMMA BeaconStep ==
    ASSUME IInv, [Next]_vars
    PROVE  B!Next \/ UNCHANGED BeaconVars
<1>1. CASE HostCommand \/ HostConnect \/ HostDisconnect
  BY <1>1, HostIsBeacon DEF HostCommand, B!Next
<1>2. CASE Tick
  BY <1>2, TickIsBeacon DEF B!Next
<1>3. CASE AdvertisingCanceled
  <2>1. Over /\ ext_wakeup' /\ age' = 0 /\ UNCHANGED <<linked, Noticed>>
    BY <1>3, ReceivedStage DEF AdvertisingCanceled, IInv, Noticed
  <2>2. age = Period /\ ~linked /\ ~ext_wakeup
    BY <2>1 DEF IInv, AgeInv, Over, Unlinked
  <2>. QED
    BY <2>1, <2>2 DEF B!Next, B!LieDown, Mode
<1>4. CASE WKUP_QUADEC_Handler
  <2>1. Noticed = TRUE /\ Noticed' = FALSE /\ UNCHANGED <<linked, age>> /\ ext_wakeup' = FALSE
    BY <1>4, InterruptStage DEF WKUP_QUADEC_Handler, Noticed, hostVars
  <2>2. CASE ext_wakeup
    <3>1. ~linked
      BY <2>2 DEF IInv, Stage, Booting, Requested, Advertising, Over, Dormant, Awoken,
         Connecting, Connected, Unlinked
    <3>. QED
      BY <2>1, <2>2, <3>1 DEF B!Next, B!GetUp, Mode
  <2>3. CASE ~ext_wakeup
    <3>1. Mode # "dormant" /\ Mode' = Mode
      BY <2>1, <2>3 DEF Mode
    <3>. QED
      BY <2>1, <3>1 DEF B!Next, B!Ignore
  <2>. QED
    BY <2>2, <2>3
<1>5. CASE \/ Boot \/ AppStarts \/ gapc_connection_req_ind \/ gapc_disconnect_ind
           \/ AdvertisingCompleted \/ SetWakeup \/ ReadPin \/ ArmIrq
           \/ CallCallback \/ FreeCallback \/ RunWakeup
  <2>1. UNCHANGED <<linked, ext_wakeup, age>>
    BY <1>5 DEF Boot, AppStarts, gapc_connection_req_ind, gapc_disconnect_ind,
       AdvertisingCompleted, SetWakeup, ReadPin, ArmIrq, CallCallback, FreeCallback, RunWakeup,
       hostVars, powerVars
  <2>2. Noticed' = TRUE \/ UNCHANGED Noticed
    BY <1>5 DEF Boot, AppStarts, gapc_connection_req_ind, gapc_disconnect_ind,
       AdvertisingCompleted, SetWakeup, ReadPin, ArmIrq, CallCallback, FreeCallback, RunWakeup,
       app_button_enable, Armed, Noticed, IInv, TypeInv
  <2>. QED
    BY <2>1, <2>2, BeaconStays DEF B!Next
<1>6. CASE AdvTimeout \/ BleWakes \/ Sleep \/ Press \/ Release \/ UNCHANGED vars
  <2>1. UNCHANGED <<linked, ext_wakeup, age>>
    BY <1>6 DEF AdvTimeout, BleWakes, Sleep, Press, Release, vars, hostVars, powerVars
  <2>2. Noticed' = TRUE \/ UNCHANGED Noticed
    BY <1>6 DEF AdvTimeout, BleWakes, app_button_enable, Armed, Sleep, Press, Release, vars, Noticed
  <2>. QED
    BY <2>1, <2>2, BeaconStays DEF B!Next
<1>. QED
  BY <1>1, <1>2, <1>3, <1>4, <1>5, <1>6 DEF Next, MainLoop

(* The reporter is a beacon: it goes dormant only when it has been up for  *)
(* a full period without a connection, and gets up only after a press of   *)
(* its button, however connections, timeouts and interrupts fall.          *)
THEOREM ReporterIsABeacon == ASSUME "held" \notin ButtonQuirks PROVE Spec => ImplementsBeacon
<1>1. Init => B!Init
  BY DEF Init, B!Init, Mode, Noticed
<1>2. IInv /\ [Next]_vars => [B!Next]_<<Mode, age, Noticed>>
  BY BeaconStep DEF BeaconVars
<1>. QED
  BY <1>1, <1>2, OnePeriodAfterTheOther, PTL DEF Spec, ImplementsBeacon, B!Spec
=============================================================================
