------------------------- MODULE AppEasyTimerProofs -------------------------
(***************************************************************************)
(* Proofs about the easy timers, for every number of slots, every set of   *)
(* callbacks, every longest delay and every queue bound.                   *)
(***************************************************************************)
EXTENDS AppEasyTimer, TLAPS

(* Appending keeps the old messages in place and puts the new one last. *)
LEMMA AppendMessage ==
    ASSUME NEW q \in Seq(Messages), NEW m \in Messages
    PROVE  /\ Append(q, m) \in Seq(Messages)
           /\ Len(Append(q, m)) = Len(q) + 1
           /\ \A i \in 1..Len(q) : Append(q, m)[i] = q[i]
           /\ Append(q, m)[Len(q) + 1] = m
  OBVIOUS

(* Consuming the oldest message moves the others one place forward. *)
LEMMA TailMessages ==
    ASSUME NEW q \in Seq(Messages), q # << >>
    PROVE  /\ Head(q) \in Messages /\ Head(q) = q[1]
           /\ Tail(q) \in Seq(Messages)
           /\ Len(q) \in Nat /\ Len(q) >= 1 /\ Len(Tail(q)) = Len(q) - 1
           /\ \A i \in 1..(Len(q) - 1) : Tail(q)[i] = q[i + 1]
  OBVIOUS

(* A message is well formed when its parts are. *)
LEMMA MsgType ==
    ASSUME NEW k \in {"CREATE", "CANCEL", "MODIFY", "EXPIRY"}, NEW s \in Slots,
           NEW d \in Ticks \cup {Uninit},
           k \in {"CREATE", "MODIFY"} => d # Uninit
    PROVE  Msg(k, s, d) \in Messages
  BY DEF Msg, Messages

(* What cancel_all appends to the queue. *)
LEMMA AppendCancels ==
    ASSUME NEW q \in Seq(Messages), NEW n \in Slots, NEW order \in [1..n -> Slots]
    PROVE  /\ q \o CancelMessages(n, order) \in Seq(Messages)
           /\ Len(q \o CancelMessages(n, order)) = Len(q) + n
           /\ \A i \in 1..Len(q) : (q \o CancelMessages(n, order))[i] = q[i]
           /\ \A i \in 1..n : (q \o CancelMessages(n, order))[Len(q) + i]
                               = Msg("CANCEL", order[i], Uninit)
<1> DEFINE c == CancelMessages(n, order)
<1>1. n \in Nat
  BY SizeAssumption DEF Slots
<1>2. c = [i \in 1..n |-> Msg("CANCEL", order[i], Uninit)]
  BY DEF CancelMessages
<1>3. \A i \in 1..n : Msg("CANCEL", order[i], Uninit) \in Messages
  BY MsgType DEF Ticks
<1> HIDE DEF c
<1>4. c \in Seq(Messages) /\ Len(c) = n
  BY <1>1, <1>2, <1>3
<1>5. /\ q \o c \in Seq(Messages) /\ Len(q \o c) = Len(q) + n
      /\ \A i \in 1..Len(q) : (q \o c)[i] = q[i]
  BY <1>1, <1>4
<1>6. ASSUME NEW i \in 1..n
      PROVE  (q \o c)[Len(q) + i] = Msg("CANCEL", order[i], Uninit)
  <2>1. (q \o c)[Len(q) + i] = c[i]
    BY <1>1, <1>4
  <2> QED
    BY <2>1, <1>2
<1> QED
  BY <1>5, <1>6 DEF c

-----------------------------------------------------------------------------
(* Type correctness: the slots, kernel timers and messages keep their      *)
(* types; in particular no user callback is ever saved as a dummy one      *)
(* (modify saves the callback before it overwrites it).                    *)
LEMMA InitType == Init => TypeOK
  BY SizeAssumption DEF Init, TypeOK

LEMMA NextType == TypeOK /\ [Next]_vars => TypeOK'
<1> SUFFICES ASSUME TypeOK, [Next]_vars PROVE TypeOK'
  OBVIOUS
<1> USE SizeAssumption DEF TypeOK, Slots, Delays, Ticks
<1>1. ASSUME NEW s \in Slots, NEW d \in Delays, NEW fn \in Callbacks,
             app_easy_timer(s, d, fn)
      PROVE  TypeOK'
  <2>1. Msg("CREATE", s, d) \in Messages
    BY MsgType, OffAssumption
  <2>2. /\ ke_timers' \in [Slots -> Ticks \cup {Off}]
        /\ ke_queue' \in Seq(Messages)
    <3>1. CASE ble_active
      BY <1>1, <3>1 DEF app_easy_timer, create_timer
    <3>2. CASE ~ble_active
      <4>1. ke_queue' = Append(ke_queue, Msg("CREATE", s, d))
        BY <1>1, <3>2 DEF app_easy_timer, create_timer
      <4>2. ke_queue' \in Seq(Messages)
        BY <4>1, <2>1, AppendMessage
      <4> QED
        BY <1>1, <3>2, <4>2 DEF app_easy_timer, create_timer
    <3> QED
      BY <3>1, <3>2
  <2>3. asked' \in [Slots -> Requests \cup {NoTimer}]
    BY <1>1 DEF app_easy_timer, Requests
  <2> QED
    BY <1>1, <2>2, <2>3 DEF app_easy_timer
<1>2. ASSUME NEW s \in Slots, app_easy_timer_cancel(s)
      PROVE  TypeOK'
  <2>1. Msg("CANCEL", s, Uninit) \in Messages
    BY MsgType
  <2> QED
    BY <1>2, <2>1, AppendMessage DEF app_easy_timer_cancel
<1>3. ASSUME app_easy_timer_cancel_all
      PROVE  TypeOK'
  <2> DEFINE running == {s \in Slots : CancelAccepted(s)}
  <2>1. PICK n \in Slots : \E order \in [1..n -> running] :
           ke_queue' = ke_queue \o CancelMessages(n, order)
    BY <1>3 DEF app_easy_timer_cancel_all
  <2>2. PICK order \in [1..n -> running] :
           ke_queue' = ke_queue \o CancelMessages(n, order)
    BY <2>1
  <2>3. order \in [1..n -> Slots]
    OBVIOUS
  <2>4. ke_queue' \in Seq(Messages)
    BY <2>2, <2>3, AppendCancels
  <2> QED
    BY <1>3, <2>4 DEF app_easy_timer_cancel_all
<1>4. ASSUME NEW s \in Slots, NEW d \in Delays, app_easy_timer_modify(s, d)
      PROVE  TypeOK'
  <2>1. Msg("CANCEL", s, d) \in Messages
    BY MsgType
  <2>2. asked' \in [Slots -> Requests \cup {NoTimer}]
    BY <1>4 DEF app_easy_timer_modify, Requests
  <2>3. modified_timer_callbacks' \in [Slots -> Callbacks \cup {NULL, Canceled}]
    BY <1>4 DEF app_easy_timer_modify
  <2> QED
    BY <1>4, <2>1, <2>2, <2>3, AppendMessage DEF app_easy_timer_modify
<1>5. CASE create_timer_handler
  <2>1. /\ Head(ke_queue) \in Messages /\ Tail(ke_queue) \in Seq(Messages)
        /\ Head(ke_queue).kind = "CREATE"
    BY <1>5, TailMessages DEF create_timer_handler, Receive
  <2> QED
    BY <1>5, <2>1 DEF create_timer_handler, Messages
<1>6. CASE cancel_timer_handler
  <2> DEFINE s == Head(ke_queue).slot
  <2>1. /\ Head(ke_queue) \in Messages /\ Tail(ke_queue) \in Seq(Messages)
    BY <1>6, TailMessages DEF cancel_timer_handler, Receive
  <2>2. s \in Slots /\ DelayRead(Head(ke_queue).delay) \subseteq Ticks
    BY <2>1 DEF Messages, DelayRead
  <2>3. \A d \in Ticks : Append(Tail(ke_queue), Msg("MODIFY", s, d)) \in Seq(Messages)
    <3> TAKE d \in Ticks
    <3>1. Msg("MODIFY", s, d) \in Messages
      BY <2>2, MsgType, OffAssumption
    <3> QED
      BY <3>1, <2>1, AppendMessage
  <2>4. ke_queue' \in Seq(Messages)
    BY <1>6, <2>1, <2>2, <2>3 DEF cancel_timer_handler
  <2> QED
    BY <1>6, <2>2, <2>4 DEF cancel_timer_handler, Release
<1>7. CASE modify_timer_handler
  <2>1. /\ Head(ke_queue) \in Messages /\ Tail(ke_queue) \in Seq(Messages)
        /\ Head(ke_queue).kind = "MODIFY"
    BY <1>7, TailMessages DEF modify_timer_handler, Receive
  <2>2. Head(ke_queue).slot \in Slots /\ Head(ke_queue).delay \in Ticks
    BY <2>1 DEF Messages
  <2>3. /\ timer_callbacks' \in [Slots -> Callbacks \cup {NULL, Canceled, Modified}]
        /\ ke_timers' \in [Slots -> Ticks \cup {Off}]
    <3>1. CASE timer_callbacks[Head(ke_queue).slot] = Modified
      <4> DEFINE h == Head(ke_queue).slot
      <4>1. /\ timer_callbacks' = [timer_callbacks EXCEPT ![h] = modified_timer_callbacks[h]]
            /\ ke_timers' = [ke_timers EXCEPT ![h] = Head(ke_queue).delay]
        BY <1>7, <3>1 DEF modify_timer_handler
      <4>2. modified_timer_callbacks[h] \in Callbacks \cup {NULL, Canceled, Modified}
        BY <2>2
      <4> QED
        BY <2>2, <4>1, <4>2
    <3>2. CASE timer_callbacks[Head(ke_queue).slot] # Modified
      BY <1>7, <3>2 DEF modify_timer_handler
    <3> QED
      BY <3>1, <3>2
  <2> QED
    BY <1>7, <2>1, <2>3 DEF modify_timer_handler
<1>8. CASE call_callback_handler
  <2>1. /\ Head(ke_queue) \in Messages /\ Tail(ke_queue) \in Seq(Messages)
    BY <1>8, TailMessages DEF call_callback_handler, Receive
  <2>2. Head(ke_queue).slot \in Slots
    BY <2>1 DEF Messages
  <2>3. CASE timer_callbacks[Head(ke_queue).slot] \in Callbacks
    <3>1. calls' \in [Slots -> [fn : Callbacks \cup {NULL}, odd : BOOLEAN]]
      <4> DEFINE h == Head(ke_queue).slot
      <4>1. calls' = [calls EXCEPT ![h] = [fn |-> timer_callbacks[h], odd |-> ~calls[h].odd]]
        BY <1>8, <2>3 DEF call_callback_handler
      <4>2. [fn |-> timer_callbacks[h], odd |-> ~calls[h].odd]
               \in [fn : Callbacks \cup {NULL}, odd : BOOLEAN]
        BY <2>2, <2>3
      <4> QED
        BY <2>2, <4>1, <4>2
    <3> QED
      BY <1>8, <2>1, <2>2, <2>3, <3>1, ZenonT(30) DEF call_callback_handler, Release
  <2>4. CASE timer_callbacks[Head(ke_queue).slot] \notin Callbacks
    BY <1>8, <2>1, <2>4 DEF call_callback_handler
  <2> QED
    BY <2>3, <2>4
<1>9. CASE Tick
  <2>1. \A n \in Ticks : Down(n) \in Ticks
    BY DEF Down
  <2>2. ke_timers' \in [Slots -> Ticks \cup {Off}]
    BY <1>9, <2>1 DEF Tick
  <2>3. asked' \in [Slots -> Requests \cup {NoTimer}]
    BY <1>9, <2>1 DEF Tick, Requests
  <2> QED
    BY <1>9, <2>2, <2>3 DEF Tick
<1>10. ASSUME NEW s \in Slots, ke_timer_expiry(s)
       PROVE  TypeOK'
  <2>1. Msg("EXPIRY", s, Uninit) \in Messages
    BY MsgType
  <2> QED
    BY <1>10, <2>1, AppendMessage DEF ke_timer_expiry
<1>11. CASE rwip_sleep
  BY <1>11 DEF rwip_sleep
<1>12. CASE ble_wakeup
  BY <1>12 DEF ble_wakeup
<1>13. CASE UNCHANGED vars
  BY <1>13 DEF vars
<1> QED
  BY <1>1, <1>2, <1>3, <1>4, <1>5, <1>6, <1>7, <1>8, <1>9, <1>10, <1>11, <1>12,
     <1>13 DEF Next, Api, Handler

(* Every reachable state is well typed. *)
THEOREM TypeCorrect == Spec => []TypeOK
<1>1. Init => TypeOK
  BY InitType
<1>2. TypeOK /\ [Next]_vars => TypeOK'
  BY NextType
<1> QED
  BY <1>1, <1>2, PTL DEF Spec
-----------------------------------------------------------------------------
(* The inductive invariant.  An action touches one slot; the other slots   *)
(* keep their state and their messages, and hence SlotOK.                  *)

SameSlot(t) ==
    /\ timer_callbacks'[t] = timer_callbacks[t]
    /\ modified_timer_callbacks'[t] = modified_timer_callbacks[t]
    /\ ke_timers'[t] = ke_timers[t]
    /\ asked'[t] = asked[t]

SameMessages(t) ==
    /\ \A i \in 1..Len(ke_queue) : ke_queue[i].slot = t
          => \E j \in 1..Len(ke_queue') : ke_queue'[j] = ke_queue[i]
    /\ \A j \in 1..Len(ke_queue') : ke_queue'[j].slot = t
          => \E i \in 1..Len(ke_queue) : ke_queue[i] = ke_queue'[j]

LEMMA SlotFrame ==
    ASSUME NEW t \in Slots, SlotOK(t), SameSlot(t), SameMessages(t)
    PROVE  SlotOK(t)'
  BY DEF SlotOK, SameSlot, SameMessages, Carries

LEMMA MessageFrame ==
    ASSUME NEW i \in 1..Len(ke_queue), NEW j \in 1..Len(ke_queue'),
           ke_queue'[j] = ke_queue[i],
           MessageOK(ke_queue[i]), SameSlot(ke_queue[i].slot)
    PROVE  MessageOK(ke_queue[j])'
  BY DEF MessageOK, SameSlot

LEMMA AppendFrame ==
    ASSUME NEW m \in Messages, NEW t \in Slots, t # m.slot,
           ke_queue \in Seq(Messages), ke_queue' = Append(ke_queue, m)
    PROVE  SameMessages(t)
<1>1. /\ Len(ke_queue') = Len(ke_queue) + 1 /\ Len(ke_queue) \in Nat
      /\ \A i \in 1..Len(ke_queue) : ke_queue'[i] = ke_queue[i]
      /\ ke_queue'[Len(ke_queue) + 1] = m
  BY AppendMessage
<1> QED
  BY <1>1 DEF SameMessages

LEMMA TailFrame ==
    ASSUME NEW t \in Slots, ke_queue \in Seq(Messages), ke_queue # << >>,
           t # Head(ke_queue).slot, ke_queue' = Tail(ke_queue)
    PROVE  SameMessages(t)
<1>1. /\ Len(ke_queue) \in Nat /\ Len(ke_queue) >= 1
      /\ Len(ke_queue') = Len(ke_queue) - 1
      /\ \A i \in 1..(Len(ke_queue) - 1) : ke_queue'[i] = ke_queue[i + 1]
      /\ Head(ke_queue) = ke_queue[1]
  BY TailMessages
<1>2. ASSUME NEW i \in 1..Len(ke_queue), ke_queue[i].slot = t
      PROVE  \E j \in 1..Len(ke_queue') : ke_queue'[j] = ke_queue[i]
  <2>1. i # 1
    BY <1>1, <1>2
  <2>2. i - 1 \in 1..Len(ke_queue') /\ ke_queue'[i - 1] = ke_queue[i]
    BY <1>1, <2>1
  <2> QED
    BY <2>2
<1>3. ASSUME NEW j \in 1..Len(ke_queue')
      PROVE  \E i \in 1..Len(ke_queue) : ke_queue[i] = ke_queue'[j]
  <2>1. j + 1 \in 1..Len(ke_queue) /\ ke_queue[j + 1] = ke_queue'[j]
    BY <1>1
  <2> QED
    BY <2>1
<1> QED
  BY <1>2, <1>3 DEF SameMessages

(* Behind the oldest message, unless it is an expiry, its slot has none.   *)
LEMMA AloneUnlessExpiry ==
    ASSUME ExpiryFirst, ke_queue \in Seq(Messages), ke_queue # << >>,
           NEW j \in 2..Len(ke_queue), ke_queue[j].slot = Head(ke_queue).slot
    PROVE  /\ Head(ke_queue).kind = "EXPIRY"
           /\ ke_queue[j].kind \in {"CANCEL", "MODIFY"}
<1>1. Head(ke_queue) = ke_queue[1] /\ Len(ke_queue) \in Nat
  BY TailMessages
<1> QED
  BY <1>1 DEF ExpiryFirst

(* Consuming a message keeps the order of the others. *)
LEMMA TailExpiryFirst ==
    ASSUME ExpiryFirst, ke_queue \in Seq(Messages), ke_queue # << >>,
           ke_queue' = Tail(ke_queue)
    PROVE  ExpiryFirst'
<1>1. /\ Len(ke_queue) \in Nat
      /\ Len(ke_queue') = Len(ke_queue) - 1
      /\ \A i \in 1..(Len(ke_queue) - 1) : ke_queue'[i] = ke_queue[i + 1]
  BY TailMessages
<1>2. SUFFICES ASSUME NEW i \in 1..Len(ke_queue'), NEW j \in 1..Len(ke_queue'),
                      i < j, ke_queue'[i].slot = ke_queue'[j].slot
               PROVE  /\ ke_queue'[i].kind = "EXPIRY"
                      /\ ke_queue'[j].kind \in {"CANCEL", "MODIFY"}
  BY DEF ExpiryFirst
<1>3. /\ i + 1 \in 1..Len(ke_queue) /\ j + 1 \in 1..Len(ke_queue) /\ i + 1 < j + 1
      /\ ke_queue'[i] = ke_queue[i + 1] /\ ke_queue'[j] = ke_queue[j + 1]
  BY <1>1, <1>2
<1> QED
  BY <1>2, <1>3 DEF ExpiryFirst

(* A message may be appended when its slot has no other, or when it is the *)
(* message of a cancel or modify and its slot has expiries only.           *)
LEMMA AppendExpiryFirst ==
    ASSUME ExpiryFirst, ke_queue \in Seq(Messages), NEW m \in Messages,
           ke_queue' = Append(ke_queue, m),
           \A i \in 1..Len(ke_queue) : ke_queue[i].slot = m.slot
              => ke_queue[i].kind = "EXPIRY" /\ m.kind \in {"CANCEL", "MODIFY"}
    PROVE  ExpiryFirst'
<1>1. /\ Len(ke_queue') = Len(ke_queue) + 1 /\ Len(ke_queue) \in Nat
      /\ \A i \in 1..Len(ke_queue) : ke_queue'[i] = ke_queue[i]
      /\ ke_queue'[Len(ke_queue) + 1] = m
  BY AppendMessage
<1>2. SUFFICES ASSUME NEW i \in 1..Len(ke_queue'), NEW j \in 1..Len(ke_queue'),
                      i < j, ke_queue'[i].slot = ke_queue'[j].slot
               PROVE  /\ ke_queue'[i].kind = "EXPIRY"
                      /\ ke_queue'[j].kind \in {"CANCEL", "MODIFY"}
  BY DEF ExpiryFirst
<1>3. i \in 1..Len(ke_queue) /\ ke_queue'[i] = ke_queue[i]
  BY <1>1, <1>2
<1>4. CASE j = Len(ke_queue) + 1
  BY <1>1, <1>2, <1>3, <1>4
<1>5. CASE j \in 1..Len(ke_queue)
  BY <1>1, <1>2, <1>3, <1>5 DEF ExpiryFirst
<1> QED
  BY <1>1, <1>4, <1>5

(* A slot without a dummy callback and without a creation in the queue has *)
(* at most expiries queued.                                                *)
LEMMA OnlyExpiries ==
    ASSUME IInv, NEW s \in Slots, timer_callbacks[s] \notin {Canceled, Modified},
           timer_callbacks[s] = NULL \/ ~Queued({"CREATE"}, s),
           NEW i \in 1..Len(ke_queue), ke_queue[i].slot = s
    PROVE  ke_queue[i].kind = "EXPIRY" /\ timer_callbacks[s] # NULL
<1>1. ke_queue[i] \in Messages /\ MessageOK(ke_queue[i])
  BY DEF IInv, TypeOK
<1> QED
  BY <1>1, CallbackAssumption DEF MessageOK, Queued, Messages

LEMMA InitIInv == Init => IInv
  BY InitType DEF Init, IInv, SlotOK, ExpiryFirst

(* The four parts of the invariant, from what a step does to one slot s:   *)
(* the other slots are framed, and s and the queue are checked.            *)
LEMMA OneSlot ==
    ASSUME IInv, TypeOK', NEW s \in Slots,
           \A t \in Slots \ {s} : SameSlot(t) /\ SameMessages(t),
           SlotOK(s)',
           \A j \in 1..Len(ke_queue') : ke_queue'[j].slot = s => MessageOK(ke_queue[j])',
           ExpiryFirst'
    PROVE  IInv'
<1>1. \A t \in Slots : SlotOK(t)'
  <2>1. ASSUME NEW t \in Slots, t # s
        PROVE  SlotOK(t)'
    BY <2>1, SlotFrame DEF IInv
  <2> QED
    BY <2>1
<1>2. ASSUME NEW j \in 1..Len(ke_queue'), ke_queue'[j].slot # s
      PROVE  MessageOK(ke_queue[j])'
  <2>1. ke_queue'[j].slot \in Slots \ {s}
    BY <1>2 DEF TypeOK, Messages
  <2>2. PICK i \in 1..Len(ke_queue) : ke_queue[i] = ke_queue'[j]
    BY <2>1 DEF SameMessages
  <2>3. MessageOK(ke_queue[i]) /\ SameSlot(ke_queue[i].slot)
    BY <2>1, <2>2 DEF IInv
  <2> QED
    BY <2>2, <2>3, MessageFrame
<1> QED
  BY <1>1, <1>2 DEF IInv
(* A new timer takes a slot that has nothing left in the kernel.           *)
LEMMA CreateIInv ==
    ASSUME IInv, TypeOK', NEW s \in Slots, NEW d \in Delays, NEW fn \in Callbacks,
           app_easy_timer(s, d, fn)
    PROVE  IInv'
<1> DEFINE m == Msg("CREATE", s, d)
<1>1. /\ timer_callbacks[s] = NULL
      /\ timer_callbacks'[s] = fn
      /\ asked'[s] = [fn |-> fn, due |-> d] /\ asked'[s] # NoTimer
      /\ \A t \in Slots \ {s} : /\ timer_callbacks'[t] = timer_callbacks[t]
                               /\ asked'[t] = asked[t]
      /\ modified_timer_callbacks' = modified_timer_callbacks
  BY SizeAssumption, NoTimerAssumption
  DEF app_easy_timer, FirstFree, IInv, TypeOK, Delays
<1>2. \A i \in 1..Len(ke_queue) : ke_queue[i].slot # s
  BY <1>1, OnlyExpiries, DummyAssumption
<1>3. ke_timers[s] = Off
  BY <1>1, CallbackAssumption, DummyAssumption DEF IInv, SlotOK
<1>4. CASE ble_active
  <2>1. ke_queue' = ke_queue /\ ke_timers' = [ke_timers EXCEPT ![s] = d]
    BY <1>1, <1>4 DEF app_easy_timer, create_timer
  <2>2. \A t \in Slots \ {s} : SameSlot(t) /\ SameMessages(t)
    BY <1>1, <2>1 DEF SameSlot, SameMessages, IInv, TypeOK
  <2>3. SlotOK(s)'
    BY <1>1, <1>2, <2>1, OffAssumption DEF SlotOK, IInv, TypeOK, Delays
  <2>4. ExpiryFirst'
    BY <2>1 DEF IInv, ExpiryFirst
  <2> QED
    BY <1>2, <2>1, <2>2, <2>3, <2>4, OneSlot
<1>5. CASE ~ble_active
  <2>1. ke_queue' = Append(ke_queue, m) /\ ke_timers' = ke_timers
    BY <1>1, <1>5 DEF app_easy_timer, create_timer
  <2>2. m \in Messages /\ m.slot = s /\ m.kind = "CREATE" /\ m.delay = d
    BY MsgType, OffAssumption, SizeAssumption DEF Delays, Ticks, Msg
  <2> HIDE DEF m
  <2>3. \A t \in Slots \ {s} : SameSlot(t) /\ SameMessages(t)
    BY <1>1, <2>1, <2>2, AppendFrame DEF SameSlot, IInv, TypeOK
  <2>4. /\ Len(ke_queue') = Len(ke_queue) + 1 /\ Len(ke_queue) \in Nat
        /\ \A i \in 1..Len(ke_queue) : ke_queue'[i] = ke_queue[i]
        /\ ke_queue'[Len(ke_queue) + 1] = m
    BY <2>1, <2>2, AppendMessage DEF IInv, TypeOK
  <2>5. SlotOK(s)'
    BY <1>1, <1>3, <2>1, <2>2, <2>4 DEF SlotOK, Carries
  <2>6. ASSUME NEW j \in 1..Len(ke_queue'), ke_queue'[j].slot = s
        PROVE  MessageOK(ke_queue[j])'
    <3>1. ke_queue'[j] = m
      BY <1>2, <2>4, <2>6
    <3> QED
      BY <1>1, <2>2, <3>1 DEF MessageOK, Delays
  <2>7. ExpiryFirst'
    BY <1>2, <2>1, <2>2, AppendExpiryFirst DEF IInv, TypeOK
  <2> QED
    BY <2>3, <2>5, <2>6, <2>7, OneSlot
<1> QED
  BY <1>4, <1>5

(* What cancel and modify have in common: a slot of a user callback whose  *)
(* messages can only be expiries is parked behind a cancel message.        *)
LEMMA ParkIInv ==
    ASSUME IInv, TypeOK', NEW s \in Slots, NEW d \in Ticks \cup {Uninit},
           timer_callbacks[s] \in Callbacks, ~Queued({"CREATE"}, s),
           ke_timers' = [ke_timers EXCEPT ![s] = Off],
           ke_queue' = Append(ke_queue, Msg("CANCEL", s, d)),
           \/ timer_callbacks'[s] = Canceled /\ asked'[s] = NoTimer
           \/ /\ timer_callbacks'[s] = Modified /\ asked'[s] # NoTimer
              /\ modified_timer_callbacks'[s] = asked'[s].fn
              /\ d \in Ticks /\ asked'[s].due = d,
           \A t \in Slots \ {s} :
              /\ timer_callbacks'[t] = timer_callbacks[t]
              /\ modified_timer_callbacks'[t] = modified_timer_callbacks[t]
              /\ asked'[t] = asked[t]
    PROVE  IInv'
<1> DEFINE m == Msg("CANCEL", s, d)
<1>1. m \in Messages /\ m.slot = s /\ m.kind = "CANCEL" /\ m.delay = d
  BY MsgType DEF Msg
<1>2. ke_queue' = Append(ke_queue, m)
  OBVIOUS
<1> HIDE DEF m
<1>3. \A i \in 1..Len(ke_queue) : ke_queue[i].slot = s => ke_queue[i].kind = "EXPIRY"
  BY OnlyExpiries, CallbackAssumption
<1>4. /\ Len(ke_queue') = Len(ke_queue) + 1 /\ Len(ke_queue) \in Nat
      /\ \A i \in 1..Len(ke_queue) : ke_queue'[i] = ke_queue[i]
      /\ ke_queue'[Len(ke_queue) + 1] = m
  BY <1>1, <1>2, AppendMessage DEF IInv, TypeOK
<1>5. \A t \in Slots \ {s} : SameSlot(t) /\ SameMessages(t)
  BY <1>1, <1>2, AppendFrame DEF SameSlot, IInv, TypeOK
<1>6. ke_timers'[s] = Off
  BY DEF IInv, TypeOK
<1>7. SlotOK(s)'
  BY <1>1, <1>4, <1>6 DEF SlotOK, Carries
<1>8. ASSUME NEW j \in 1..Len(ke_queue'), ke_queue'[j].slot = s
      PROVE  MessageOK(ke_queue[j])'
  <2>1. ke_queue'[j] = m \/ ke_queue'[j].kind = "EXPIRY"
    BY <1>3, <1>4, <1>8
  <2> QED
    BY <1>1, <1>8, <2>1, DummyAssumption, CallbackAssumption, OffAssumption,
       SizeAssumption DEF MessageOK, Ticks
<1>9. ExpiryFirst'
  BY <1>1, <1>2, <1>3, AppendExpiryFirst DEF IInv, TypeOK
<1> QED
  BY <1>5, <1>7, <1>8, <1>9, OneSlot
LEMMA CancelIInv ==
    ASSUME AppHabits = {}, IInv, TypeOK', NEW s \in Slots, app_easy_timer_cancel(s)
    PROVE  IInv'
<1>1. timer_callbacks[s] \in Callbacks /\ ~Queued({"CREATE"}, s)
  BY DEF app_easy_timer_cancel, MayCancel, Touchable, CancelAccepted, IInv, TypeOK
<1>2. /\ timer_callbacks'[s] = Canceled /\ asked'[s] = NoTimer
      /\ \A t \in Slots \ {s} :
            /\ timer_callbacks'[t] = timer_callbacks[t]
            /\ modified_timer_callbacks'[t] = modified_timer_callbacks[t]
            /\ asked'[t] = asked[t]
  BY DEF app_easy_timer_cancel, IInv, TypeOK
<1>3. /\ ke_timers' = [ke_timers EXCEPT ![s] = Off]
      /\ ke_queue' = Append(ke_queue, Msg("CANCEL", s, Uninit))
  BY DEF app_easy_timer_cancel
<1> QED
  BY <1>1, <1>2, <1>3, ParkIInv

LEMMA ModifyIInv ==
    ASSUME AppHabits = {}, IInv, TypeOK', NEW s \in Slots, NEW d \in Delays,
           app_easy_timer_modify(s, d)
    PROVE  IInv'
<1>1. asked[s] # NoTimer /\ ~Queued({"CREATE"}, s)
  BY DEF app_easy_timer_modify, MayModify, Touchable
<1>2. timer_callbacks[s] \in Callbacks /\ timer_callbacks[s] = asked[s].fn
  BY <1>1 DEF app_easy_timer_modify, IInv, SlotOK
<1>3. asked' = [asked EXCEPT ![s] = [fn |-> asked[s].fn, due |-> d]]
  BY <1>1 DEF app_easy_timer_modify
<1>4. d \in Ticks /\ [fn |-> asked[s].fn, due |-> d] # NoTimer
  BY <1>2, NoTimerAssumption, SizeAssumption DEF Delays, Ticks
<1>5. /\ timer_callbacks'[s] = Modified /\ asked'[s] # NoTimer
      /\ modified_timer_callbacks'[s] = asked'[s].fn
      /\ asked'[s].due = d
  BY <1>2, <1>3, <1>4 DEF app_easy_timer_modify, IInv, TypeOK
<1>6. \A t \in Slots \ {s} :
            /\ timer_callbacks'[t] = timer_callbacks[t]
            /\ modified_timer_callbacks'[t] = modified_timer_callbacks[t]
            /\ asked'[t] = asked[t]
  BY <1>3 DEF app_easy_timer_modify, IInv, TypeOK
<1>7. /\ ke_timers' = [ke_timers EXCEPT ![s] = Off]
      /\ ke_queue' = Append(ke_queue, Msg("CANCEL", s, d))
  BY DEF app_easy_timer_modify
<1> QED
  BY <1>1, <1>2, <1>4, <1>5, <1>6, <1>7, ParkIInv

(* cancel_all parks every slot with a user callback behind a message of    *)
(* its own; the slots it skips are free or being canceled already.         *)
LEMMA CancelAllIInv ==
    ASSUME AppHabits = {}, IInv, TypeOK', app_easy_timer_cancel_all
    PROVE  IInv'
<1> DEFINE running == {s \in Slots : CancelAccepted(s)}
<1>1. \A s \in running : timer_callbacks[s] \in Callbacks /\ ~Queued({"CREATE"}, s)
  BY DEF app_easy_timer_cancel_all, MayCancel, Touchable, CancelAccepted, IInv, TypeOK
<1>2. PICK n \in Slots : \E order \in [1..n -> running] :
         /\ SlotOrder(running, order)
         /\ ke_queue' = ke_queue \o CancelMessages(n, order)
  BY DEF app_easy_timer_cancel_all
<1>3. PICK order \in [1..n -> running] :
         /\ SlotOrder(running, order)
         /\ ke_queue' = ke_queue \o CancelMessages(n, order)
  BY <1>2
<1>4. order \in [1..n -> Slots] /\ n \in Nat
  BY SizeAssumption DEF Slots
<1>5. /\ Len(ke_queue') = Len(ke_queue) + n /\ Len(ke_queue) \in Nat
      /\ \A i \in 1..Len(ke_queue) : ke_queue'[i] = ke_queue[i]
      /\ \A i \in 1..n : ke_queue'[Len(ke_queue) + i] = Msg("CANCEL", order[i], Uninit)
  BY <1>3, <1>4, AppendCancels DEF IInv, TypeOK
<1>6. \A j \in 1..Len(ke_queue') :
         \/ j \in 1..Len(ke_queue)
         \/ \E i \in 1..n : j = Len(ke_queue) + i
  <2> TAKE j \in 1..Len(ke_queue')
  <2>1. CASE j > Len(ke_queue)
    <3>1. j - Len(ke_queue) \in 1..n /\ j = Len(ke_queue) + (j - Len(ke_queue))
      BY <1>4, <1>5, <2>1
    <3> QED
      BY <3>1
  <2> QED
    BY <1>5, <2>1
<1>7. /\ \A s \in running : /\ timer_callbacks'[s] = Canceled
                            /\ asked'[s] = NoTimer /\ ke_timers'[s] = Off
      /\ \A s \in Slots \ running : SameSlot(s)
  BY DEF app_easy_timer_cancel_all, SameSlot
<1>8. \A i \in 1..Len(ke_queue) : ke_queue[i].slot \in running
                               => ke_queue[i].kind = "EXPIRY"
  BY <1>1, OnlyExpiries, CallbackAssumption
<1>9. ASSUME NEW s \in Slots
      PROVE  SlotOK(s)'
  <2>1. CASE s \in running
    <3>1. PICK i \in 1..n : order[i] = s
      BY <1>3, <1>4, <2>1 DEF SlotOrder
    <3>2. /\ Len(ke_queue) + i \in 1..Len(ke_queue')
          /\ ke_queue'[Len(ke_queue) + i] = Msg("CANCEL", s, Uninit)
      BY <1>4, <1>5, <3>1
    <3>3. \E k \in 1..Len(ke_queue') :
             ke_queue'[k].kind = "CANCEL" /\ ke_queue'[k].slot = s
      BY <3>2 DEF Msg
    <3> QED
      BY <1>7, <2>1, <3>3 DEF SlotOK, Carries
  <2>2. CASE s \notin running
    <3>1. \A i \in 1..n : order[i] # s /\ Msg("CANCEL", order[i], Uninit).slot # s
      BY <1>3, <2>2 DEF Msg
    <3>2. \A j \in 1..Len(ke_queue') : ke_queue'[j].slot = s => j \in 1..Len(ke_queue)
      BY <1>5, <1>6, <3>1
    <3>3. SameMessages(s)
      BY <1>4, <1>5, <3>2 DEF SameMessages
    <3> QED
      BY <1>7, <2>2, <3>3, SlotFrame DEF IInv
  <2> QED
    BY <2>1, <2>2
<1>10. ASSUME NEW j \in 1..Len(ke_queue')
       PROVE  MessageOK(ke_queue[j])'
  <2>1. CASE j \in 1..Len(ke_queue) /\ ke_queue[j].slot \in running
    <3>1. ke_queue'[j].kind = "EXPIRY" /\ timer_callbacks'[ke_queue'[j].slot] = Canceled
      BY <1>5, <1>7, <1>8, <2>1
    <3> QED
      BY <3>1, DummyAssumption, CallbackAssumption DEF MessageOK
  <2>2. CASE j \in 1..Len(ke_queue) /\ ke_queue[j].slot \notin running
    <3>1. ke_queue[j].slot \in Slots \ running
      BY <2>2 DEF IInv, TypeOK, Messages
    <3>2. ke_queue'[j] = ke_queue[j] /\ SameSlot(ke_queue[j].slot)
      BY <1>5, <1>7, <2>2, <3>1
    <3> QED
      BY <2>2, <3>2, MessageFrame DEF IInv
  <2>3. CASE \E i \in 1..n : j = Len(ke_queue) + i
    <3>1. PICK i \in 1..n : ke_queue'[j] = Msg("CANCEL", order[i], Uninit)
      BY <1>5, <2>3
    <3>2. timer_callbacks'[order[i]] = Canceled
      BY <1>3, <1>7
    <3> QED
      BY <3>1, <3>2 DEF MessageOK, Msg
  <2> QED
    BY <1>6, <2>1, <2>2, <2>3
<1>11. ExpiryFirst'
  <2>1. SUFFICES ASSUME NEW i \in 1..Len(ke_queue'), NEW j \in 1..Len(ke_queue'),
                        i < j, ke_queue'[i].slot = ke_queue'[j].slot
                 PROVE  /\ ke_queue'[i].kind = "EXPIRY"
                        /\ ke_queue'[j].kind \in {"CANCEL", "MODIFY"}
    BY DEF ExpiryFirst
  <2>2. CASE j \in 1..Len(ke_queue)
    <3>1. i \in 1..Len(ke_queue)
      BY <1>5, <2>1, <2>2
    <3> QED
      BY <1>5, <2>1, <2>2, <3>1 DEF IInv, ExpiryFirst
  <2>3. CASE j \notin 1..Len(ke_queue)
    <3>1. PICK k \in 1..n : j = Len(ke_queue) + k
      BY <1>6, <2>3
    <3>2. /\ ke_queue'[j] = Msg("CANCEL", order[k], Uninit) /\ order[k] \in running
          /\ ke_queue'[j].kind = "CANCEL" /\ ke_queue'[j].slot = order[k]
      BY <1>5, <3>1 DEF Msg
    <3>3. CASE i \in 1..Len(ke_queue)
      BY <1>5, <1>8, <2>1, <3>2, <3>3
    <3>4. CASE i \notin 1..Len(ke_queue)
      <4>1. PICK l \in 1..n : i = Len(ke_queue) + l
        BY <1>6, <3>4
      <4>2. ke_queue'[i] = Msg("CANCEL", order[l], Uninit)
        BY <1>5, <4>1
      <4>3. l < k /\ order[l] = order[k]
        BY <1>4, <1>5, <2>1, <3>1, <3>2, <4>1, <4>2 DEF Msg
      <4>4. l \in DOMAIN order /\ k \in DOMAIN order
        BY <1>3
      <4>5. order[l] < order[k]
        BY <1>3, <4>3, <4>4 DEF SlotOrder
      <4>6. order[l] \in Slots
        BY <1>4
      <4>7. order[l] \in Int
        BY <4>6 DEF Slots
      <4> QED
        BY <4>3, <4>5, <4>7
    <3> QED
      BY <3>3, <3>4
  <2> QED
    BY <2>2, <2>3
<1> QED
  BY <1>9, <1>10, <1>11 DEF IInv
(* The oldest message m is consumed: what is left to check is its slot.    *)
LEMMA ConsumeIInv ==
    ASSUME IInv, TypeOK', ke_queue # << >>, ke_queue' = Tail(ke_queue),
           NEW s \in Slots, s = Head(ke_queue).slot,
           \A t \in Slots \ {s} : SameSlot(t),
           SlotOK(s)',
           \A j \in 1..Len(ke_queue') : ke_queue'[j].slot = s => MessageOK(ke_queue[j])'
    PROVE  IInv'
<1>1. ke_queue \in Seq(Messages) /\ ExpiryFirst
  BY DEF IInv, TypeOK
<1>2. \A t \in Slots \ {s} : SameSlot(t) /\ SameMessages(t)
  BY <1>1, TailFrame
<1>3. ExpiryFirst'
  BY <1>1, TailExpiryFirst
<1> QED
  BY <1>2, <1>3, OneSlot

(* What a handler knows of the message it consumes. *)
LEMMA OldestMessage ==
    ASSUME IInv, ke_queue # << >>, ke_queue' = Tail(ke_queue)
    PROVE  /\ Head(ke_queue) \in Messages /\ Head(ke_queue).slot \in Slots
           /\ MessageOK(Head(ke_queue)) /\ SlotOK(Head(ke_queue).slot)
           /\ \A j \in 1..Len(ke_queue') :
                 ke_queue'[j].slot = Head(ke_queue).slot
                 => /\ Head(ke_queue).kind = "EXPIRY"
                    /\ ke_queue'[j].kind \in {"CANCEL", "MODIFY"}
           /\ \A j \in 1..Len(ke_queue') : \E i \in 2..Len(ke_queue) :
                 ke_queue'[j] = ke_queue[i] /\ MessageOK(ke_queue[i])
           /\ \A i \in 2..Len(ke_queue) : \E j \in 1..Len(ke_queue') :
                 ke_queue'[j] = ke_queue[i]
<1>1. /\ Head(ke_queue) \in Messages /\ Head(ke_queue) = ke_queue[1]
      /\ Len(ke_queue) \in Nat /\ Len(ke_queue) >= 1 /\ Len(ke_queue') = Len(ke_queue) - 1
      /\ \A i \in 1..(Len(ke_queue) - 1) : ke_queue'[i] = ke_queue[i + 1]
  BY TailMessages DEF IInv, TypeOK
<1>2. MessageOK(Head(ke_queue)) /\ Head(ke_queue).slot \in Slots
  BY <1>1 DEF IInv, Messages
<1>3. \A j \in 1..Len(ke_queue') :
         j + 1 \in 2..Len(ke_queue) /\ ke_queue'[j] = ke_queue[j + 1]
         /\ MessageOK(ke_queue[j + 1])
  BY <1>1 DEF IInv
<1>4. \A j \in 1..Len(ke_queue') :
         ke_queue'[j].slot = Head(ke_queue).slot
         => /\ Head(ke_queue).kind = "EXPIRY"
            /\ ke_queue'[j].kind \in {"CANCEL", "MODIFY"}
  BY <1>3, AloneUnlessExpiry DEF IInv, TypeOK
<1>5. \A i \in 2..Len(ke_queue) :
         i - 1 \in 1..Len(ke_queue') /\ ke_queue'[i - 1] = ke_queue[i]
  BY <1>1
<1> QED
  BY <1>1, <1>2, <1>3, <1>4, <1>5 DEF IInv
LEMMA CreateHandlerIInv ==
    ASSUME IInv, TypeOK', create_timer_handler
    PROVE  IInv'
<1>0. ke_queue # << >> /\ Head(ke_queue).kind = "CREATE" /\ ke_queue' = Tail(ke_queue)
  BY DEF create_timer_handler, Receive
<1>m. PICK m \in Messages, s \in Slots : m = Head(ke_queue) /\ s = m.slot
  BY <1>0, OldestMessage
<1>1. m.kind = "CREATE"
  BY <1>0, <1>m
<1>2. /\ MessageOK(m) /\ SlotOK(s)
      /\ \A j \in 1..Len(ke_queue') : ke_queue'[j].slot # s
  BY <1>0, <1>1, <1>m, OldestMessage
<1>3. m.delay \in Ticks
  BY <1>1, <1>m DEF Messages
<1>4. /\ ke_timers' = [ke_timers EXCEPT ![s] = m.delay]
      /\ timer_callbacks' = timer_callbacks /\ asked' = asked
      /\ modified_timer_callbacks' = modified_timer_callbacks
  BY <1>m DEF create_timer_handler
<1>5. /\ ke_timers'[s] = m.delay
      /\ \A t \in Slots \ {s} : SameSlot(t)
  BY <1>2, <1>4 DEF SameSlot, IInv, TypeOK
<1>6. timer_callbacks[s] \in Callbacks /\ asked[s].due <= m.delay
  BY <1>1, <1>m, <1>2 DEF MessageOK
<1>7. SlotOK(s)'
  BY <1>2, <1>3, <1>4, <1>5, <1>6, CallbackAssumption, OffAssumption DEF SlotOK, Ticks
<1> QED
  BY <1>1, <1>2, <1>5, <1>7, <1>0, <1>m, ConsumeIInv

LEMMA ModifyHandlerIInv ==
    ASSUME IInv, TypeOK', modify_timer_handler
    PROVE  IInv'
<1>0. ke_queue # << >> /\ Head(ke_queue).kind = "MODIFY" /\ ke_queue' = Tail(ke_queue)
  BY DEF modify_timer_handler, Receive
<1>m. PICK m \in Messages, s \in Slots : m = Head(ke_queue) /\ s = m.slot
  BY <1>0, OldestMessage
<1>1. m.kind = "MODIFY"
  BY <1>0, <1>m
<1>2. /\ MessageOK(m) /\ SlotOK(s)
      /\ \A j \in 1..Len(ke_queue') : ke_queue'[j].slot # s
  BY <1>0, <1>1, <1>m, OldestMessage
<1>3. m.delay \in Ticks
  BY <1>1, <1>m DEF Messages
<1>4. timer_callbacks[s] = Modified /\ asked[s].due <= m.delay
  BY <1>1, <1>m, <1>2 DEF MessageOK
<1>5. /\ timer_callbacks' = [timer_callbacks EXCEPT ![s] = modified_timer_callbacks[s]]
      /\ ke_timers' = [ke_timers EXCEPT ![s] = m.delay]
      /\ modified_timer_callbacks' = modified_timer_callbacks /\ asked' = asked
  BY <1>m, <1>4 DEF modify_timer_handler
<1>6. /\ ke_timers'[s] = m.delay
      /\ timer_callbacks'[s] = modified_timer_callbacks[s]
      /\ \A t \in Slots \ {s} : SameSlot(t)
  BY <1>2, <1>5 DEF SameSlot, IInv, TypeOK
<1>7. asked[s] # NoTimer /\ modified_timer_callbacks[s] = asked[s].fn
  BY <1>2, <1>4, CallbackAssumption, DummyAssumption DEF SlotOK
<1>8. asked[s].fn \in Callbacks
  BY <1>2, <1>7 DEF IInv, TypeOK, Requests
<1>9. SlotOK(s)'
  BY <1>2, <1>3, <1>4, <1>5, <1>6, <1>7, <1>8, OffAssumption DEF SlotOK, Ticks
<1> QED
  BY <1>1, <1>2, <1>6, <1>9, <1>0, <1>m, ConsumeIInv

(* An expiry either calls the callback of a slot that has nothing else     *)
(* queued, or finds the slot parked and is swallowed.                      *)
LEMMA ExpiryHandlerIInv ==
    ASSUME IInv, TypeOK', call_callback_handler
    PROVE  IInv'
<1>0. ke_queue # << >> /\ Head(ke_queue).kind = "EXPIRY" /\ ke_queue' = Tail(ke_queue)
  BY DEF call_callback_handler, Receive
<1>m. PICK m \in Messages, s \in Slots : m = Head(ke_queue) /\ s = m.slot
  BY <1>0, OldestMessage
<1>1. m.kind = "EXPIRY"
  BY <1>0, <1>m
<1>2. /\ MessageOK(m) /\ SlotOK(s)
      /\ \A j \in 1..Len(ke_queue') :
            ke_queue'[j].slot = s => ke_queue'[j].kind \in {"CANCEL", "MODIFY"}
      /\ \A j \in 1..Len(ke_queue') : \E i \in 2..Len(ke_queue) :
            ke_queue'[j] = ke_queue[i] /\ MessageOK(ke_queue[i])
      /\ \A i \in 2..Len(ke_queue) : \E j \in 1..Len(ke_queue') :
            ke_queue'[j] = ke_queue[i]
  BY <1>0, <1>1, <1>m, OldestMessage
<1>3. CASE timer_callbacks[s] \in Callbacks
  <2>1. /\ timer_callbacks' = [timer_callbacks EXCEPT ![s] = NULL]
        /\ modified_timer_callbacks' = [modified_timer_callbacks EXCEPT ![s] = NULL]
        /\ asked' = [asked EXCEPT ![s] = NoTimer]
        /\ ke_timers' = ke_timers
    BY <1>m, <1>3 DEF call_callback_handler, Release
  <2>2. ASSUME NEW j \in 1..Len(ke_queue'), ke_queue'[j].slot = s
        PROVE  FALSE
    <3>1. PICK i \in 2..Len(ke_queue) :
             ke_queue'[j] = ke_queue[i] /\ MessageOK(ke_queue[i])
      BY <1>2
    <3>2. ke_queue[i].slot = s /\ ke_queue[i].kind \in {"CANCEL", "MODIFY"}
      BY <1>2, <2>2, <3>1
    <3> QED
      BY <1>3, <3>1, <3>2, CallbackAssumption DEF MessageOK
  <2>3. ke_timers[s] = Off
    <3>1. 1 \in 1..Len(ke_queue) /\ ke_queue[1].slot = s
      BY <1>0, <1>m, TailMessages DEF IInv, TypeOK
    <3> QED
      BY <1>2, <1>3, <3>1, CallbackAssumption DEF SlotOK
  <2>4. SlotOK(s)' /\ \A t \in Slots \ {s} : SameSlot(t)
    BY <1>2, <2>1, <2>3 DEF SlotOK, SameSlot, IInv, TypeOK
  <2> QED
    BY <1>1, <1>2, <2>2, <2>4, <1>0, <1>m, ConsumeIInv
<1>4. CASE timer_callbacks[s] \notin Callbacks
  <2>1. /\ timer_callbacks' = timer_callbacks /\ asked' = asked
        /\ modified_timer_callbacks' = modified_timer_callbacks
        /\ ke_timers' = ke_timers
    BY <1>m, <1>4 DEF call_callback_handler
  <2>2. timer_callbacks[s] # NULL
    BY <1>1, <1>m, <1>2 DEF MessageOK
  <2>3. PICK i \in 1..Len(ke_queue) :
           /\ ke_queue[i].slot = s
           /\ ke_queue[i].kind \in {"CANCEL", "MODIFY"}
           /\ timer_callbacks[s] = Canceled => ke_queue[i].kind = "CANCEL"
    BY <1>2, <1>4, <2>2, DummyAssumption DEF SlotOK, Carries
  <2>4. i \in 2..Len(ke_queue)
    <3>1. ke_queue[1].kind = "EXPIRY" /\ Len(ke_queue) \in Nat
      BY <1>0, <1>m, TailMessages DEF IInv, TypeOK
    <3> QED
      BY <2>3, <3>1
  <2>5. PICK k \in 1..Len(ke_queue') : ke_queue'[k] = ke_queue[i]
    BY <1>2, <2>4
  <2>6. SlotOK(s)'
    BY <1>2, <1>4, <2>1, <2>2, <2>3, <2>5 DEF SlotOK, Carries
  <2>7. ASSUME NEW j \in 1..Len(ke_queue'), ke_queue'[j].slot = s
        PROVE  MessageOK(ke_queue[j])'
    <3>1. PICK l \in 2..Len(ke_queue) : ke_queue'[j] = ke_queue[l] /\ MessageOK(ke_queue[l])
      BY <1>2
    <3> QED
      BY <2>1, <3>1 DEF MessageOK
  <2> QED
    BY <1>1, <1>2, <2>1, <2>6, <2>7, <1>0, <1>m, ConsumeIInv DEF SameSlot
<1> QED
  BY <1>3, <1>4
(* The message of a cancel frees its slot; that of a modify is answered    *)
(* with a modify message carrying the same delay.                          *)
LEMMA CancelHandlerIInv ==
    ASSUME IInv, TypeOK', cancel_timer_handler
    PROVE  IInv'
<1>1. /\ ke_queue # << >> /\ Head(ke_queue).kind = "CANCEL"
      /\ ke_timers' = ke_timers /\ asked' = asked
  BY DEF cancel_timer_handler, Receive
<1>m. PICK m \in Messages, s \in Slots : m = Head(ke_queue) /\ s = m.slot
  <2>1. Head(ke_queue) \in Messages
    BY <1>1, TailMessages DEF IInv, TypeOK
  <2> QED
    BY <2>1 DEF Messages
<1>2. /\ m = ke_queue[1] /\ 1 \in 1..Len(ke_queue)
      /\ MessageOK(m) /\ SlotOK(s)
  BY <1>1, <1>m, TailMessages DEF IInv, TypeOK
<1>3. CASE timer_callbacks[s] = Canceled
  <2>1. /\ timer_callbacks' = [timer_callbacks EXCEPT ![s] = NULL]
        /\ modified_timer_callbacks' = [modified_timer_callbacks EXCEPT ![s] = NULL]
        /\ ke_queue' = Tail(ke_queue)
    BY <1>m, <1>3, DummyAssumption DEF cancel_timer_handler, Release
  <2>2. \A j \in 1..Len(ke_queue') : ke_queue'[j].slot # s
    BY <1>1, <1>m, <2>1, OldestMessage
  <2>3. asked[s] = NoTimer /\ ke_timers[s] = Off
    BY <1>2, <1>3, CallbackAssumption, DummyAssumption DEF SlotOK
  <2>4. SlotOK(s)' /\ \A t \in Slots \ {s} : SameSlot(t)
    BY <1>1, <2>1, <2>3 DEF SlotOK, SameSlot, IInv, TypeOK
  <2> QED
    BY <1>1, <1>m, <2>1, <2>2, <2>4, ConsumeIInv
<1>4. CASE timer_callbacks[s] = Modified
  <2>1. m.delay \in Ticks /\ asked[s].due <= m.delay
    BY <1>1, <1>2, <1>4, <1>m, DummyAssumption DEF MessageOK, Messages
  <2> DEFINE r == Msg("MODIFY", s, m.delay)
  <2>2. /\ ke_queue' = Append(Tail(ke_queue), r)
        /\ timer_callbacks' = timer_callbacks
        /\ modified_timer_callbacks' = modified_timer_callbacks
    BY <1>4, <1>m, <2>1, OffAssumption, DummyAssumption
    DEF cancel_timer_handler, DelayRead, Ticks
  <2>3. r \in Messages /\ r.slot = s /\ r.kind = "MODIFY" /\ r.delay = m.delay
    BY <2>1, MsgType, OffAssumption DEF Msg, Ticks
  <2> HIDE DEF r
  <2>4. /\ Len(ke_queue) \in Nat /\ Len(ke_queue) >= 1
        /\ Len(ke_queue') = Len(ke_queue)
        /\ \A i \in 1..(Len(ke_queue) - 1) : ke_queue'[i] = ke_queue[i + 1]
        /\ ke_queue'[Len(ke_queue)] = r
    <3>1. /\ Tail(ke_queue) \in Seq(Messages) /\ Len(Tail(ke_queue)) = Len(ke_queue) - 1
          /\ Len(ke_queue) \in Nat /\ Len(ke_queue) >= 1
          /\ \A i \in 1..(Len(ke_queue) - 1) : Tail(ke_queue)[i] = ke_queue[i + 1]
      BY <1>1, TailMessages DEF IInv, TypeOK
    <3> DEFINE u == Tail(ke_queue)
    <3>2. /\ Len(Append(u, r)) = Len(u) + 1
          /\ \A i \in 1..Len(u) : Append(u, r)[i] = u[i]
          /\ Append(u, r)[Len(u) + 1] = r
      BY <3>1, <2>3, AppendMessage
    <3> QED
      BY <2>2, <3>1, <3>2
  <2>5. \A i \in 2..Len(ke_queue) : ke_queue[i].slot # s
    BY <1>1, <1>m, AloneUnlessExpiry DEF IInv, TypeOK
  <2>6. ASSUME NEW j \in 1..Len(ke_queue')
        PROVE  \/ ke_queue'[j] = r
               \/ /\ j + 1 \in 2..Len(ke_queue) /\ ke_queue'[j] = ke_queue[j + 1]
                  /\ ke_queue'[j].slot # s
    <3>1. CASE j = Len(ke_queue)
      BY <2>4, <3>1
    <3>2. CASE j # Len(ke_queue)
      <4>1. j \in 1..(Len(ke_queue) - 1) /\ j + 1 \in 2..Len(ke_queue)
        BY <2>4, <3>2
      <4> QED
        BY <2>4, <2>5, <4>1
    <3> QED
      BY <3>1, <3>2
  <2>7. \A t \in Slots \ {s} : SameSlot(t) /\ SameMessages(t)
    <3> TAKE t \in Slots \ {s}
    <3>1. ASSUME NEW i \in 1..Len(ke_queue), ke_queue[i].slot = t
          PROVE  \E j \in 1..Len(ke_queue') : ke_queue'[j] = ke_queue[i]
      <4>1. i # 1
        BY <1>m, <1>2, <3>1
      <4>2. i - 1 \in 1..Len(ke_queue') /\ ke_queue'[i - 1] = ke_queue[i]
        BY <2>4, <4>1
      <4> QED
        BY <4>2
    <3>2. ASSUME NEW j \in 1..Len(ke_queue'), ke_queue'[j].slot = t
          PROVE  \E i \in 1..Len(ke_queue) : ke_queue[i] = ke_queue'[j]
      <4>1. j + 1 \in 2..Len(ke_queue) /\ ke_queue'[j] = ke_queue[j + 1]
        BY <2>3, <2>6, <3>2
      <4>2. j + 1 \in 1..Len(ke_queue)
        BY <2>4, <4>1
      <4> QED
        BY <4>1, <4>2
    <3> QED
      BY <1>1, <2>2, <3>1, <3>2 DEF SameSlot, SameMessages
  <2>8. SlotOK(s)'
    <3>1. \E i \in 1..Len(ke_queue') : ke_queue'[i] = r
      BY <2>4
    <3>2. /\ asked[s] # NoTimer /\ modified_timer_callbacks[s] = asked[s].fn
          /\ ke_timers[s] = Off
      BY <1>2, <1>4, DummyAssumption, CallbackAssumption DEF SlotOK
    <3> QED
      BY <1>1, <1>4, <2>2, <2>3, <3>1, <3>2 DEF SlotOK, Carries
  <2>9. ASSUME NEW j \in 1..Len(ke_queue'), ke_queue'[j].slot = s
        PROVE  MessageOK(ke_queue[j])'
    <3>1. ke_queue'[j] = r
      BY <2>6, <2>9
    <3> QED
      BY <1>1, <1>4, <2>1, <2>2, <2>3, <3>1 DEF MessageOK
  <2>10. ExpiryFirst'
    <3>1. SUFFICES ASSUME NEW i \in 1..Len(ke_queue'), NEW j \in 1..Len(ke_queue'),
                          i < j, ke_queue'[i].slot = ke_queue'[j].slot
                   PROVE  /\ ke_queue'[i].kind = "EXPIRY"
                          /\ ke_queue'[j].kind \in {"CANCEL", "MODIFY"}
      BY DEF ExpiryFirst
    <3>2. i \in 1..(Len(ke_queue) - 1)
      BY <2>4, <3>1
    <3>3. i + 1 \in 2..Len(ke_queue) /\ ke_queue'[i] = ke_queue[i + 1]
          /\ ke_queue'[i].slot # s
      BY <2>4, <2>5, <3>2
    <3>4. j + 1 \in 2..Len(ke_queue) /\ ke_queue'[j] = ke_queue[j + 1]
      BY <2>3, <2>6, <3>1, <3>3
    <3>5. /\ i + 1 \in 1..Len(ke_queue) /\ j + 1 \in 1..Len(ke_queue)
          /\ i + 1 < j + 1 /\ ke_queue[i + 1].slot = ke_queue[j + 1].slot
      BY <2>4, <3>1, <3>3, <3>4
    <3> QED
      BY <3>3, <3>4, <3>5 DEF IInv, ExpiryFirst
  <2> QED
    BY <2>7, <2>8, <2>9, <2>10, OneSlot
<1> QED
  BY <1>1, <1>2, <1>3, <1>4, <1>m DEF MessageOK

(* Time brings the kernel timer and the delay asked for down together.     *)
LEMMA TickIInv ==
    ASSUME IInv, TypeOK', Tick
    PROVE  IInv'
<1>1. /\ ke_queue' = ke_queue /\ timer_callbacks' = timer_callbacks
      /\ modified_timer_callbacks' = modified_timer_callbacks
  BY DEF Tick
<1>2. \A s \in Slots :
         /\ ke_timers[s] = Off => ke_timers'[s] = Off
         /\ ke_timers[s] # Off => /\ ke_timers[s] \in Nat
                                 /\ ke_timers'[s] = Down(ke_timers[s])
  BY SizeAssumption DEF Tick, IInv, TypeOK, Ticks
<1>3. \A s \in Slots :
         /\ asked[s] = NoTimer => asked'[s] = NoTimer
         /\ asked[s] # NoTimer =>
               /\ asked'[s] = [fn |-> asked[s].fn, due |-> Down(asked[s].due)]
               /\ asked'[s] # NoTimer
               /\ asked'[s].fn = asked[s].fn
               /\ asked[s].due \in Nat /\ asked'[s].due = Down(asked[s].due)
  <2> TAKE s \in Slots
  <2>1. CASE asked[s] # NoTimer
    <3>1. asked'[s] = [fn |-> asked[s].fn, due |-> Down(asked[s].due)]
      BY <2>1 DEF Tick
    <3>2. asked[s].fn \in Callbacks /\ asked[s].due \in Nat
      BY <2>1, SizeAssumption DEF IInv, TypeOK, Requests, Ticks
    <3>3. Down(asked[s].due) \in Nat
      BY <3>2 DEF Down
    <3> QED
      BY <2>1, <3>1, <3>2, <3>3, NoTimerAssumption
  <2> QED
    BY <2>1 DEF Tick
<1>4. \A m, n \in Nat : m <= n => Down(m) <= Down(n) /\ Down(m) <= n /\ Down(n) \in Nat
  BY DEF Down
<1>5. ASSUME NEW s \in Slots
      PROVE  SlotOK(s)'
  <2>1. SlotOK(s)
    BY DEF IInv
  <2>2. CASE ke_timers[s] # Off
    <3>1. /\ timer_callbacks[s] \in Callbacks
          /\ asked[s] # NoTimer /\ timer_callbacks[s] = asked[s].fn
          /\ asked[s].due <= ke_timers[s]
          /\ \A i \in 1..Len(ke_queue) : ke_queue[i].slot # s
      BY <2>1, <2>2 DEF SlotOK
    <3>2. /\ asked'[s].due = Down(asked[s].due) /\ asked[s].due \in Nat
          /\ ke_timers'[s] = Down(ke_timers[s]) /\ ke_timers[s] \in Nat
      BY <1>2, <1>3, <2>2, <3>1
    <3>3. ke_timers'[s] \in Nat /\ asked'[s].due <= ke_timers'[s]
      BY <1>4, <3>1, <3>2
    <3>4. ke_timers'[s] # Off
      BY <3>3, OffAssumption
    <3> QED
      BY <1>1, <1>3, <3>1, <3>3, <3>4 DEF SlotOK
  <2>3. CASE ke_timers[s] = Off
    BY <1>1, <1>2, <1>3, <2>1, <2>3 DEF SlotOK, Carries
  <2> QED
    BY <2>2, <2>3
<1>6. ASSUME NEW i \in 1..Len(ke_queue')
      PROVE  MessageOK(ke_queue[i])'
  <2>1. PICK m \in Messages, s \in Slots :
           m = ke_queue[i] /\ s = m.slot /\ MessageOK(m) /\ SlotOK(s)
    BY <1>1 DEF IInv, TypeOK, Messages
  <2>2. CASE timer_callbacks[s] \in Callbacks \cup {Modified}
    <3>1. asked[s] # NoTimer
      BY <2>1, <2>2, CallbackAssumption, DummyAssumption DEF SlotOK
    <3>2. asked'[s].due = Down(asked[s].due) /\ asked[s].due \in Nat
      BY <1>3, <3>1
    <3>3. m.delay \in Nat => (asked[s].due <= m.delay => asked'[s].due <= m.delay)
      BY <1>4, <3>2
    <3>4. asked[s].due = 0 => asked'[s].due = 0
      BY <3>2 DEF Down
    <3>5. m.delay # Uninit => m.delay \in Nat
      BY SizeAssumption DEF Messages, Ticks
    <3>6. m.kind \in {"CREATE", "MODIFY"} => m.delay # Uninit
      BY DEF Messages
    <3> QED
      BY <1>1, <2>1, <3>3, <3>4, <3>5, <3>6 DEF MessageOK
  <2>3. CASE timer_callbacks[s] \notin Callbacks \cup {Modified}
    BY <1>1, <2>1, <2>3 DEF MessageOK
  <2> QED
    BY <2>2, <2>3
<1>7. ExpiryFirst'
  BY <1>1 DEF IInv, ExpiryFirst
<1> QED
  BY <1>5, <1>6, <1>7 DEF IInv

(* The kernel timer of a slot expires when nothing is queued for the slot. *)
LEMMA ExpireIInv ==
    ASSUME IInv, TypeOK', NEW s \in Slots, ke_timer_expiry(s)
    PROVE  IInv'
<1> DEFINE m == Msg("EXPIRY", s, Uninit)
<1>1. /\ ke_timers[s] = 0 /\ ke_queue' = Append(ke_queue, m)
      /\ ke_timers' = [ke_timers EXCEPT ![s] = Off]
      /\ timer_callbacks' = timer_callbacks /\ asked' = asked
      /\ modified_timer_callbacks' = modified_timer_callbacks
  BY DEF ke_timer_expiry
<1>2. m \in Messages /\ m.slot = s /\ m.kind = "EXPIRY"
  BY MsgType DEF Msg
<1> HIDE DEF m
<1>3. /\ timer_callbacks[s] \in Callbacks
      /\ asked[s] # NoTimer /\ timer_callbacks[s] = asked[s].fn
      /\ asked[s].due <= 0
      /\ \A i \in 1..Len(ke_queue) : ke_queue[i].slot # s
  BY <1>1, OffAssumption DEF IInv, SlotOK
<1>4. asked[s].due = 0
  BY <1>3, SizeAssumption DEF IInv, TypeOK, Requests, Ticks
<1>5. /\ Len(ke_queue') = Len(ke_queue) + 1 /\ Len(ke_queue) \in Nat
      /\ \A i \in 1..Len(ke_queue) : ke_queue'[i] = ke_queue[i]
      /\ ke_queue'[Len(ke_queue) + 1] = m
  BY <1>1, <1>2, AppendMessage DEF IInv, TypeOK
<1>6. \A t \in Slots \ {s} : SameSlot(t) /\ SameMessages(t)
  BY <1>1, <1>2, AppendFrame DEF SameSlot, IInv, TypeOK
<1>7. SlotOK(s)'
  <2>1. ke_timers'[s] = Off
    BY <1>1 DEF IInv, TypeOK
  <2> QED
    BY <1>1, <1>2, <1>3, <1>5, <2>1 DEF SlotOK, Carries
<1>8. ASSUME NEW j \in 1..Len(ke_queue'), ke_queue'[j].slot = s
      PROVE  MessageOK(ke_queue[j])'
  <2>1. ke_queue'[j] = m
    BY <1>3, <1>5, <1>8
  <2> QED
    BY <1>1, <1>2, <1>3, <1>4, <2>1, CallbackAssumption DEF MessageOK
<1>9. ExpiryFirst'
  BY <1>1, <1>2, <1>3, AppendExpiryFirst DEF IInv, TypeOK
<1> QED
  BY <1>6, <1>7, <1>8, <1>9, OneSlot

LEMMA UnchangedIInv ==
    ASSUME IInv, TypeOK',
           UNCHANGED <<timer_callbacks, modified_timer_callbacks, ke_timers, ke_queue, asked>>
    PROVE  IInv'
<1>1. \A s \in Slots : SlotOK(s)'
  BY DEF IInv, SlotOK, Carries
<1>2. \A i \in 1..Len(ke_queue') : MessageOK(ke_queue[i])'
  BY DEF IInv, MessageOK
<1> QED
  BY <1>1, <1>2 DEF IInv, ExpiryFirst

LEMMA NextIInv ==
    ASSUME AppHabits = {}, IInv, [Next]_vars
    PROVE  IInv'
<1>1. TypeOK'
  BY NextType DEF IInv
<1>2. CASE UNCHANGED vars \/ rwip_sleep \/ ble_wakeup
  BY <1>1, <1>2, UnchangedIInv DEF vars, rwip_sleep, ble_wakeup
<1>3. CASE Api
  BY <1>1, <1>3, CreateIInv, CancelIInv, CancelAllIInv, ModifyIInv DEF Api
<1>4. CASE Handler
  BY <1>1, <1>4, CreateHandlerIInv, CancelHandlerIInv, ModifyHandlerIInv,
     ExpiryHandlerIInv DEF Handler
<1>5. CASE Tick \/ \E s \in Slots : ke_timer_expiry(s)
  BY <1>1, <1>5, TickIInv, ExpireIInv
<1> QED
  BY <1>2, <1>3, <1>4, <1>5 DEF Next
(* For an application without the delicate call patterns, slots, kernel    *)
(* timers and queued messages always agree.                                *)
THEOREM Agreement == ASSUME AppHabits = {} PROVE Spec => []IInv
<1>1. Init => IInv
  BY InitIInv
<1>2. IInv /\ [Next]_vars => IInv'
  BY NextIInv
<1> QED
  BY <1>1, <1>2, PTL DEF Spec

-----------------------------------------------------------------------------
(* What follows from the invariant. *)

(* A freed slot has no kernel timer and no message left that could reach   *)
(* the timer that takes the slot next.                                     *)
THEOREM FreeSlotsAreClean == ASSUME AppHabits = {} PROVE Spec => []FreeSlotIsClean
<1>1. IInv => FreeSlotIsClean
  <2> SUFFICES ASSUME IInv, NEW s \in Slots, timer_callbacks[s] = NULL
               PROVE  /\ ke_timers[s] = Off
                      /\ ~Queued({"CREATE", "CANCEL", "MODIFY", "EXPIRY"}, s)
    BY DEF FreeSlotIsClean
  <2>1. ke_timers[s] = Off
    BY CallbackAssumption, DummyAssumption DEF IInv, SlotOK
  <2>2. \A i \in 1..Len(ke_queue) : ke_queue[i].slot # s
    BY OnlyExpiries, DummyAssumption
  <2> QED
    BY <2>1, <2>2 DEF Queued
<1> QED
  BY <1>1, Agreement, PTL

(* The message that frees a canceled slot is always still queued. *)
THEOREM CanceledSlotsWillBeFreed ==
    ASSUME AppHabits = {} PROVE Spec => []CanceledSlotWillBeFreed
<1>1. IInv => CanceledSlotWillBeFreed
  <2> SUFFICES ASSUME IInv, NEW s \in Slots, timer_callbacks[s] = Canceled
               PROVE  Queued({"CANCEL"}, s)
    BY DEF CanceledSlotWillBeFreed
  <2>1. \E i \in 1..Len(ke_queue) : Carries(i, {"CANCEL"}, s)
    BY CallbackAssumption, DummyAssumption DEF IInv, SlotOK
  <2> QED
    BY <2>1 DEF Carries, Queued
<1> QED
  BY <1>1, Agreement, PTL

(* A timer the application waits for is always armed, once, and with at    *)
(* least what is left of its delay: it is neither lost nor doubled.        *)
THEOREM LiveTimersAreArmedOnce ==
    ASSUME AppHabits = {} PROVE Spec => []LiveTimerIsArmedOnce
<1>1. IInv => LiveTimerIsArmedOnce
  <2> SUFFICES ASSUME IInv, NEW s \in Slots, asked[s] # NoTimer
               PROVE  LiveTimerIsArmedOnce!(s)!2
    BY DEF LiveTimerIsArmedOnce
  <2>1. SlotOK(s) /\ ExpiryFirst
    BY DEF IInv
  <2>2. \A i \in 1..Len(ke_queue) : MessageOK(ke_queue[i]) /\ ke_queue[i] \in Messages
    BY DEF IInv, TypeOK
  <2>3. \A i, j \in 1..Len(ke_queue) :
           ke_queue[i].slot = ke_queue[j].slot =>
              \/ i = j
              \/ i < j /\ ke_queue[i].kind = "EXPIRY" /\ ke_queue[j].kind \in {"CANCEL", "MODIFY"}
              \/ j < i /\ ke_queue[j].kind = "EXPIRY" /\ ke_queue[i].kind \in {"CANCEL", "MODIFY"}
    <3>1. Len(ke_queue) \in Nat
      BY DEF IInv, TypeOK
    <3> QED
      BY <2>1, <3>1 DEF ExpiryFirst
  <2>4. CASE timer_callbacks[s] = Modified
    <3>1. ~Queued({"CREATE"}, s)
      BY <2>2, <2>4, CallbackAssumption DEF Queued, MessageOK
    <3>2. /\ AtMostOne({"CANCEL", "MODIFY"}, s)
          /\ OldestFirst({"EXPIRY"}, {"CANCEL", "MODIFY"}, s)
      BY <2>3 DEF AtMostOne, OldestFirst
    <3> QED
      BY <2>1, <2>4, <3>1, <3>2, CallbackAssumption, DummyAssumption
      DEF SlotOK, Carries, Queued
  <2>5. CASE timer_callbacks[s] \in Callbacks
    <3>1. ~Queued({"CANCEL", "MODIFY"}, s)
      BY <2>2, <2>5, CallbackAssumption DEF Queued, MessageOK
    <3>2. AtMostOne({"CREATE", "EXPIRY"}, s)
      BY <2>3 DEF AtMostOne
    <3>3. CASE ke_timers[s] = Off
      BY <2>1, <2>5, <3>1, <3>2, <3>3, CallbackAssumption DEF SlotOK, Carries, Queued
    <3>4. CASE ke_timers[s] # Off
      BY <2>1, <2>5, <3>4 DEF SlotOK, Queued
    <3> QED
      BY <3>3, <3>4
  <2> QED
    BY <2>1, <2>4, <2>5 DEF SlotOK
<1> QED
  BY <1>1, Agreement, PTL

(* A user callback runs only when the application waits for it and the     *)
(* delay it asked for last is over.                                        *)
LEMMA CallStep ==
    ASSUME IInv, call_callback_handler,
           NEW s, s = Head(ke_queue).slot, timer_callbacks[s] \in Callbacks
    PROVE  /\ s \in Slots /\ asked[s] # NoTimer /\ asked[s].due = 0
           /\ asked[s].fn = timer_callbacks[s]
           /\ asked' = [asked EXCEPT ![s] = NoTimer]
           /\ calls' = [calls EXCEPT ![s] = [fn |-> timer_callbacks[s],
                                             odd |-> ~calls[s].odd]]
<1>1. ke_queue # << >> /\ Head(ke_queue).kind = "EXPIRY" /\ ke_queue' = Tail(ke_queue)
  BY DEF call_callback_handler, Receive
<1>2. s \in Slots /\ MessageOK(Head(ke_queue)) /\ SlotOK(s)
  BY <1>1, OldestMessage
<1>3. asked[s].due = 0
  BY <1>1, <1>2 DEF MessageOK
<1>4. asked[s] # NoTimer /\ asked[s].fn = timer_callbacks[s]
  BY <1>2, CallbackAssumption DEF SlotOK
<1> QED
  BY <1>2, <1>3, <1>4 DEF call_callback_handler

THEOREM CallbacksOnlyWhenDue == ASSUME AppHabits = {} PROVE Spec => CallbackOnlyWhenDue
<1> DEFINE Due == \A s \in Slots : calls'[s] # calls[s] =>
                     /\ asked[s] # NoTimer
                     /\ asked[s].due = 0
                     /\ calls'[s].fn = asked[s].fn
<1>1. IInv /\ [Next]_vars => [Due]_vars
  <2> SUFFICES ASSUME IInv, [Next]_vars PROVE Due
    OBVIOUS
  <2>1. CASE call_callback_handler /\ timer_callbacks[Head(ke_queue).slot] \in Callbacks
    <3>1. PICK h : h = Head(ke_queue).slot
      OBVIOUS
    <3>2. /\ h \in Slots /\ asked[h] # NoTimer /\ asked[h].due = 0
          /\ asked[h].fn = timer_callbacks[h]
          /\ calls' = [calls EXCEPT ![h] = [fn |-> timer_callbacks[h],
                                            odd |-> ~calls[h].odd]]
      BY <2>1, <3>1, CallStep
    <3> QED
      BY <3>2 DEF IInv, TypeOK
  <2>2. CASE call_callback_handler /\ timer_callbacks[Head(ke_queue).slot] \notin Callbacks
    BY <2>2 DEF call_callback_handler
  <2>3. CASE ~call_callback_handler
    <3>1. calls' = calls
      BY <2>3 DEF Next, Api, Handler, vars, app_easy_timer, app_easy_timer_cancel,
         app_easy_timer_cancel_all, app_easy_timer_modify, create_timer_handler,
         cancel_timer_handler, modify_timer_handler, Tick, ke_timer_expiry,
         rwip_sleep, ble_wakeup
    <3> QED
      BY <3>1
  <2> QED
    BY <2>1, <2>2, <2>3
<1> QED
  BY <1>1, Agreement, PTL DEF Spec, CallbackOnlyWhenDue

(* The easy timers implement the abstract one-shot timers: every step is a *)
(* step of OneShotTimers or invisible to the application.                  *)
LEMMA OneShotStep ==
    ASSUME AppHabits = {}, IInv, [Next]_vars
    PROVE  [OneShot!Next]_<<asked, calls>>
<1>1. ASSUME NEW s \in Slots, NEW d \in Delays, NEW fn \in Callbacks,
             app_easy_timer(s, d, fn)
      PROVE  OneShot!Next
  <2>1. asked[s] = NoTimer
    BY <1>1, CallbackAssumption, DummyAssumption
    DEF app_easy_timer, FirstFree, IInv, SlotOK
  <2>2. OneShot!Start(s, d, fn)
    BY <1>1, <2>1 DEF app_easy_timer, OneShot!Start
  <2> QED
    BY <2>2 DEF OneShot!Next, Delays
<1>2. ASSUME NEW s \in Slots, app_easy_timer_cancel(s)
      PROVE  OneShot!Next
  <2>1. OneShot!Cancel({s})
    BY <1>2 DEF app_easy_timer_cancel, OneShot!Cancel, IInv, TypeOK
  <2> QED
    BY <2>1 DEF OneShot!Next
<1>3. CASE app_easy_timer_cancel_all
  <2>1. OneShot!Cancel({s \in Slots : CancelAccepted(s)})
    BY <1>3 DEF app_easy_timer_cancel_all, OneShot!Cancel
  <2> QED
    BY <2>1 DEF OneShot!Next
<1>4. ASSUME NEW s \in Slots, NEW d \in Delays, app_easy_timer_modify(s, d)
      PROVE  OneShot!Next
  <2>1. asked[s] # NoTimer
    BY <1>4 DEF app_easy_timer_modify, MayModify
  <2>2. OneShot!Modify(s, d)
    BY <1>4, <2>1 DEF app_easy_timer_modify, OneShot!Modify
  <2> QED
    BY <2>2 DEF OneShot!Next, Delays
<1>5. CASE call_callback_handler
  <2>1. PICK h : h = Head(ke_queue).slot
    OBVIOUS
  <2>2. CASE timer_callbacks[h] \in Callbacks
    <3>1. /\ h \in Slots /\ asked[h] # NoTimer /\ asked[h].due = 0
          /\ asked[h].fn = timer_callbacks[h]
          /\ asked' = [asked EXCEPT ![h] = NoTimer]
          /\ calls' = [calls EXCEPT ![h] = [fn |-> timer_callbacks[h],
                                            odd |-> ~calls[h].odd]]
      BY <1>5, <2>1, <2>2, CallStep
    <3>2. OneShot!Fire(h)
      BY <3>1 DEF OneShot!Fire
    <3> QED
      BY <3>1, <3>2 DEF OneShot!Next
  <2>3. CASE timer_callbacks[h] \notin Callbacks
    BY <1>5, <2>1, <2>3 DEF call_callback_handler
  <2> QED
    BY <2>2, <2>3
<1>6. CASE Tick
  <2>1. OneShot!Elapse
    BY <1>6 DEF Tick, Down, OneShot!Elapse, OneShot!Down
  <2> QED
    BY <2>1 DEF OneShot!Next
<1>7. CASE \/ create_timer_handler \/ cancel_timer_handler \/ modify_timer_handler
           \/ \E s \in Slots : ke_timer_expiry(s)
           \/ rwip_sleep \/ ble_wakeup \/ UNCHANGED vars
  BY <1>7 DEF create_timer_handler, cancel_timer_handler, modify_timer_handler,
     ke_timer_expiry, rwip_sleep, ble_wakeup, vars
<1> QED
  BY <1>1, <1>2, <1>3, <1>4, <1>5, <1>6, <1>7 DEF Next, Api, Handler

THEOREM Refinement == ASSUME AppHabits = {} PROVE Spec => ImplementsOneShot
<1>1. Init => OneShot!Init
  BY DEF Init, OneShot!Init
<1>2. IInv /\ [Next]_vars => [OneShot!Next]_<<asked, calls>>
  BY OneShotStep
<1> QED
  BY <1>1, <1>2, Agreement, PTL DEF Spec, ImplementsOneShot, OneShot!Spec
=============================================================================
