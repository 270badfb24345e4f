-------------------------- MODULE ArchSleepProofs --------------------------
(* What ArchSleep guarantees for any number of users and any counter that *)
(* can hold them, as long as the application leaves the sleep mode alone  *)
(* while the console prints.                                              *)
EXTENDS ArchSleep, FiniteSetTheorems, TLAPS

(* The variables of arch_sleep.c fit together: a mode is saved exactly     *)
(* while somebody holds active mode, and then sleep is off.                *)
SavedInv ==
    /\ sleep_enable = (slp_state # ARCH_SLEEP_OFF)
    /\ sleep_md # 0 <=> holding # {}
    /\ sleep_md # 0 => slp_state = ARCH_SLEEP_OFF
    /\ sleep_md = 0 => sleep_pend = NoPend

(* The count is the number of holders, but for a call that has counted and *)
(* not finished yet.                                                       *)
Counted(name) == op # NoOp /\ op.name = name /\ op.step = "act"

CountInv ==
    sleep_cnt = IF Counted("force") THEN Cardinality(holding) + 1
                ELSE IF Counted("restore") THEN Cardinality(holding) - 1
                ELSE Cardinality(holding)

(* A call in progress: the console is idle and the loaded count is fresh. *)
CallInv ==
    op # NoOp =>
        /\ ConsoleIdle
        /\ pc \in {"ble", "app"}
        /\ op.name = "force" => op.user \notin holding
        /\ op.name = "restore" => op.user \in holding
        /\ op.name = "set" => holding # {}
        /\ op.name # "set" /\ op.step = "store" => op.cnt = sleep_cnt

(* The console holds active mode exactly while the UART sends, and a list  *)
(* that is not empty is either sent or deferred, never both.               *)
ConsoleInv ==
    /\ listed > 0 <=> sending \/ (defer_sending /\ pc # "sent")
    /\ defer_sending /\ pc # "sent" => ~sending
    /\ uart_busy => sending
    /\ sending <=> Console \in holding

(* Where the system is asleep, sleep was enabled. *)
CoreInv ==
    /\ TypeOK /\ SavedInv /\ CountInv /\ CallInv /\ ConsoleInv
    /\ pc = "asleep" => sleep_enable

(* The buffer holds no text of a callback of the scheduler from one        *)
(* arch_printf_process to the next time the callbacks run, and no sleep    *)
(* loses other texts than those it holds then.                             *)
TextInv ==
    /\ lost <= late /\ late <= buffered
    /\ pc # "ble" \/ ~ble_on => late = buffered

IInv == CoreInv /\ TextInv

-----------------------------------------------------------------------------
(* Counting holders. *)

(* There are finitely many holders, fewer than the counter can count. *)
LEMMA HoldersFinite ==
    /\ IsFiniteSet(Holders)
    /\ Cardinality(Holders) < CntSize
    /\ CntSize \in Nat \ {0}
<1>1. IsFiniteSet(Users) /\ Console \notin Users
  BY UsersAssumption
<1>2. IsFiniteSet(Holders) /\ Cardinality(Holders) = Cardinality(Users) + 1
  BY <1>1, FS_AddElement DEF Holders
<1>. QED
  BY <1>1, <1>2, FS_CardinalityType, CntAssumption

(* One more holder, one more to count, and the count still fits its byte. *)
LEMMA CountUp ==
    ASSUME NEW S \in SUBSET Holders, NEW h \in Holders \ S
    PROVE  /\ S \cup {h} \in SUBSET Holders
           /\ Cardinality(S) \in Nat
           /\ Cardinality(S \cup {h}) = Cardinality(S) + 1
           /\ Cardinality(S \cup {h}) < CntSize
<1>1. IsFiniteSet(S) /\ Cardinality(S) \in Nat
  BY HoldersFinite, FS_Subset, FS_CardinalityType
<1>2. Cardinality(S \cup {h}) = Cardinality(S) + 1
  BY <1>1, FS_AddElement
<1>3. Cardinality(S \cup {h}) <= Cardinality(Holders) /\ Cardinality(Holders) \in Nat
  BY HoldersFinite, FS_Subset, FS_CardinalityType
<1>. QED
  BY <1>1, <1>2, <1>3, HoldersFinite, CntAssumption

(* One holder less, one less to count; the count is 0 when nobody is left. *)
LEMMA CountDown ==
    ASSUME NEW S \in SUBSET Holders, NEW h \in S
    PROVE  /\ S \ {h} \in SUBSET Holders
           /\ Cardinality(S) \in Nat \ {0}
           /\ Cardinality(S) < CntSize
           /\ Cardinality(S \ {h}) = Cardinality(S) - 1
           /\ Cardinality(S) = 1 <=> S \ {h} = {}
<1>1. IsFiniteSet(S) /\ Cardinality(S) \in Nat
  BY HoldersFinite, FS_Subset, FS_CardinalityType
<1>2. IsFiniteSet(S \ {h}) /\ Cardinality(S \ {h}) = Cardinality(S) - 1
  BY <1>1, FS_RemoveElement
<1>3. Cardinality(S \ {h}) \in Nat /\ (Cardinality(S \ {h}) = 0 <=> S \ {h} = {})
  BY <1>2, FS_CardinalityType, FS_EmptySet
<1>4. Cardinality(S) <= Cardinality(Holders) /\ Cardinality(Holders) \in Nat
  BY HoldersFinite, FS_Subset, FS_CardinalityType
<1>. QED
  BY <1>1, <1>2, <1>3, <1>4, HoldersFinite, CntAssumption

(* A count that fits its byte is not changed by the wrap-around. *)
LEMMA NoWrap == \A n \in Nat : n < CntSize => n % CntSize = n
  BY CntAssumption

-----------------------------------------------------------------------------
(* The invariant holds at the start. *)

(* Every initial state satisfies the invariant. *)
LEMMA InitInv == Init => IInv
<1>. SUFFICES ASSUME Init PROVE IInv
  OBVIOUS
<1>1. Cardinality({}) = 0
  BY FS_EmptySet
<1>2. TypeOK
  <2>1. 0 \in Cnt /\ 0 \in 0..BufSize
    BY HoldersFinite, BoundAssumption DEF Cnt
  <2>2. holding \subseteq Holders
    BY DEF Init
  <2>3. /\ sleep_enable \in BOOLEAN /\ defer_sending \in BOOLEAN
        /\ uart_busy \in BOOLEAN /\ sending \in BOOLEAN /\ ble_on \in BOOLEAN
    BY Zenon DEF Init
  <2>4. /\ slp_state \in Modes /\ sleep_md \in 0..3 /\ sleep_pend \in Modes \cup {NoPend}
        /\ sleep_cnt \in Cnt /\ buffered \in 0..BufSize /\ listed \in Nat
        /\ late \in 0..BufSize /\ lost \in 0..BufSize
    BY <2>1 DEF Init
  <2>5. /\ op \in Calls \cup {NoOp}
        /\ pc \in {"ble", "process", "sent", "app", "sleep", "asleep"}
    BY DEF Init
  <2>. QED
    BY <2>2, <2>3, <2>4, <2>5 DEF TypeOK
<1>3. SavedInv
  BY DEF Init, SavedInv
<1>4. CountInv
  BY <1>1 DEF Init, CountInv, Counted
<1>5. CallInv /\ ConsoleInv /\ TextInv /\ (pc = "asleep" => sleep_enable)
  BY DEF Init, CallInv, ConsoleInv, TextInv
<1>. QED
  BY <1>2, <1>3, <1>4, <1>5 DEF IInv, CoreInv

-----------------------------------------------------------------------------
(* Each step preserves the invariant. *)

(* The application leaves the sleep mode alone while the console prints. *)
Polite == AppHabits = {}

(* A call of the application begins, or a mode is set at once. *)
LEMMA AppCallsInv == ASSUME Polite, IInv, AppCalls PROVE CoreInv'
<1>. USE DEF IInv, CoreInv
<1>1. ASSUME NEW u \in Users, call_force(u) PROVE CoreInv'
  <2>. USE <1>1 DEF call_force, MayCall, AppRuns, Polite, sleepVars, consoleVars, bufferVars
  <2>1. TypeOK'
    <3>1. op' \in Calls
      BY HoldersFinite DEF Calls, Cnt
    <3>. QED
      BY <3>1 DEF TypeOK
  <2>2. SavedInv' /\ ConsoleInv'
    BY DEF SavedInv, ConsoleInv
  <2>3. CountInv'
    BY DEF CountInv, Counted
  <2>4. CallInv'
    BY DEF CallInv, ConsoleIdle
  <2>. QED
    BY <2>1, <2>2, <2>3, <2>4
<1>2. ASSUME NEW u \in Users, call_restore(u) PROVE CoreInv'
  <2>. USE <1>2 DEF call_restore, MayCall, AppRuns, Polite, sleepVars, consoleVars, bufferVars
  <2>1. TypeOK'
    <3>1. op' \in Calls
      BY HoldersFinite DEF Calls, Cnt
    <3>. QED
      BY <3>1 DEF TypeOK
  <2>2. SavedInv' /\ ConsoleInv'
    BY DEF SavedInv, ConsoleInv
  <2>3. CountInv'
    BY DEF CountInv, Counted
  <2>4. CallInv'
    BY DEF CallInv, ConsoleIdle
  <2>. QED
    BY <2>1, <2>2, <2>3, <2>4
<1>3. ASSUME NEW m \in Modes, arch_set_sleep_mode(m) PROVE CoreInv'
  <2>. USE <1>3 DEF arch_set_sleep_mode, Apply, MayCall, AppRuns, consoleVars, bufferVars
  <2>1. TypeOK'
    BY DEF TypeOK
  <2>2. SavedInv' /\ ConsoleInv'
    BY DEF SavedInv, ConsoleInv
  <2>3. CountInv' /\ CallInv'
    BY DEF CountInv, Counted, CallInv
  <2>4. pc' # "asleep"
    OBVIOUS
  <2>. QED
    BY <2>1, <2>2, <2>3, <2>4
<1>4. ASSUME NEW m \in Modes, call_set(m) PROVE CoreInv'
  <2>. USE <1>4 DEF call_set, MayCall, AppRuns, Polite, sleepVars, consoleVars, bufferVars
  <2>1. TypeOK'
    BY DEF TypeOK, Calls
  <2>2. SavedInv' /\ ConsoleInv'
    BY DEF SavedInv, ConsoleInv
  <2>3. CountInv'
    BY DEF CountInv, Counted
  <2>4. CallInv'
    BY DEF CallInv, ConsoleIdle, SavedInv
  <2>. QED
    BY <2>1, <2>2, <2>3, <2>4
<1>5. CASE arch_vprintf
  <2>. USE <1>5 DEF arch_vprintf, arch_printf_flush, AppRuns, sleepVars
  <2>1. TypeOK'
    <3>1. defer_sending' \in BOOLEAN
      BY Zenon DEF TypeOK
    <3>2. \/ /\ buffered = BufSize /\ listed' = listed + 1 /\ buffered' = 1
             /\ late' = Late /\ lost' = 0
          \/ /\ buffered # BufSize /\ buffered' = buffered + 1 /\ listed' = listed
             /\ late' = late + Late /\ lost' = lost
      BY Zenon
    <3>3. /\ buffered \in 0..BufSize /\ listed \in Nat /\ BufSize \in Nat \ {0}
          /\ late \in 0..BufSize /\ lost \in 0..BufSize /\ late <= buffered
          /\ Late \in {0, 1}
      BY BoundAssumption DEF TypeOK, TextInv, Late
    <3>4. /\ buffered' \in 0..BufSize /\ listed' \in Nat
          /\ late' \in 0..BufSize /\ lost' \in 0..BufSize
      BY ONLY <3>2, <3>3
    <3>. QED
      BY <3>1, <3>4 DEF TypeOK
  <2>2. SavedInv' /\ CountInv' /\ CallInv'
    BY DEF SavedInv, CountInv, Counted, CallInv
  <2>3. ConsoleInv'
    <3>1. listed \in Nat /\ defer_sending \in BOOLEAN /\ pc' # "sent"
      BY DEF TypeOK
    <3>2. CASE buffered = BufSize /\ listed = 0
      BY <3>1, <3>2 DEF ConsoleInv
    <3>3. CASE buffered = BufSize /\ listed # 0
      BY <3>1, <3>3 DEF ConsoleInv
    <3>4. CASE buffered # BufSize
      BY <3>1, <3>4 DEF ConsoleInv
    <3>. QED
      BY <3>2, <3>3, <3>4
  <2>. QED
    BY <2>1, <2>2, <2>3
<1>. QED
  BY <1>1, <1>2, <1>3, <1>4, <1>5 DEF AppCalls

(* SaveMode and RestoreMode keep the saved mode and the sleep state in     *)
(* step, whoever calls them.                                               *)
LEMMA SaveModeFits ==
    ASSUME TypeOK, SavedInv, SaveMode, sleep_pend' = sleep_pend
    PROVE  /\ slp_state' \in Modes /\ sleep_enable' \in BOOLEAN /\ sleep_md' \in 1..3
           /\ sleep_enable' = (slp_state' # ARCH_SLEEP_OFF)
           /\ slp_state' = ARCH_SLEEP_OFF
<1>. USE DEF SaveMode, Apply, Modes, ARCH_SLEEP_OFF
<1>1. CASE sleep_md = 0
  BY <1>1 DEF TypeOK
<1>2. CASE sleep_md # 0
  BY <1>2 DEF TypeOK, SavedInv
<1>. QED
  BY <1>1, <1>2

LEMMA RestoreModeFits ==
    ASSUME TypeOK, SavedInv, RestoreMode
    PROVE  /\ slp_state' \in Modes /\ sleep_enable' \in BOOLEAN
           /\ sleep_md' = 0 /\ sleep_pend' = NoPend
           /\ sleep_enable' = (slp_state' # ARCH_SLEEP_OFF)
<1>. DEFINE mode == IF sleep_pend # NoPend THEN sleep_pend
                    ELSE IF sleep_md # 0 THEN sleep_md - 1 ELSE 0
<1>1. mode \in Modes
  BY DEF TypeOK, Modes, NoPend
<1>2. IF mode = 0 THEN UNCHANGED <<slp_state, sleep_enable>> ELSE Apply(mode)
  BY DEF RestoreMode
<1>3. sleep_md' = 0 /\ sleep_pend' = NoPend
  BY DEF RestoreMode
<1>. HIDE DEF mode
<1>4. CASE mode = 0
  BY <1>2, <1>3, <1>4 DEF TypeOK, SavedInv
<1>5. CASE mode # 0
  BY <1>1, <1>2, <1>3, <1>5 DEF Apply, ARCH_SLEEP_OFF
<1>. QED
  BY <1>4, <1>5

(* A call of the application goes on. *)
LEMMA CallStepsInv == ASSUME IInv, CallSteps PROVE CoreInv'
<1>. USE DEF IInv, CoreInv
<1>. /\ Cardinality(holding) \in Nat /\ holding \in SUBSET Holders
     /\ op # NoOp /\ op.name # "set" =>
           /\ op \in [name : {"force", "restore"}, user : Users,
                      step : {"load", "store", "act"}, cnt : Cnt]
           /\ op.user \in Holders
  BY HoldersFinite, FS_Subset, FS_CardinalityType DEF TypeOK, Calls, Holders
<1>1. CASE load_cnt
  <2>. USE <1>1 DEF load_cnt, sleepVars, consoleVars, bufferVars
  <2>1. op.name \in {"force", "restore"} /\ op.step = "load"
    BY DEF Counting
  <2>2. op.name = "restore" => sleep_cnt # 0
    <3>1. ASSUME op.name = "restore" PROVE Cardinality(holding) # 0
      <4>1. op.user \in holding
        BY <3>1 DEF Counting, CallInv
      <4>. QED
        BY <4>1, CountDown
    <3>. QED
      BY <2>1, <3>1 DEF CountInv, Counted
  <2>3. op' = [op EXCEPT !.cnt = sleep_cnt, !.step = "store"]
    BY <2>2
  <2>4. op' \in Calls /\ op'.name = op.name /\ op'.user = op.user /\ op'.step = "store"
        /\ op'.cnt = sleep_cnt
    BY <2>1, <2>3 DEF TypeOK, Calls, Counting
  <2>5. TypeOK'
    BY <2>4 DEF TypeOK
  <2>6. SavedInv' /\ ConsoleInv'
    BY DEF SavedInv, ConsoleInv
  <2>7. CountInv'
    BY <2>1, <2>4 DEF CountInv, Counted
  <2>8. CallInv'
    BY <2>1, <2>4 DEF CallInv, ConsoleIdle, Counting
  <2>. QED
    BY <2>5, <2>6, <2>7, <2>8
<1>2. CASE store_cnt
  <2>. USE <1>2 DEF store_cnt, consoleVars, bufferVars
  <2>1. op.name \in {"force", "restore"} /\ op.step = "store" /\ op # NoOp
    BY DEF Counting
  <2>2. op' \in Calls /\ op'.name = op.name /\ op'.user = op.user /\ op'.step = "act"
        /\ op' # NoOp
    BY <2>1, NoOpAssumption DEF TypeOK, Calls, Counting
  <2>3. sleep_cnt = Cardinality(holding) /\ op.cnt = sleep_cnt
    BY <2>1 DEF CountInv, Counted, CallInv
  <2>4. CASE op.name = "force"
    <3>1. op.user \in Holders \ holding
      BY <2>1, <2>4 DEF CallInv
    <3>2. Cardinality(holding) + 1 < CntSize
      <4>1. /\ Cardinality(holding \cup {op.user}) = Cardinality(holding) + 1
            /\ Cardinality(holding \cup {op.user}) < CntSize
        BY <3>1, CountUp
      <4>. QED
        BY <4>1
    <3>3. sleep_cnt' = Cardinality(holding) + 1 /\ sleep_cnt' \in Cnt
      BY <2>3, <2>4, <3>2, NoWrap, HoldersFinite DEF Cnt
    <3>4. TypeOK' /\ SavedInv' /\ ConsoleInv'
      BY <2>2, <3>3 DEF TypeOK, SavedInv, ConsoleInv
    <3>5. CountInv' /\ CallInv'
      BY <2>1, <2>2, <2>4, <3>3 DEF CountInv, Counted, CallInv, ConsoleIdle
    <3>. QED
      BY <3>4, <3>5
  <2>5. CASE op.name = "restore"
    <3>1. op.user \in holding
      BY <2>1, <2>5 DEF CallInv
    <3>2. Cardinality(holding) \in Nat \ {0} /\ Cardinality(holding) < CntSize
      BY <3>1, CountDown DEF TypeOK
    <3>3. sleep_cnt' = Cardinality(holding) - 1 /\ sleep_cnt' \in Cnt
      BY <2>3, <2>5, <3>2, HoldersFinite DEF Cnt
    <3>4. TypeOK' /\ SavedInv' /\ ConsoleInv'
      BY <2>2, <3>3 DEF TypeOK, SavedInv, ConsoleInv
    <3>5. CountInv' /\ CallInv'
      BY <2>1, <2>2, <2>5, <3>3 DEF CountInv, Counted, CallInv, ConsoleIdle
    <3>. QED
      BY <3>4, <3>5
  <2>. QED
    BY <2>1, <2>4, <2>5
<1>3. CASE finish_force
  <2>. USE <1>3 DEF finish_force, consoleVars, bufferVars
  <2>1. op # NoOp /\ op.name = "force" /\ op.step = "act" /\ op' = NoOp
    BY DEF Counting
  <2>2. op.user \in Holders \ holding /\ op.user # Console
    BY <2>1, UsersAssumption DEF CallInv
  <2>3. sleep_cnt' = Cardinality(holding')
    BY <2>1, <2>2, CountUp DEF CountInv, Counted, TypeOK
  <2>4. /\ slp_state' \in Modes /\ sleep_enable' \in BOOLEAN /\ sleep_md' \in 1..3
        /\ sleep_enable' = (slp_state' # ARCH_SLEEP_OFF)
        /\ slp_state' = ARCH_SLEEP_OFF
    BY SaveModeFits
  <2>5. TypeOK'
    BY <2>1, <2>2, <2>4 DEF TypeOK
  <2>6. SavedInv'
    BY <2>4 DEF SavedInv
  <2>7. CountInv' /\ CallInv'
    BY <2>1, <2>3 DEF CountInv, Counted, CallInv
  <2>8. ConsoleInv'
    BY <2>2 DEF ConsoleInv
  <2>9. pc' # "asleep"
    BY <2>1 DEF CallInv
  <2>. QED
    BY <2>5, <2>6, <2>7, <2>8, <2>9
<1>4. CASE finish_restore
  <2>. USE <1>4 DEF finish_restore, consoleVars, bufferVars
  <2>1. op # NoOp /\ op.name = "restore" /\ op.step = "act" /\ op' = NoOp
    BY DEF Counting
  <2>2. op.user \in holding /\ op.user # Console
    BY <2>1, UsersAssumption DEF CallInv
  <2>3. sleep_cnt' = Cardinality(holding') /\ (sleep_cnt = 0 <=> holding' = {})
    <3>1. /\ Cardinality(holding \ {op.user}) = Cardinality(holding) - 1
          /\ Cardinality(holding) = 1 <=> holding \ {op.user} = {}
      <4>1. holding \in SUBSET Holders
        OBVIOUS
      <4>. QED
        BY ONLY <2>2, <4>1, CountDown
    <3>2. sleep_cnt = Cardinality(holding) - 1
      BY <2>1 DEF CountInv, Counted
    <3>3. holding' = holding \ {op.user} /\ sleep_cnt' = sleep_cnt
      OBVIOUS
    <3>4. Cardinality(holding) \in Nat
      OBVIOUS
    <3>. QED
      BY ONLY <3>1, <3>2, <3>3, <3>4
  <2>4. TypeOK' /\ SavedInv'
    <3>1. CASE sleep_cnt > 0
      BY <2>1, <2>3, <3>1 DEF TypeOK, SavedInv
    <3>2. CASE ~(sleep_cnt > 0)
      <4>1. holding' = {}
        BY <2>3, <3>2 DEF TypeOK, Cnt
      <4>2. /\ slp_state' \in Modes /\ sleep_enable' \in BOOLEAN
            /\ sleep_md' = 0 /\ sleep_pend' = NoPend
            /\ sleep_enable' = (slp_state' # ARCH_SLEEP_OFF)
        BY <3>2, RestoreModeFits
      <4>3. TypeOK'
        BY <2>1, <4>1, <4>2 DEF TypeOK
      <4>4. SavedInv'
        BY <4>1, <4>2 DEF SavedInv
      <4>. QED
        BY <4>3, <4>4
    <3>. QED
      BY <3>1, <3>2
  <2>5. CountInv' /\ CallInv'
    BY <2>1, <2>3 DEF CountInv, Counted, CallInv
  <2>6. ConsoleInv'
    BY <2>2 DEF ConsoleInv
  <2>7. pc' # "asleep"
    BY <2>1 DEF CallInv
  <2>. QED
    BY <2>4, <2>5, <2>6, <2>7
<1>5. CASE store_pend
  <2>. USE <1>5 DEF store_pend, consoleVars, bufferVars
  <2>1. op \in [name : {"set"}, mode : Modes]
    BY DEF TypeOK, Calls
  <2>2. TypeOK'
    BY <2>1 DEF TypeOK
  <2>3. SavedInv'
    BY DEF SavedInv, CallInv
  <2>4. CountInv' /\ CallInv' /\ ConsoleInv'
    BY <2>1 DEF CountInv, Counted, CallInv, ConsoleInv
  <2>. QED
    BY <2>2, <2>3, <2>4
<1>. QED
  BY <1>1, <1>2, <1>3, <1>4, <1>5 DEF CallSteps

(* The main loop runs arch_printf_process. *)
LEMMA ConsoleStepsInv == ASSUME IInv, ConsoleSteps PROVE CoreInv'
<1>. USE DEF IInv, CoreInv
<1>1. CASE submit
  <2>. USE <1>1 DEF submit, arch_printf_flush, sleepVars
  <2>1. \/ /\ listed' = listed + 1
           /\ defer_sending' = (IF listed = 0 THEN TRUE ELSE defer_sending)
           /\ buffered' = 0 /\ late' = 0 /\ lost' = 0
        \/ UNCHANGED <<buffered, late, lost, listed, defer_sending>>
    BY Zenon DEF bufferVars
  <2>2. defer_sending' \in BOOLEAN
    BY Zenon DEF TypeOK
  <2>3. TypeOK'
    <3>1. buffered \in 0..BufSize /\ listed \in Nat /\ BufSize \in Nat \ {0}
      BY BoundAssumption DEF TypeOK
    <3>2. \/ listed' = listed + 1 /\ buffered' = 0 /\ late' = 0 /\ lost' = 0
          \/ listed' = listed /\ UNCHANGED bufferVars
      BY Zenon, <2>1 DEF bufferVars
    <3>3. late \in 0..BufSize /\ lost \in 0..BufSize
      BY DEF TypeOK
    <3>4. /\ buffered' \in 0..BufSize /\ listed' \in Nat
          /\ late' \in 0..BufSize /\ lost' \in 0..BufSize
      BY ONLY <3>1, <3>2, <3>3 DEF bufferVars
    <3>. QED
      BY <2>2, <3>4 DEF TypeOK
  <2>4. SavedInv' /\ CountInv' /\ CallInv'
    BY DEF SavedInv, CountInv, Counted, CallInv
  <2>5. ConsoleInv'
    <3>1. listed \in Nat /\ pc' # "sent"
      BY DEF TypeOK
    <3>2. CASE UNCHANGED <<buffered, late, lost, listed, defer_sending>>
      BY <3>1, <3>2 DEF ConsoleInv
    <3>3. CASE listed' = listed + 1 /\ listed = 0 /\ defer_sending' = TRUE
      BY <3>1, <3>3 DEF ConsoleInv
    <3>4. CASE listed' = listed + 1 /\ listed # 0 /\ defer_sending' = defer_sending
      BY <3>1, <3>4 DEF ConsoleInv
    <3>. QED
      BY <2>1, <3>2, <3>3, <3>4
  <2>. QED
    BY <2>3, <2>4, <2>5
<1>2. CASE arch_printf_process
  <2>. USE <1>2 DEF arch_printf_process, arch_force_active_mode, bufferVars
  <2>1. defer_sending /\ pc = "process" /\ op = NoOp /\ op' = NoOp
    BY DEF CallInv
  <2>2. ~sending /\ ~uart_busy /\ Console \notin holding /\ listed > 0
    BY <2>1 DEF ConsoleInv
  <2>3. pc' = "sent" /\ sending' = TRUE /\ uart_busy' = FALSE
    BY <2>2 DEF TypeOK
  <2>4. sleep_cnt' = Cardinality(holding') /\ sleep_cnt' \in Cnt /\ holding' \in SUBSET Holders
    <3>1. holding \in SUBSET Holders /\ Console \in Holders
      BY DEF TypeOK, Holders
    <3>2. /\ Cardinality(holding) \in Nat
          /\ Cardinality(holding \cup {Console}) = Cardinality(holding) + 1
          /\ Cardinality(holding \cup {Console}) < CntSize
          /\ holding \cup {Console} \in SUBSET Holders
      BY ONLY <2>2, <3>1, CountUp
    <3>3. sleep_cnt = Cardinality(holding)
      BY <2>1 DEF CountInv, Counted
    <3>4. sleep_cnt' = Cardinality(holding) + 1
      BY <3>2, <3>3, NoWrap
    <3>5. holding' = holding \cup {Console}
      OBVIOUS
    <3>. QED
      BY <3>2, <3>4, <3>5, HoldersFinite DEF Cnt
  <2>5. /\ slp_state' \in Modes /\ sleep_enable' \in BOOLEAN /\ sleep_md' \in 1..3
        /\ sleep_enable' = (slp_state' # ARCH_SLEEP_OFF)
        /\ slp_state' = ARCH_SLEEP_OFF
    BY SaveModeFits
  <2>6. TypeOK'
    BY <2>1, <2>3, <2>4, <2>5 DEF TypeOK
  <2>7. SavedInv'
    BY <2>5 DEF SavedInv
  <2>8. CountInv' /\ CallInv'
    BY <2>1, <2>4 DEF CountInv, Counted, CallInv
  <2>9. ConsoleInv'
    BY <2>1, <2>2, <2>3 DEF ConsoleInv
  <2>. QED
    BY <2>3, <2>6, <2>7, <2>8, <2>9
<1>3. CASE clear_defer
  <2>. USE <1>3 DEF clear_defer, sleepVars, bufferVars
  <2>1. TypeOK' /\ SavedInv'
    BY DEF TypeOK, SavedInv
  <2>2. CountInv' /\ CallInv'
    BY DEF CountInv, Counted, CallInv
  <2>3. ConsoleInv'
    BY DEF ConsoleInv
  <2>. QED
    BY <2>1, <2>2, <2>3
<1>4. CASE nothing_to_send
  <2>. USE <1>4 DEF nothing_to_send, sleepVars, consoleVars, bufferVars
  <2>1. TypeOK' /\ SavedInv'
    BY DEF TypeOK, SavedInv
  <2>2. CountInv' /\ CallInv'
    BY DEF CountInv, Counted, CallInv
  <2>3. ConsoleInv'
    BY DEF ConsoleInv
  <2>. QED
    BY <2>1, <2>2, <2>3
<1>. QED
  BY <1>1, <1>2, <1>3, <1>4 DEF ConsoleSteps

(* The UART interrupt, in the main loop's absence from arch_sleep.c. *)
LEMMA UartInv == ASSUME IInv, uart_callback PROVE CoreInv'
<1>. USE DEF IInv, CoreInv, uart_callback, bufferVars
<1>1. listed \in Nat /\ listed > 0 /\ sending /\ Console \in holding /\ pc # "asleep"
  BY DEF TypeOK, ConsoleInv, InterruptsOn
<1>2. op = NoOp /\ op' = NoOp
  BY <1>1 DEF CallInv, ConsoleIdle
<1>3. ~(defer_sending /\ pc # "sent")
  BY <1>1 DEF ConsoleInv
<1>4. CASE listed > 1
  <2>. USE <1>4 DEF sleepVars
  <2>1. uart_busy' = TRUE /\ sending' = TRUE /\ listed' = listed - 1
    BY Zenon
  <2>2. TypeOK' /\ SavedInv'
    BY <1>1, <2>1 DEF TypeOK, SavedInv
  <2>3. CountInv' /\ CallInv'
    BY <1>2 DEF CountInv, Counted, CallInv
  <2>4. ConsoleInv'
    BY <1>1, <1>3, <2>1 DEF ConsoleInv
  <2>. QED
    BY <1>1, <2>2, <2>3, <2>4
<1>5. CASE ~(listed > 1)
  <2>. USE <1>5 DEF arch_restore_sleep_mode
  <2>1. uart_busy' = FALSE /\ sending' = FALSE /\ listed' = 0
    <3>1. uart_busy' = FALSE /\ sending' = FALSE
      BY Zenon
    <3>2. listed' = 0
      <4>1. listed' = listed - 1
        BY Zenon
      <4>2. listed \in Nat /\ listed > 0 /\ ~(listed > 1)
        BY <1>1, <1>5
      <4>. QED
        BY ONLY <4>1, <4>2
    <3>. QED
      BY <3>1, <3>2
  <2>2. /\ holding \in SUBSET Holders /\ Cardinality(holding) \in Nat \ {0}
        /\ Cardinality(holding) < CntSize
        /\ Cardinality(holding \ {Console}) = Cardinality(holding) - 1
        /\ (Cardinality(holding) = 1 <=> holding \ {Console} = {})
    <3>1. holding \in SUBSET Holders
      BY DEF TypeOK
    <3>. QED
      BY ONLY <1>1, <3>1, CountDown
  <2>3. sleep_cnt = Cardinality(holding) /\ holding' = holding \ {Console}
    BY <1>2 DEF CountInv, Counted
  <2>4. sleep_cnt' = Cardinality(holding') /\ sleep_cnt' \in Cnt
    BY <2>2, <2>3, HoldersFinite DEF Cnt
  <2>5. CountInv' /\ CallInv'
    BY <1>2, <2>4 DEF CountInv, Counted, CallInv
  <2>6. ConsoleInv'
    BY <1>3, <2>1, <2>3 DEF ConsoleInv
  <2>7. TypeOK' /\ SavedInv'
    <3>1. /\ sleep_cnt > 1 => UNCHANGED <<slp_state, sleep_enable, sleep_md, sleep_pend>>
          /\ sleep_cnt = 1 => RestoreMode
      <4>1. arch_restore_sleep_mode
        BY Zenon
      <4>2. (IF sleep_cnt > 0 THEN sleep_cnt - 1 ELSE 0) > 0
              => UNCHANGED <<slp_state, sleep_enable, sleep_md, sleep_pend>>
        BY ONLY Zenon, <4>1 DEF arch_restore_sleep_mode
      <4>3. ~((IF sleep_cnt > 0 THEN sleep_cnt - 1 ELSE 0) > 0) => RestoreMode
        BY ONLY Zenon, <4>1 DEF arch_restore_sleep_mode
      <4>. QED
        BY ONLY <4>2, <4>3, <2>2, <2>3
    <3>2. sleep_cnt \in Nat \ {0} /\ (sleep_cnt = 1 <=> holding' = {})
      BY ONLY <2>2, <2>3
    <3>3. /\ holding' \in SUBSET Holders /\ listed' \in Nat /\ op' = NoOp
          /\ uart_busy' \in BOOLEAN /\ sending' \in BOOLEAN
          /\ UNCHANGED <<buffered, late, lost, defer_sending, ble_on, pc>>
      <4>1. UNCHANGED <<buffered, late, lost, defer_sending, ble_on, pc>>
        BY Zenon DEF bufferVars
      <4>2. holding' \in SUBSET Holders /\ listed' \in Nat
        BY ONLY <2>1, <2>2, <2>3
      <4>. QED
        BY ONLY Zenon, <1>2, <2>1, <4>1, <4>2
    <3>4. TypeOK
      OBVIOUS
    <3>5. CASE sleep_cnt > 1
      <4>1. UNCHANGED <<slp_state, sleep_enable, sleep_md, sleep_pend>> /\ holding' # {}
        BY <3>1, <3>2, <3>5
      <4>2. TypeOK'
        BY ONLY <2>4, <3>3, <3>4, <4>1 DEF TypeOK
      <4>3. SavedInv'
        BY <1>1, <4>1 DEF SavedInv
      <4>. QED
        BY <4>2, <4>3
    <3>6. CASE sleep_cnt = 1
      <4>1. RestoreMode /\ holding' = {}
        BY <3>1, <3>2, <3>6
      <4>2. /\ slp_state' \in Modes /\ sleep_enable' \in BOOLEAN
            /\ sleep_md' = 0 /\ sleep_pend' = NoPend
            /\ sleep_enable' = (slp_state' # ARCH_SLEEP_OFF)
        BY <4>1, RestoreModeFits
      <4>3. TypeOK'
        BY ONLY <2>4, <3>3, <3>4, <4>2 DEF TypeOK
      <4>4. SavedInv'
        BY <4>1, <4>2 DEF SavedInv
      <4>. QED
        BY <4>3, <4>4
    <3>. QED
      BY <3>2, <3>5, <3>6
  <2>. QED
    BY <1>1, <2>5, <2>6, <2>7
<1>. QED
  BY <1>4, <1>5

(* The main loop goes on: it takes no call of the application's with it,   *)
(* and goes to sleep only where sleep is enabled.                          *)
LEMMA LoopInv == ASSUME IInv, LoopSteps \/ ble_wakes PROVE CoreInv'
<1>. DEFINE Moves ==
        /\ UNCHANGED <<sleepVars, buffered, listed, defer_sending, uart_busy, sending, op>>
        /\ late' \in 0..BufSize /\ lost' \in 0..BufSize
        /\ pc' = "sent" <=> pc = "sent"
        /\ pc' \in {"ble", "process", "sent", "app", "sleep", "asleep"}
        /\ ble_on' \in BOOLEAN
        /\ pc' = "asleep" => sleep_enable
        /\ op # NoOp => pc' \in {"ble", "app"}
<1>1. Moves
  <2>. USE DEF IInv, CoreInv, TypeOK, CallInv, consoleVars, bufferVars
  <2>1. CASE ble_is_off
    BY <2>1 DEF ble_is_off
  <2>2. CASE app_asynch_proc
    BY <2>2 DEF app_asynch_proc
  <2>3. CASE stay_awake
    BY <2>3 DEF stay_awake
  <2>4. CASE ble_to_sleep
    BY <2>4 DEF ble_to_sleep
  <2>5. CASE arch_goto_sleep
    BY <2>5 DEF arch_goto_sleep
  <2>6. CASE arch_resume_from_sleep
    BY <2>6 DEF arch_resume_from_sleep
  <2>7. CASE ble_wakes
    BY <2>7 DEF ble_wakes
  <2>. QED
    BY <2>1, <2>2, <2>3, <2>4, <2>5, <2>6, <2>7 DEF LoopSteps
<1>. USE DEF IInv, CoreInv, sleepVars, consoleVars, bufferVars
<1>2. TypeOK'
  BY <1>1 DEF TypeOK
<1>3. SavedInv' /\ CountInv'
  BY <1>1 DEF SavedInv, CountInv, Counted
<1>4. CallInv'
  BY <1>1 DEF CallInv, ConsoleIdle
<1>5. ConsoleInv'
  BY <1>1 DEF ConsoleInv
<1>. QED
  BY <1>1, <1>2, <1>3, <1>4, <1>5

(* A text is late where app_asynch_proc prints it, the next                *)
(* arch_printf_process takes it away with the others, and the way from     *)
(* there to the sleep does not run the scheduler's callbacks.              *)
LEMMA TextStep == ASSUME IInv, [Next]_vars PROVE TextInv'
<1>1. /\ buffered \in 0..BufSize /\ late \in 0..BufSize /\ lost \in 0..BufSize
      /\ lost <= late /\ late <= buffered
      /\ pc # "ble" \/ ~ble_on => late = buffered
  BY DEF IInv, CoreInv, TypeOK, TextInv
<1>2. BufSize \in Nat \ {0}
  BY BoundAssumption
<1>3. CASE arch_vprintf
  <2>1. \/ buffered' = 1 /\ late' = Late /\ lost' = 0
        \/ buffered' = buffered + 1 /\ late' = late + Late /\ lost' = lost
    BY <1>3, Zenon DEF arch_vprintf
  <2>2. /\ pc' = pc /\ ble_on' = ble_on
        /\ pc = "app" \/ (pc = "ble" /\ ble_on)
        /\ Late = IF pc = "app" THEN 1 ELSE 0
    BY <1>3 DEF arch_vprintf, AppRuns, Late
  <2>. QED
    BY ONLY <1>1, <2>1, <2>2 DEF TextInv
<1>4. CASE submit
  <2>1. \/ buffered' = 0 /\ late' = 0 /\ lost' = 0
        \/ buffered = 0 /\ UNCHANGED <<buffered, late, lost>>
    BY <1>1, <1>4 DEF submit, bufferVars
  <2>. QED
    BY ONLY <1>1, <2>1 DEF TextInv
<1>5. CASE arch_goto_sleep
  <2>1. /\ lost' \in {lost, buffered} /\ UNCHANGED <<buffered, late>>
        /\ pc = "sleep"
    BY <1>5 DEF arch_goto_sleep
  <2>. QED
    BY ONLY <1>1, <2>1 DEF TextInv
<1>6. ASSUME UNCHANGED bufferVars,
             \/ pc' = "ble" /\ ble_on'
             \/ /\ pc # "ble" \/ ~ble_on
             \/ UNCHANGED <<pc, ble_on>>
      PROVE TextInv'
  <2>1. UNCHANGED <<buffered, late, lost>>
    BY <1>6 DEF bufferVars
  <2>. QED
    BY ONLY <1>1, <1>6, <2>1 DEF TextInv
<1>. USE DEF consoleVars
<1>7. CASE AppCalls
  BY <1>3, <1>6, <1>7 DEF AppCalls, call_force, call_restore, arch_set_sleep_mode, call_set
<1>8. CASE CallSteps
  BY <1>6, <1>8 DEF CallSteps, load_cnt, store_cnt, finish_force, finish_restore, store_pend
<1>9. CASE ConsoleSteps
  BY <1>4, <1>6, <1>9 DEF ConsoleSteps, arch_printf_process, clear_defer, nothing_to_send
<1>10. CASE uart_callback
  BY <1>6, <1>10 DEF uart_callback
<1>11. CASE LoopSteps
  BY <1>5, <1>6, <1>11 DEF LoopSteps, ble_is_off, app_asynch_proc, stay_awake,
     ble_to_sleep, arch_resume_from_sleep
<1>12. CASE ble_wakes
  BY <1>6, <1>12 DEF ble_wakes
<1>13. CASE UNCHANGED vars
  BY <1>6, <1>13 DEF vars
<1>. QED
  BY <1>7, <1>8, <1>9, <1>10, <1>11, <1>12, <1>13 DEF Next

(* Every step preserves the invariant. *)
LEMMA StepInv == ASSUME Polite, IInv, [Next]_vars PROVE IInv'
<1>1. CASE UNCHANGED vars
  <2>. USE <1>1 DEF vars, sleepVars, consoleVars, bufferVars, IInv, CoreInv
  <2>1. TypeOK' /\ SavedInv'
    BY DEF TypeOK, SavedInv
  <2>2. CountInv' /\ CallInv' /\ ConsoleInv'
    BY DEF CountInv, Counted, CallInv, ConsoleIdle, ConsoleInv
  <2>. QED
    BY <2>1, <2>2, TextStep
<1>. QED
  BY <1>1, AppCallsInv, CallStepsInv, ConsoleStepsInv, UartInv, LoopInv, TextStep DEF Next, IInv

-----------------------------------------------------------------------------
(* What follows for every behaviour. *)

(* The invariant holds in every reachable state. *)
THEOREM SleepInvariant == ASSUME Polite PROVE Spec => []IInv
<1>1. Init => IInv
  BY InitInv
<1>2. IInv /\ [Next]_vars => IInv'
  BY StepInv
<1>. QED
  BY <1>1, <1>2, PTL DEF Spec

(* sleep_cnt fits its byte, the buffer does not overflow, the interrupt    *)
(* does not take from an empty list, and every other variable of           *)
(* arch_sleep.c and arch_console.c keeps its type.                         *)
THEOREM TypeCorrect == ASSUME Polite PROVE Spec => []TypeOK
<1>1. IInv => TypeOK
  BY DEF IInv, CoreInv
<1>. QED
  BY <1>1, SleepInvariant, PTL

(* Neither the system nor the BLE core goes to sleep while the UART sends  *)
(* or anybody forced active mode: rwip_sleep tests sleep_enable, which     *)
(* SavedInv ties to the holders.                                           *)
THEOREM SleepsOnlyWhenFree == ASSUME Polite PROVE Spec => AwakeWhileHeld
<1>1. ASSUME IInv, [Next]_vars, FallsAsleep \/ BleFallsAsleep
      PROVE  ~sending /\ holding = {}
  <2>1. sleep_enable
    BY <1>1 DEF FallsAsleep, BleFallsAsleep, Next, AppCalls, CallSteps, ConsoleSteps,
       LoopSteps, vars, call_force, call_restore, arch_set_sleep_mode, call_set,
       arch_vprintf, load_cnt, store_cnt, finish_force, finish_restore, store_pend, submit,
       arch_printf_process, clear_defer, nothing_to_send, uart_callback, ble_is_off,
       app_asynch_proc, stay_awake, ble_to_sleep, arch_goto_sleep, arch_resume_from_sleep,
       ble_wakes
  <2>. QED
    BY <1>1, <2>1 DEF IInv, CoreInv, SavedInv, ConsoleInv
<1>2. IInv /\ [Next]_vars
        => [FallsAsleep \/ BleFallsAsleep => ~sending /\ holding = {}]_vars
  BY <1>1
<1>. QED
  BY <1>2, SleepInvariant, PTL DEF Spec, AwakeWhileHeld

(* A sleep loses no text of a callback of the scheduler, whether or not it *)
(* retains the buffer: only those printed after arch_printf_process.       *)
THEOREM HandlerTextsAreKept == ASSUME Polite PROVE Spec => []OnlyLateTextsAreLost
<1>1. IInv => OnlyLateTextsAreLost
  BY DEF IInv, TextInv, OnlyLateTextsAreLost
<1>. QED
  BY <1>1, SleepInvariant, PTL

(* A message in printf_msg_list is being sent or its sending is deferred,  *)
(* however the UART interrupt and the main loop interleave.                *)
THEOREM MessagesAreTakenCareOf == ASSUME Polite PROVE Spec => []NoMessageIsLeftBehind
<1>1. IInv => NoMessageIsLeftBehind
  BY DEF IInv, CoreInv, ConsoleInv, NoMessageIsLeftBehind
<1>. QED
  BY <1>1, SleepInvariant, PTL

(* When nobody holds active mode arch_sleep.c is as it was at the start: *)
(* nothing saved, nothing pending, nothing counted.                      *)
THEOREM AllReleased == ASSUME Polite PROVE Spec => []NothingPending
<1>1. IInv => NothingPending
  BY FS_EmptySet DEF IInv, CoreInv, SavedInv, CountInv, Counted, NothingPending
<1>. QED
  BY <1>1, SleepInvariant, PTL

-----------------------------------------------------------------------------
(* The sleep control implements SleepRequests. *)

(* Forcing active mode does not change what the application asked for. *)
LEMMA SaveModeKeeps ==
    ASSUME TypeOK, SavedInv, SaveMode, sleep_pend' = sleep_pend
    PROVE  Requested' = Requested
<1>. USE DEF SaveMode, Apply, Requested, Modes, NoPend
<1>1. CASE sleep_md = 0
  BY <1>1 DEF TypeOK, SavedInv
<1>2. CASE sleep_md # 0
  BY <1>2 DEF TypeOK
<1>. QED
  BY <1>1, <1>2

(* The last restore puts what the application asked for into effect. *)
LEMMA RestoreModeObeys ==
    ASSUME TypeOK, SavedInv, sleep_md # 0, RestoreMode
    PROVE  Requested' = Requested /\ slp_state' = Requested
<1>1. sleep_md' = 0 /\ sleep_pend' = NoPend
  BY DEF RestoreMode
<1>2. Requested = IF sleep_pend # NoPend THEN sleep_pend
                  ELSE IF sleep_md # 0 THEN sleep_md - 1 ELSE 0
  BY DEF Requested
<1>3. IF Requested = 0 THEN UNCHANGED <<slp_state, sleep_enable>> ELSE Apply(Requested)
  BY <1>2 DEF RestoreMode
<1>4. slp_state' = Requested
  <2>1. CASE Requested = 0
    BY <1>3, <2>1 DEF SavedInv, ARCH_SLEEP_OFF
  <2>2. CASE Requested # 0
    BY <1>3, <2>2 DEF Apply
  <2>. QED
    BY <2>1, <2>2
<1>5. Requested' = slp_state'
  BY <1>1 DEF Requested
<1>. QED
  BY <1>4, <1>5

(* Every step is a request, a hold or a release, or changes nothing that   *)
(* SleepRequests speaks of.                                                *)
LEMMA StepRefines ==
    ASSUME IInv, [Next]_vars
    PROVE  [Requests!Next]_<<Requested, holding, slp_state>>
<1>. USE DEF IInv, CoreInv
<1>1. ASSUME NEW m \in Modes, arch_set_sleep_mode(m)
      PROVE Requests!Request(m)
  <2>1. sleep_md = 0 /\ sleep_pend = NoPend /\ holding = {}
    BY <1>1 DEF arch_set_sleep_mode, SavedInv
  <2>2. slp_state' = m /\ sleep_md' = 0 /\ sleep_pend' = NoPend /\ holding' = holding
    BY <1>1, <2>1 DEF arch_set_sleep_mode, Apply
  <2>3. Requested' = m
    BY <2>2 DEF Requested
  <2>. QED
    BY ONLY <2>1, <2>2, <2>3 DEF Requests!Request
<1>2. ASSUME store_pend
      PROVE \E m \in Modes : Requests!Request(m)
  <2>1. op.mode \in Modes /\ holding # {}
    BY <1>2 DEF store_pend, TypeOK, Calls, CallInv
  <2>2. slp_state = ARCH_SLEEP_OFF
    BY <2>1 DEF SavedInv
  <2>3. sleep_pend' = op.mode /\ holding' = holding /\ slp_state' = slp_state
    BY <1>2 DEF store_pend
  <2>4. Requested' = op.mode
    BY <2>1, <2>3 DEF Requested, Modes, NoPend
  <2>. QED
    BY ONLY <2>1, <2>2, <2>3, <2>4 DEF Requests!Request
<1>3. ASSUME finish_force
      PROVE \E h \in Holders : Requests!Hold(h)
  <2>1. op.user \in Holders \ holding
    BY <1>3 DEF finish_force, Counting, TypeOK, Calls, CallInv, Holders
  <2>2. holding' = holding \cup {op.user} /\ sleep_pend' = sleep_pend /\ SaveMode
    BY <1>3 DEF finish_force
  <2>3. Requested' = Requested /\ slp_state' = ARCH_SLEEP_OFF
    BY <2>2, SaveModeKeeps, SaveModeFits
  <2>. QED
    BY ONLY <2>1, <2>2, <2>3 DEF Requests!Hold
<1>4. ASSUME arch_printf_process
      PROVE \E h \in Holders : Requests!Hold(h)
  <2>1. Console \in Holders \ holding
    BY <1>4 DEF arch_printf_process, ConsoleInv, Holders
  <2>2. holding' = holding \cup {Console} /\ sleep_pend' = sleep_pend /\ SaveMode
    BY <1>4 DEF arch_printf_process, arch_force_active_mode
  <2>3. Requested' = Requested /\ slp_state' = ARCH_SLEEP_OFF
    BY <2>2, SaveModeKeeps, SaveModeFits
  <2>. QED
    BY ONLY <2>1, <2>2, <2>3 DEF Requests!Hold
<1>5. ASSUME NEW h \in holding, holding' = holding \ {h},
             \/ holding' = {} /\ RestoreMode
             \/ holding' # {} /\ UNCHANGED <<slp_state, sleep_enable, sleep_md, sleep_pend>>
      PROVE \E k \in Holders : Requests!Release(k)
  <2>1. h \in Holders /\ sleep_md # 0
    BY <1>5 DEF TypeOK, SavedInv
  <2>2. CASE holding' = {} /\ RestoreMode
    <3>1. Requested' = Requested /\ slp_state' = Requested
      BY <2>1, <2>2, RestoreModeObeys
    <3>. QED
      BY ONLY <1>5, <2>1, <2>2, <3>1 DEF Requests!Release
  <2>3. CASE /\ holding' # {}
             /\ UNCHANGED <<slp_state, sleep_enable, sleep_md, sleep_pend>>
    <3>1. slp_state' = ARCH_SLEEP_OFF /\ Requested' = Requested
      BY <2>1, <2>3 DEF SavedInv, Requested
    <3>. QED
      BY ONLY <1>5, <2>1, <2>3, <3>1 DEF Requests!Release
  <2>. QED
    BY <1>5, <2>2, <2>3
<1>6. ASSUME finish_restore
      PROVE \E k \in Holders : Requests!Release(k)
  <2>1. op.user \in holding
    BY <1>6 DEF finish_restore, Counting, CallInv
  <2>2. holding' = holding \ {op.user} /\ (sleep_cnt = 0 <=> holding' = {})
    <3>1. Cardinality(holding) = 1 <=> holding \ {op.user} = {}
      <4>1. ASSUME NEW h \in holding
            PROVE  Cardinality(holding) = 1 <=> holding \ {h} = {}
        BY CountDown DEF TypeOK
      <4>. QED
        BY <2>1, <4>1
    <3>2. sleep_cnt = Cardinality(holding) - 1 /\ holding' = holding \ {op.user}
      BY <1>6 DEF finish_restore, Counting, CountInv, Counted
    <3>3. Cardinality(holding) \in Nat
      BY HoldersFinite, FS_Subset, FS_CardinalityType DEF TypeOK
    <3>. QED
      BY ONLY <3>1, <3>2, <3>3
  <2>3. IF sleep_cnt > 0
        THEN UNCHANGED <<slp_state, sleep_enable, sleep_md, sleep_pend>>
        ELSE RestoreMode
    BY <1>6, Zenon DEF finish_restore
  <2>4. sleep_cnt > 0 <=> sleep_cnt # 0
    BY DEF TypeOK, Cnt
  <2>. QED
    BY ONLY <2>1, <2>2, <2>3, <2>4, <1>5
<1>7. ASSUME uart_callback, ~(listed > 1)
      PROVE \E k \in Holders : Requests!Release(k)
  <2>1. Console \in holding /\ op = NoOp
    BY <1>7 DEF uart_callback, ConsoleInv, CallInv, ConsoleIdle, TypeOK
  <2>2. arch_restore_sleep_mode /\ holding' = holding \ {Console}
    BY <1>7, Zenon DEF uart_callback
  <2>3. sleep_cnt \in Nat \ {0} /\ (sleep_cnt = 1 <=> holding' = {})
    <3>1. /\ Cardinality(holding) \in Nat \ {0}
          /\ Cardinality(holding) = 1 <=> holding \ {Console} = {}
      BY <2>1, CountDown DEF TypeOK
    <3>2. sleep_cnt = Cardinality(holding)
      BY <2>1 DEF CountInv, Counted
    <3>. QED
      BY ONLY <2>2, <3>1, <3>2
  <2>4. \/ sleep_cnt = 1 /\ RestoreMode
        \/ /\ sleep_cnt # 1
           /\ UNCHANGED <<slp_state, sleep_enable, sleep_md, sleep_pend>>
    BY ONLY <2>2, <2>3 DEF arch_restore_sleep_mode
  <2>. QED
    BY ONLY <2>1, <2>2, <2>3, <2>4, <1>5
<1>8. UNCHANGED <<slp_state, sleep_md, sleep_pend, holding>>
        => UNCHANGED <<Requested, holding, slp_state>>
  BY DEF Requested
<1>. HIDE DEF IInv, CoreInv
<1>9. CASE AppCalls
  BY <1>1, <1>8, <1>9 DEF AppCalls, call_force, call_restore, call_set, arch_vprintf,
     sleepVars, Requests!Next
<1>10. CASE CallSteps
  BY <1>2, <1>3, <1>6, <1>8, <1>10 DEF CallSteps, load_cnt, store_cnt, sleepVars,
     Requests!Next
<1>11. CASE ConsoleSteps
  BY <1>4, <1>8, <1>11 DEF ConsoleSteps, submit, clear_defer, nothing_to_send, sleepVars,
     Requests!Next
<1>12. CASE uart_callback
  <2>1. CASE listed > 1
    <3>1. UNCHANGED sleepVars
      BY <1>12, <2>1, Zenon DEF uart_callback
    <3>. QED
      BY <1>8, <3>1 DEF sleepVars
  <2>. QED
    BY <1>7, <1>12, <2>1 DEF Requests!Next
<1>13. CASE LoopSteps \/ ble_wakes \/ UNCHANGED vars
  BY <1>8, <1>13 DEF LoopSteps, ble_is_off, app_asynch_proc, stay_awake, ble_to_sleep,
     arch_goto_sleep, arch_resume_from_sleep, ble_wakes, vars, sleepVars
<1>. QED
  BY <1>9, <1>10, <1>11, <1>12, <1>13 DEF Next

(* The mode in effect is the one the application asked for last, but off   *)
(* while anybody forces active mode (arch_sleep.c refines SleepRequests).  *)
THEOREM Refinement == ASSUME Polite PROVE Spec => ModeIsTheOneAskedFor
<1>1. Init => Requests!Init
  BY DEF Init, Requests!Init, Requested, Modes, NoPend
<1>2. IInv /\ [Next]_vars => [Requests!Next]_<<Requested, holding, slp_state>>
  BY StepRefines
<1>. QED
  BY <1>1, <1>2, SleepInvariant, PTL DEF Spec, ModeIsTheOneAskedFor, Requests!Spec
=============================================================================
