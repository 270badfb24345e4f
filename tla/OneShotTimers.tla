---------------------------- MODULE OneShotTimers ----------------------------
(***************************************************************************)
(* What the easy timers promise to the application: a handle carries at    *)
(* most one request; the callback of a request runs once, not before the   *)
(* delay last asked for, and never after the request was canceled.         *)
(***************************************************************************)
EXTENDS Integers

CONSTANTS Handles, Callbacks, MaxDelay, NoTimer, NULL

VARIABLES
    live,    \* handle -> NoTimer or the request [fn, due]
    calls    \* handle -> the callback it ran last and the parity of its runs

Init ==
    /\ live = [h \in Handles |-> NoTimer]
    /\ calls = [h \in Handles |-> [fn |-> NULL, odd |-> FALSE]]

Start(h, d, fn) ==
    /\ live[h] = NoTimer
    /\ live' = [live EXCEPT ![h] = [fn |-> fn, due |-> d]]
    /\ UNCHANGED calls

Modify(h, d) ==
    /\ live[h] # NoTimer
    /\ live' = [live EXCEPT ![h] = [fn |-> live[h].fn, due |-> d]]
    /\ UNCHANGED calls

Cancel(H) ==
    /\ live' = [h \in Handles |-> IF h \in H THEN NoTimer ELSE live[h]]
    /\ UNCHANGED calls

(* The only way to run a callback: it is asked for and its delay is over. *)
Fire(h) ==
    /\ live[h] # NoTimer
    /\ live[h].due = 0
    /\ live' = [live EXCEPT ![h] = NoTimer]
    /\ calls' = [calls EXCEPT ![h] = [fn |-> live[h].fn, odd |-> ~calls[h].odd]]

Down(n) == IF n = 0 THEN 0 ELSE n - 1

Elapse ==
    /\ live' = [h \in Handles |->
                   IF live[h] = NoTimer THEN NoTimer
                   ELSE [fn |-> live[h].fn, due |-> Down(live[h].due)]]
    /\ UNCHANGED calls

Next ==
    \/ \E h \in Handles, d \in 1..MaxDelay, fn \in Callbacks : Start(h, d, fn)
    \/ \E h \in Handles, d \in 1..MaxDelay : Modify(h, d)
    \/ \E H \in SUBSET Handles : Cancel(H)
    \/ \E h \in Handles : Fire(h)
    \/ Elapse

Spec == Init /\ [][Next]_<<live, calls>>
=============================================================================
