------------------------------ MODULE EasyMsg ------------------------------
(***************************************************************************)
(* Callbacks bound to messages of the application task and the wake-up     *)
(* message (app_easy_msg_utils.c).  An interrupt handler may bind a        *)
(* callback and send the message while the task is inside one of them.     *)
(***************************************************************************)
EXTENDS Integers, FiniteSets

CONSTANTS
    NumMessages,   \* APP_MSG_UTIL_MAX_NUM
    NULL           \* no callback

ASSUME MessagesAssumption == NumMessages \in Nat \ {0}

VARIABLES
    msg_util_callbacks,   \* message -> its callback or NULL
    wakeup_id             \* the message bound to the wake-up, or 0

msgVars == <<msg_util_callbacks, wakeup_id>>

Messages == 1..NumMessages
NoMessage == 65535                       \* app_easy_msg_set's 0xFFFF

MsgInit == msg_util_callbacks = [m \in Messages |-> NULL] /\ wakeup_id = 0

FreeMessages == {m \in Messages : msg_util_callbacks[m] = NULL}
FirstFree == CHOOSE m \in FreeMessages : \A n \in FreeMessages : m <= n

(* Take a message for fn, or rebind the one taken before.                  *)
app_easy_wakeup_set(fn) ==
    /\ wakeup_id' = IF wakeup_id # 0 THEN wakeup_id
                    ELSE IF FreeMessages = {} THEN NoMessage ELSE FirstFree
    /\ msg_util_callbacks' = IF wakeup_id' \in Messages
                             THEN [msg_util_callbacks EXCEPT ![wakeup_id'] = fn]
                             ELSE msg_util_callbacks

(* The messages that app_easy_wakeup sends: none before a callback is set. *)
app_easy_wakeup == IF wakeup_id = 0 THEN <<>> ELSE <<[kind |-> "msg", id |-> wakeup_id]>>

(* A message frees its entry before it runs the callback.                  *)
FreeEntry(m) ==
    /\ msg_util_callbacks' = [msg_util_callbacks EXCEPT ![m] = NULL]
    /\ UNCHANGED wakeup_id
=============================================================================
