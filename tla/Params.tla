------------------------------- MODULE Params -------------------------------
(***************************************************************************)
(* The parameter protocol of GCS.cpp: the onboard parameters, the thread   *)
(* that lists them to the ground station (MavlinkParamlistThread), and     *)
(* what ThreadRadio does with a complete message.                          *)
(*                                                                         *)
(* ThreadRadio has the higher priority: it runs between any two steps of   *)
(* the list thread, which runs only while ThreadRadio waits for a message  *)
(* or for room in sdWrite.  A frame is taken as a whole; what sdWrite does *)
(* to its bytes is the subject of Serial.                                  *)
(*                                                                         *)
(* Definitions named Bad... are plausible mistakes in the definition that  *)
(* follows them; no behaviour uses them.                                   *)
(***************************************************************************)
EXTENDS Naturals

CONSTANTS
    ONBOARD_PARAM_COUNT,
    Value,          \* values of a parameter
    Unknown,        \* what the ground station holds before it is told a value
    Command,        \* the messages it sends, of "list", "set", "load", "save"
    MaxMessages     \* bound on their number

Index == 0..(ONBOARD_PARAM_COUNT - 1)
Frame == [name : Index, value : Value, index : 0..ONBOARD_PARAM_COUNT]

ASSUME ParamsAssumption ==
    /\ ONBOARD_PARAM_COUNT \in Nat \ {0}
    /\ MaxMessages \in Nat
    /\ Unknown \notin Value

VARIABLES
    param,              \* global_data.param
    stored,             \* the parameters in the EEPROM
    m_parameter_i,      \* the parameter to be listed next
    listAt,             \* where the list thread is
    listFrame,          \* the frame it has packed
    register,           \* m_parameter_i, loaded to be incremented
    radioAt,            \* where ThreadRadio is
    ackFrame,           \* the frame it has packed
    request_new_sd_log,
    messages,           \* messages received, up to the bound
    view,               \* the last value of each parameter sent to the ground
    announced,          \* parameters sent since the last request for a list
    undisturbed,        \* whether that request met the list thread asleep
    hasty,              \* a message came while an answer was under way
    reloaded            \* parameters loaded, and not sent to the ground since

list == <<listAt, listFrame, register>>
radio == <<radioAt, ackFrame>>
told == <<view, announced, undisturbed, reloaded>>
ground == <<told, hasty>>
vars == <<param, stored, m_parameter_i, list, radio, request_new_sd_log,
          messages, ground>>

\* After global_data_reset_param_defaults; a first list is sent unasked.
Init ==
    /\ param \in [Index -> Value]
    /\ stored \in [Index -> Value]
    /\ m_parameter_i = 0
    /\ listAt = "asleep"
    /\ listFrame \in [name : {0}, value : Value, index : {0}]
    /\ register = 0
    /\ radioAt = "wait"
    /\ ackFrame = listFrame
    /\ request_new_sd_log = FALSE
    /\ messages = 0
    /\ view = [k \in Index |-> Unknown]
    /\ announced = {}
    /\ undisturbed = TRUE
    /\ hasty = FALSE
    /\ reloaded = {}

-----------------------------------------------------------------------------
(* MavlinkParamlistThread: communication_queued_send every 3 ms.           *)

\* The list is not at its end: the next parameter is packed.
More == m_parameter_i < ONBOARD_PARAM_COUNT

PackNext ==
    /\ listAt = "asleep"
    /\ More
    /\ listFrame' = [name |-> m_parameter_i, value |-> param[m_parameter_i],
                     index |-> m_parameter_i]
    /\ listAt' = "write"
    /\ UNCHANGED <<param, stored, m_parameter_i, register, radio,
                   request_new_sd_log, messages, ground>>

\* A frame goes to the ground station, which goes by the name in it.
Announce(frame) ==
    /\ view' = [view EXCEPT ![frame.name] = frame.value]
    /\ announced' = announced \cup {frame.name}
    /\ reloaded' = reloaded \ {frame.name}
    /\ UNCHANGED <<undisturbed, hasty>>

WriteNext ==
    /\ listAt = "write"
    /\ Announce(listFrame)
    /\ listAt' = "load"
    /\ UNCHANGED <<param, stored, m_parameter_i, listFrame, register, radio,
                   request_new_sd_log, messages>>

\* m_parameter_i++, in two instructions.
LoadIndex ==
    /\ listAt = "load"
    /\ register' = m_parameter_i
    /\ listAt' = "store"
    /\ UNCHANGED <<param, stored, m_parameter_i, listFrame, radio,
                   request_new_sd_log, messages, ground>>

BadStoreIndex ==
    /\ listAt = "store"
    /\ m_parameter_i' = register + 2
    /\ listAt' = "asleep"
    /\ UNCHANGED <<param, stored, listFrame, register, radio,
                   request_new_sd_log, messages, ground>>
StoreIndex ==
    /\ listAt = "store"
    /\ m_parameter_i' = register + 1
    /\ listAt' = "asleep"
    /\ UNCHANGED <<param, stored, listFrame, register, radio,
                   request_new_sd_log, messages, ground>>

-----------------------------------------------------------------------------
(* ThreadRadio, with a message parsed.                                     *)

Quiet == listAt = "asleep" /\ ~More

Receive(command) ==
    /\ radioAt = "wait"
    /\ command \in Command
    /\ messages < MaxMessages
    /\ messages' = messages + 1
    /\ hasty' = (hasty \/ ~Quiet)

\* PARAM_REQUEST_LIST: "Start sending parameters".
BadRequestList ==
    /\ Receive("list")
    /\ m_parameter_i' = 1
    /\ announced' = {}
    /\ undisturbed' = (listAt = "asleep")
    /\ UNCHANGED <<param, stored, list, radio, request_new_sd_log, view,
                   reloaded>>
RequestList ==
    /\ Receive("list")
    /\ m_parameter_i' = 0
    /\ announced' = {}
    /\ undisturbed' = (listAt = "asleep")
    /\ UNCHANGED <<param, stored, list, radio, request_new_sd_log, view,
                   reloaded>>

\* The answer to PARAM_SET: it has the name and the value of the parameter
\* set, and the number of the one to be listed next.
BadAck(k) == [name |-> k, value |-> param[k], index |-> m_parameter_i]
Ack(k) == [name |-> k, value |-> param'[k], index |-> m_parameter_i]

\* PARAM_SET with the name of a parameter; other names are ignored.
SetParam(k, v) ==
    /\ Receive("set")
    /\ param' = [param EXCEPT ![k] = v]
    /\ ackFrame' = Ack(k)
    /\ radioAt' = "write"
    /\ UNCHANGED <<stored, m_parameter_i, list, request_new_sd_log, told>>

\* sdWrite comes back, and a new log is asked for.
WriteAck ==
    /\ radioAt = "write"
    /\ Announce(ackFrame)
    /\ request_new_sd_log' = TRUE
    /\ radioAt' = "wait"
    /\ UNCHANGED <<param, stored, m_parameter_i, list, ackFrame, messages>>

\* MAV_CMD_PREFLIGHT_STORAGE: the floats are read back, or written, all of
\* them in turn; nothing is announced.
read_param_from_eeprom ==
    /\ Receive("load")
    /\ param' = stored
    /\ reloaded' = Index
    /\ UNCHANGED <<stored, m_parameter_i, list, radio, request_new_sd_log,
                   view, announced, undisturbed>>
write_param_to_eeprom ==
    /\ Receive("save")
    /\ stored' = param
    /\ UNCHANGED <<param, m_parameter_i, list, radio, request_new_sd_log,
                   told>>

Next ==
    \/ PackNext \/ WriteNext \/ LoadIndex \/ StoreIndex
    \/ RequestList \/ WriteAck
    \/ \E k \in Index, v \in Value : SetParam(k, v)
    \/ read_param_from_eeprom \/ write_param_to_eeprom

Spec == Init /\ [][Next]_vars

\* Both threads get to run; the ground station owes nothing.
FairSpec ==
    /\ Spec
    /\ WF_vars(PackNext) /\ WF_vars(WriteNext)
    /\ WF_vars(LoadIndex) /\ WF_vars(StoreIndex) /\ WF_vars(WriteAck)

-----------------------------------------------------------------------------
(* Properties.                                                             *)

\* In particular m_parameter_i never passes the count, whenever it is reset:
\* no name and no value is read behind the end of its array.
TypeOK ==
    /\ param \in [Index -> Value]
    /\ stored \in [Index -> Value]
    /\ m_parameter_i \in 0..ONBOARD_PARAM_COUNT
    /\ listAt \in {"asleep", "write", "load", "store"}
    /\ listFrame \in Frame
    /\ register \in Index
    /\ radioAt \in {"wait", "write"}
    /\ ackFrame \in Frame
    /\ request_new_sd_log \in BOOLEAN
    /\ messages \in 0..MaxMessages
    /\ view \in [Index -> Value \cup {Unknown}]
    /\ announced \subseteq Index
    /\ undisturbed \in BOOLEAN
    /\ hasty \in BOOLEAN
    /\ reloaded \subseteq Index

\* A ground station that waits for each answer before it sends the next
\* message holds, when nothing is under way, the values in use: of every
\* parameter it was told of since it had the parameters loaded.
ViewCurrent ==
    Quiet /\ radioAt = "wait" /\ ~hasty =>
        \A k \in Index \ reloaded : view[k] \in {param[k], Unknown}

\* A request for a list (GCS.cpp:456: "Start sending parameters") is answered by
\* every parameter, unless another request follows or it meets the list thread
\* between packing a frame and storing the next number: then the increment works
\* on a number from before the request, and the list starts late or not at all.
UndisturbedListComplete ==
    [](announced = {} /\ undisturbed => <>(announced = Index \/ ~undisturbed))
=============================================================================
