---------------------------- MODULE Kalibrierung ----------------------------
(***************************************************************************)
(* The calibration of the remote control (Quad/Fernsteuerung.cpp): the     *)
(* interrupts of its channels record the range of the pulse widths while   *)
(* a calibration is on; ThreadRadio, on a command of the ground station,   *)
(* and the interrupt of the user button start and end it; whoever ends it  *)
(* writes the table cal_val to the EEPROM, value by value, the flag        *)
(* calibration_ready_flag last; setup_Fernsteuerung reads it at boot.      *)
(*                                                                         *)
(* Interrupts preempt the threads between any two of their accesses to     *)
(* shared variables.  They have one priority and do not preempt each       *)
(* other.  Power may be lost at any time.  EE_WriteVariable and            *)
(* EE_ReadVariable are single steps that succeed (module Eeprom has their  *)
(* inside).  The measurement of a pulse by timer 4 is left out: a width    *)
(* RC_IN_RANGE admits is given.                                            *)
(*                                                                         *)
(* Definitions named Bad... are plausible mistakes in the definition that  *)
(* follows them; no behaviour uses them.                                   *)
(***************************************************************************)
EXTENDS Naturals, FiniteSets

CONSTANTS
    Bipolar,        \* channels with a neutral position inside the range
    Unipolar,       \* the throttle: its neutral position is the least
    Width,          \* pulse widths that RC_IN_RANGE admits
    Table,          \* order of the values in cal_val, the flag left out
    NotFound,       \* EE_ReadVariable did not find the variable
    MaxStarts,      \* bound on the calibrations started
    MaxPowerLosses  \* bound on the power losses

Channel == Bipolar \cup Unipolar
Key == (Bipolar \X {"max", "min", "null"}) \cup (Unipolar \X {"max", "null"})
\* The index of calibration_ready_flag in cal_val, behind all other values.
FlagIdx == Cardinality(Key)

ASSUME KalibrierungAssumption ==
    /\ IsFiniteSet(Channel) /\ Bipolar \cap Unipolar = {}
    /\ Width \subseteq Nat
    /\ FlagIdx \in Nat
    /\ Table \in [0..(FlagIdx - 1) -> Key]
    /\ \A k \in Key : \E i \in 0..(FlagIdx - 1) : Table[i] = k
    /\ NotFound \notin [width : Nat, visit : Nat]
    /\ MaxStarts \in Nat /\ MaxPowerLosses \in Nat

VARIABLES
    phase,              \* "setup", setup_Fernsteuerung's "load" loop, or "on"
    loadIdx,            \* its loop counter
    cal_val,            \* per value, its width and the visit it comes from
    ready,              \* cal_val[index_calibration_ready_flag]
    first_visit,        \* the channel's next pulse is its first
    calibration_active,
    on_off,             \* calib_interrupt started the last calibration
    timer_finish,       \* the button is not debounced at the moment
    radio,              \* where ThreadRadio is: start_calib or stop_calib
    toReset,            \* first_visit flags start_calib has yet to set
    radioIdx,           \* loop counter of stop_calib
    isr,                \* whether calib_interrupt is in its loop
    isrIdx,             \* loop counter of calib_interrupt
    stored,             \* the values in the EEPROM
    storedReady,        \* the flag in the EEPROM is 1
    visits,             \* history: how many first visits a channel had
    starts,             \* history: bounded by MaxStarts
    powerLosses         \* history: bounded by MaxPowerLosses

boot == <<phase, loadIdx>>
table == <<cal_val, ready, first_visit>>
button == <<on_off, timer_finish, isr, isrIdx>>
thread == <<radio, toReset, radioIdx>>
eeprom == <<stored, storedReady>>
history == <<visits, starts, powerLosses>>
vars == <<boot, table, calibration_active, button, thread, eeprom, history>>

\* A width, and the number of the first visit since which it was collected;
\* 0 for what the table holds before any.
Entry == [width : Width \cup {0}, visit : Nat]
Zero == [width |-> 0, visit |-> 0]

TypeOK ==
    /\ phase \in {"setup", "load", "on"}
    /\ loadIdx \in 0..FlagIdx
    /\ cal_val \in [Key -> Entry]
    /\ ready \in BOOLEAN
    /\ first_visit \in [Channel -> BOOLEAN]
    /\ calibration_active \in BOOLEAN
    /\ on_off \in BOOLEAN /\ timer_finish \in BOOLEAN
    /\ radio \in {"idle", "start", "stop", "store"}
    /\ toReset \subseteq Channel
    /\ radioIdx \in 0..FlagIdx
    /\ isr \in BOOLEAN
    /\ isrIdx \in 0..FlagIdx
    /\ stored \in [Key -> Entry \cup {NotFound}]
    /\ storedReady \in BOOLEAN
    /\ visits \in [Channel -> Nat]
    /\ starts \in 0..MaxStarts
    /\ powerLosses \in 0..MaxPowerLosses

\* The static variables as the C start-up code sets them.
ResetRam ==
    /\ loadIdx' = 0
    /\ cal_val' = [k \in Key |-> Zero]
    /\ ready' = FALSE
    /\ first_visit' = [c \in Channel |-> TRUE]
    /\ calibration_active' = FALSE
    /\ on_off' = FALSE /\ timer_finish' = TRUE
    /\ isr' = FALSE /\ isrIdx' = 0
    /\ radio' = "idle" /\ toReset' = {} /\ radioIdx' = 0

Init ==
    /\ phase = "setup" /\ loadIdx = 0
    /\ cal_val = [k \in Key |-> Zero]
    /\ ready = FALSE
    /\ first_visit = [c \in Channel |-> TRUE]
    /\ calibration_active = FALSE
    /\ on_off = FALSE /\ timer_finish = TRUE
    /\ isr = FALSE /\ isrIdx = 0
    /\ radio = "idle" /\ toReset = {} /\ radioIdx = 0
    /\ stored = [k \in Key |-> NotFound]
    /\ storedReady = FALSE
    /\ visits = [c \in Channel |-> 0]
    /\ starts = 0 /\ powerLosses = 0

\* Threads and the other interrupts run while calib_interrupt does not.
Running == ~isr

-----------------------------------------------------------------------------
(* Power, and setup_Fernsteuerung.                                         *)

\* main calls it with the interrupts and ThreadRadio at work already.  The
\* table is read only if the flag was stored as 1.
setup_Fernsteuerung ==
    /\ Running /\ phase = "setup"
    /\ phase' = IF storedReady THEN "load" ELSE "on"
    /\ UNCHANGED <<loadIdx, table, calibration_active, button, thread, eeprom,
                   history>>

\* A variable that is not found leaves its place in cal_val alone.
Load ==
    /\ Running /\ phase = "load"
    /\ IF loadIdx < FlagIdx
       THEN /\ cal_val' = IF stored[Table[loadIdx]] = NotFound THEN cal_val
                          ELSE [cal_val EXCEPT ![Table[loadIdx]] =
                                  stored[Table[loadIdx]]]
            /\ loadIdx' = loadIdx + 1
            /\ UNCHANGED <<phase, ready>>
       ELSE /\ ready' = (ready \/ storedReady)
            /\ phase' = "on"
            /\ loadIdx' = 0
            /\ UNCHANGED cal_val
    /\ UNCHANGED <<first_visit, calibration_active, button, thread, eeprom,
                   history>>

\* Power is lost and comes back.
PowerLoss ==
    /\ powerLosses < MaxPowerLosses
    /\ powerLosses' = powerLosses + 1
    /\ phase' = "setup"
    /\ ResetRam
    /\ UNCHANGED <<eeprom, visits, starts>>

-----------------------------------------------------------------------------
(* rx_channel1_interrupt to rx_channel4_interrupt.                         *)

\* The first visit sets the whole range to the width at hand.
FirstVisit(c, w) ==
    /\ first_visit[c]
    /\ first_visit' = [first_visit EXCEPT ![c] = FALSE]
    /\ visits' = [visits EXCEPT ![c] = @ + 1]
    /\ cal_val' = [k \in Key |->
                     IF k[1] = c
                     THEN [width |-> w, visit |-> visits[c] + 1]
                     ELSE cal_val[k]]

\* Minimum and maximum are taken for each other.
BadWidened(k, w) ==
    [cal_val[k] EXCEPT !.width =
        IF k[2] = "max" THEN IF w < @ THEN w ELSE @
        ELSE IF k[2] = "min" \/ k[1] \in Unipolar
             THEN IF w > @ THEN w ELSE @
             ELSE @]

\* Later ones widen it; the throttle has its neutral position at its least.
Widened(k, w) ==
    [cal_val[k] EXCEPT !.width =
        IF k[2] = "max" THEN IF w > @ THEN w ELSE @
        ELSE IF k[2] = "min" \/ k[1] \in Unipolar
             THEN IF w < @ THEN w ELSE @
             ELSE @]

Revisit(c, w) ==
    /\ ~first_visit[c]
    /\ cal_val' = [k \in Key |-> IF k[1] = c THEN Widened(k, w)
                                             ELSE cal_val[k]]
    /\ UNCHANGED <<first_visit, visits>>

\* Timer 4 stands still until setup_Fernsteuerung starts it.
rx_channel_interrupt(c, w) ==
    /\ Running /\ phase # "setup"
    /\ calibration_active
    /\ FirstVisit(c, w) \/ Revisit(c, w)
    /\ UNCHANGED <<boot, ready, calibration_active, button, thread, eeprom,
                   starts, powerLosses>>

-----------------------------------------------------------------------------
(* Storing: the loops at the end of stop_calib and of calib_interrupt.     *)

\* The flag is the first value of cal_val.
BadEE_WriteVariable(i) ==
    IF i > 0
    THEN /\ stored' = [stored EXCEPT ![Table[i - 1]] = cal_val[Table[i - 1]]]
         /\ UNCHANGED storedReady
    ELSE /\ storedReady' = ready
         /\ UNCHANGED stored

\* Value number i of cal_val is written, the flag last.
EE_WriteVariable(i) ==
    IF i < FlagIdx
    THEN /\ stored' = [stored EXCEPT ![Table[i]] = cal_val[Table[i]]]
         /\ UNCHANGED storedReady
    ELSE /\ storedReady' = ready
         /\ UNCHANGED stored

-----------------------------------------------------------------------------
(* ThreadRadio: start_calib and stop_calib.                                *)

\* start_calib: calibration_active first, then the flags one by one.
start_calib ==
    /\ Running /\ radio = "idle"
    /\ starts < MaxStarts
    /\ starts' = starts + 1
    /\ calibration_active' = TRUE
    /\ radio' = "start"
    /\ toReset' = Channel
    /\ UNCHANGED <<boot, table, button, radioIdx, eeprom, visits, powerLosses>>

SetFirstVisit(c) ==
    /\ Running /\ radio = "start"
    /\ c \in toReset
    /\ first_visit' = [first_visit EXCEPT ![c] = TRUE]
    /\ toReset' = toReset \ {c}
    /\ radio' = IF toReset = {c} THEN "idle" ELSE "start"
    /\ UNCHANGED <<boot, cal_val, ready, calibration_active, button, radioIdx,
                   eeprom, history>>

\* stop_calib does nothing unless a calibration is on when it looks.
stop_calib ==
    /\ Running /\ radio = "idle"
    /\ calibration_active
    /\ radio' = "stop"
    /\ UNCHANGED <<boot, table, calibration_active, button, toReset, radioIdx,
                   eeprom, history>>

EndCalibration ==
    /\ Running /\ radio = "stop"
    /\ calibration_active' = FALSE
    /\ ready' = TRUE
    /\ radio' = "store"
    /\ UNCHANGED <<boot, cal_val, first_visit, button, toReset, radioIdx,
                   eeprom, history>>

\* The loop goes on while i <= number_flash_cal.
BadRadioStore ==
    /\ Running /\ radio = "store"
    /\ EE_WriteVariable(radioIdx)
    /\ IF radioIdx > FlagIdx
       THEN radio' = "idle" /\ radioIdx' = 0
       ELSE radioIdx' = radioIdx + 1 /\ UNCHANGED radio
    /\ UNCHANGED <<boot, table, calibration_active, button, toReset, history>>

RadioStore ==
    /\ Running /\ radio = "store"
    /\ EE_WriteVariable(radioIdx)
    /\ IF radioIdx = FlagIdx
       THEN radio' = "idle" /\ radioIdx' = 0
       ELSE radioIdx' = radioIdx + 1 /\ UNCHANGED radio
    /\ UNCHANGED <<boot, table, calibration_active, button, toReset, history>>

-----------------------------------------------------------------------------
(* calib_interrupt and timer_handler.                                      *)

ButtonStarts ==
    /\ Running
    /\ timer_finish /\ ~on_off
    /\ starts < MaxStarts
    /\ starts' = starts + 1
    /\ calibration_active' = TRUE
    /\ first_visit' = [c \in Channel |-> TRUE]
    /\ on_off' = TRUE
    /\ timer_finish' = FALSE
    /\ UNCHANGED <<boot, cal_val, ready, isr, isrIdx, thread, eeprom, visits,
                   powerLosses>>

\* The button leaves the storing to stop_calib.
BadButtonEnds ==
    /\ Running
    /\ timer_finish /\ on_off
    /\ calibration_active' = FALSE
    /\ ready' = TRUE
    /\ on_off' = FALSE
    /\ timer_finish' = FALSE
    /\ UNCHANGED <<boot, cal_val, first_visit, isr, isrIdx, thread, eeprom,
                   history>>

\* Whether or not the calibration is still on.
ButtonEnds ==
    /\ Running
    /\ timer_finish /\ on_off
    /\ calibration_active' = FALSE
    /\ ready' = TRUE
    /\ isr' = TRUE
    /\ UNCHANGED <<boot, cal_val, first_visit, on_off, timer_finish, isrIdx,
                   thread, eeprom, history>>

IsrStore ==
    /\ isr
    /\ EE_WriteVariable(isrIdx)
    /\ IF isrIdx = FlagIdx
       THEN /\ isr' = FALSE /\ on_off' = FALSE /\ timer_finish' = FALSE
            /\ isrIdx' = 0
       ELSE /\ isrIdx' = isrIdx + 1
            /\ UNCHANGED <<isr, on_off, timer_finish>>
    /\ UNCHANGED <<boot, table, calibration_active, thread, history>>

\* 700 ms after the press.
timer_handler ==
    /\ Running
    /\ ~timer_finish
    /\ timer_finish' = TRUE
    /\ UNCHANGED <<boot, table, calibration_active, on_off, isr, isrIdx,
                   thread, eeprom, history>>

-----------------------------------------------------------------------------
Next ==
    \/ setup_Fernsteuerung \/ Load \/ PowerLoss
    \/ \E c \in Channel, w \in Width : rx_channel_interrupt(c, w)
    \/ start_calib \/ \E c \in Channel : SetFirstVisit(c)
    \/ stop_calib \/ EndCalibration \/ RadioStore
    \/ ButtonStarts \/ ButtonEnds \/ IsrStore \/ timer_handler

Spec == Init /\ [][Next]_vars

-----------------------------------------------------------------------------
(* Properties.                                                             *)

Keys(c) == {k \in Key : k[1] = c}

\* The values of channel c in f were collected since the same first visit.
OneCalibration(f, c) ==
    /\ \A k \in Keys(c) : f[k] # NotFound
    /\ \A k \in Keys(c) : f[k].visit = f[<<c, "null">>].visit

InOrder(f, c) ==
    /\ f[<<c, "null">>].width <= f[<<c, "max">>].width
    /\ c \in Bipolar => f[<<c, "min">>].width <= f[<<c, "null">>].width

\* The range of a channel contains its neutral position, in memory and in the
\* EEPROM, as get_euler_nick_soll and the others need it to give set values of
\* the right sign, however RC pulses, commands, the button, the loops that
\* store and load, and power losses fall between each other, unless its values
\* stem from two calibrations, of which a power loss stored one only in part.
RangesInOrder ==
    \A c \in Channel :
        /\ OneCalibration(cal_val, c) => InOrder(cal_val, c)
        /\ OneCalibration(stored, c) => InOrder(stored, c)

\* The flag in the EEPROM is a commit mark: when setup_Fernsteuerung finds it,
\* it finds all values, although stop_calib and calib_interrupt may preempt
\* each other in the middle of storing and power may be lost there.
FlagCommits == storedReady => \A k \in Key : stored[k] # NotFound

\* Nobody is in the middle of a calibration or of storing or loading one.
Quiet ==
    phase = "on" /\ radio = "idle" /\ ~isr /\ ~calibration_active

\* A calibration that is in use is the one the next boot will read.
SavedWhenQuiet == Quiet /\ ready => storedReady /\ stored = cal_val
=============================================================================
