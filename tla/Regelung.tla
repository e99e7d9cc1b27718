------------------------------ MODULE Regelung ------------------------------
(***************************************************************************)
(* The controller (Quad/Regelung.cpp): every 10 ms Regelungsthread reads   *)
(* the set values the remote control gives (Quad/Fernsteuerung.cpp), runs  *)
(* the control law and sets the motors (Quad/Motoren.cpp), then sleeps     *)
(* until its deadline.                                                     *)
(*                                                                         *)
(* Regelungsthread has the highest priority: only interrupts come between  *)
(* its steps, the system tick among them, but they may come between any    *)
(* two.  Of the calibration this module has what the controller sees of    *)
(* it; its inside, and the EEPROM, are in Kalibrierung.                    *)
(*                                                                         *)
(* Of a floating-point value the model keeps whether it is a finite        *)
(* number.  Parameters and attitude are finite, so the output of the       *)
(* control law is finite as long as the filtered set values are.  The yaw  *)
(* axis has no set value from the remote control.  The clock does not      *)
(* wrap, which takes 49 days; the deadline is kept relative to it.         *)
(*                                                                         *)
(* Definitions named Bad... are plausible mistakes in the definition that  *)
(* follows them; no behaviour uses them.                                   *)
(***************************************************************************)
EXTENDS Integers

CONSTANTS
    Angle,          \* the channels of nick and roll
    Schub,          \* the channel of the throttle
    Width,          \* pulse widths that RC_IN_RANGE admits
    Period,         \* delta_t, in ticks
    MaxRun,         \* bound: ticks from waking to the comparison, and on
    MaxLate         \* bound: ticks the controller gets behind its deadline

Channel == Angle \cup {Schub}

ASSUME RegelungAssumption ==
    /\ Schub \notin Angle
    /\ Width \subseteq Nat
    /\ Period \in Nat /\ Period > 0
    /\ MaxRun \in Nat /\ MaxLate \in Nat

\* Ticks after which a change of the throttle has reached the motors.
Reaction == (IF Period > MaxRun THEN Period ELSE MaxRun) + MaxRun

VARIABLES
    rc,                 \* RC_INPUT_CHANNELS
    cal_val,            \* per channel, the null, min and max in use
    first_visit,
    calibration_active,
    ready,              \* cal_val[index_calibration_ready_flag]
    pc,                 \* what Regelungsthread does next
    todo,               \* angles Regelung has yet to read
    channel,            \* the channel being read
    enabled,            \* the channel's getter found the calibration usable
    on,                 \* inSchub > 0.1 && inSchub <= 1
    finite,             \* the filtered set values that are finite numbers
    motors,             \* "off", "driven", or "undefined" widths
    left,               \* ticks left until time, negative when it is over
    run,                \* ticks since the thread woke up or compared
    idleFor,            \* history: ticks since which the motors are to be off
    stalled,            \* history: two ticks between comparison and sleep
    spoilt              \* history: see MotorsDefined

remote == <<rc, cal_val, first_visit, calibration_active, ready>>
control == <<todo, channel, enabled, on, finite, motors>>
clock == <<left, run, stalled>>
vars == <<remote, pc, control, clock, idleFor, spoilt>>

\* The throttle has no min of its own, its null is the least width.
Calibration == [null : Width \cup {0}, min : Width \cup {0},
                max : Width \cup {0}]

\* The set value of an angle is divided by one of these differences.
Flat(t) == t.max = t.null \/ t.null = t.min
Divisor(t, width) == IF width > t.null THEN t.max - t.null ELSE t.null - t.min

\* 0.1 < get_schub_soll() <= 1; a division by zero gives neither.
InRange(t, width) ==
    LET r == t.max - t.null
        d == width - t.null
    IN  r # 0 /\ 10 * d * r > r * r /\ d * r <= r * r

\* The condition of the four getters.
BadUsable == ready
Usable == ready /\ ~calibration_active

\* Neither pilot nor calibration asks for thrust.
Idle == ~(Usable /\ InRange(cal_val[Schub], rc[Schub]))

Zero == [null |-> 0, min |-> 0, max |-> 0]

\* setup_Fernsteuerung has read the table, which a loss of power may have left
\* as a mixture, and setup_Motoren has set the widths.
Init ==
    /\ rc \in [Channel -> Width]
    /\ \/ ready = FALSE /\ cal_val = [c \in Channel |-> Zero]
       \/ ready = TRUE /\ cal_val \in [Channel -> Calibration]
    /\ cal_val[Schub].min = cal_val[Schub].null
    /\ first_visit = [c \in Channel |-> TRUE]
    /\ calibration_active = FALSE
    /\ pc = "begin"
    /\ todo = {} /\ channel = Schub /\ enabled = FALSE /\ on = FALSE
    /\ finite = Angle
    /\ motors = "off"
    /\ left = 0 /\ run = 0
    /\ idleFor = 0 /\ stalled = FALSE
    /\ spoilt = (ready /\ \E c \in Angle : Flat(cal_val[c]))

-----------------------------------------------------------------------------
(* The remote control.                                                     *)

\* The table after a pulse while a calibration is on.
Collected(c, w) ==
    IF first_visit[c] THEN [null |-> w, min |-> w, max |-> w]
    ELSE LET t == cal_val[c]
             low == IF w < t.min THEN w ELSE t.min
         IN  [null |-> IF c = Schub THEN low ELSE t.null, min |-> low,
              max |-> IF w > t.max THEN w ELSE t.max]

\* The interrupt of a channel at the end of a pulse.  Pulses of a channel are
\* 20 ms apart: no second one comes while a getter is being evaluated.
Pulse(c, w) ==
    /\ pc = "use" /\ enabled /\ calibration_active => first_visit[c]
    /\ rc' = [rc EXCEPT ![c] = w]
    /\ IF calibration_active
       THEN /\ cal_val' = [cal_val EXCEPT ![c] = Collected(c, w)]
            /\ first_visit' = [first_visit EXCEPT ![c] = FALSE]
       ELSE UNCHANGED <<cal_val, first_visit>>
    /\ UNCHANGED <<calibration_active, ready, pc, control, clock, spoilt>>
    /\ idleFor' = IF Idle' THEN idleFor ELSE 0

\* calib_interrupt, or start_calib of ThreadRadio.
StartCalib ==
    /\ calibration_active' = TRUE
    /\ first_visit' = [c \in Channel |-> TRUE]
    /\ spoilt' = (spoilt \/ (pc = "use" /\ enabled))
    /\ UNCHANGED <<rc, cal_val, ready, pc, control, clock, idleFor>>

StopCalib ==
    /\ calibration_active
    /\ calibration_active' = FALSE
    /\ ready' = TRUE
    /\ spoilt' = (spoilt \/ \E c \in Angle : Flat(cal_val[c]))
    /\ UNCHANGED <<rc, cal_val, first_visit, pc, control, clock>>
    /\ idleFor' = IF Idle' THEN idleFor ELSE 0

-----------------------------------------------------------------------------
(* Regelungsthread.                                                        *)

Begin ==
    /\ pc = "begin"
    /\ left' = left + Period
    /\ todo' = Angle /\ channel' = Schub
    /\ pc' = "ask"
    /\ UNCHANGED <<remote, enabled, on, finite, motors, run, idleFor, stalled,
                   spoilt>>

\* A getter looks at the flags ...
Ask ==
    /\ pc = "ask"
    /\ enabled' = Usable
    /\ pc' = "use"
    /\ UNCHANGED <<remote, todo, channel, on, finite, motors, clock, idleFor,
                   spoilt>>

\* ... and then at the table; without a calibration it gives 0.
UseSchub ==
    /\ pc = "use" /\ channel = Schub
    /\ on' = (enabled /\ InRange(cal_val[Schub], rc[Schub]))
    /\ UNCHANGED finite

\* 5 % of the new value and 95 % of the old one.
UseAngle ==
    /\ pc = "use" /\ channel \in Angle
    /\ finite' = IF enabled /\ Divisor(cal_val[channel], rc[channel]) = 0
                 THEN finite \ {channel} ELSE finite
    /\ UNCHANGED on

Use ==
    /\ UseSchub \/ UseAngle
    /\ \/ \E c \in todo : channel' = c /\ todo' = todo \ {c} /\ pc' = "ask"
       \/ todo = {} /\ pc' = "motors" /\ UNCHANGED <<channel, todo>>
    /\ UNCHANGED <<remote, enabled, motors, clock, idleFor, spoilt>>

\* The motors get no thrust when the throttle is low.
Widths == IF ~on THEN "off" ELSE IF finite = Angle THEN "driven" ELSE "undefined"

SetMotors ==
    /\ pc = "motors"
    /\ motors' = Widths
    /\ pc' = "compare"
    /\ UNCHANGED <<remote, todo, channel, enabled, on, finite, clock, idleFor,
                   spoilt>>

BadInTime == left >= 0
InTime == left > 0

Compare ==
    /\ pc = "compare"
    /\ pc' = IF InTime THEN "sleep" ELSE "begin"
    /\ run' = 0
    /\ UNCHANGED <<remote, control, left, idleFor, stalled, spoilt>>

\* The thread is not put to sleep.
BadSleepUntil ==
    /\ pc = "sleep"
    /\ pc' = "begin" /\ run' = 0 /\ stalled' = FALSE
    /\ UNCHANGED <<remote, control, left, idleFor, spoilt>>

\* chThdSleepUntil takes the difference as an unsigned number: a deadline that
\* has passed is almost 2^32 ticks away.
SleepUntil ==
    /\ pc = "sleep"
    /\ pc' = IF left > 0 THEN "asleep"
             ELSE IF left = 0 THEN "begin" ELSE "overslept"
    /\ stalled' = (run > 1)
    /\ run' = 0
    /\ UNCHANGED <<remote, control, left, idleFor, spoilt>>

\* The system tick, which also wakes the thread.
Tick ==
    /\ pc \notin {"asleep", "overslept"} => run < MaxRun /\ left > -MaxLate
    /\ left' = IF pc = "overslept" THEN left ELSE left - 1
    /\ run' = IF pc \in {"asleep", "overslept"} THEN 0 ELSE run + 1
    /\ pc' = IF pc = "asleep" /\ left = 1 THEN "begin" ELSE pc
    /\ idleFor' = IF Idle /\ idleFor <= Reaction THEN idleFor + 1 ELSE idleFor
    /\ UNCHANGED <<remote, control, stalled, spoilt>>

Regelungsthread ==
    Begin \/ Ask \/ Use \/ SetMotors \/ Compare \/ SleepUntil

Next ==
    \/ \E c \in Channel, w \in Width : Pulse(c, w)
    \/ StartCalib \/ StopCalib \/ Regelungsthread \/ Tick

Spec == Init /\ [][Next]_vars

-----------------------------------------------------------------------------
(* Properties.                                                             *)

TypeOK ==
    /\ rc \in [Channel -> Width]
    /\ cal_val \in [Channel -> Calibration]
    /\ first_visit \in [Channel -> BOOLEAN]
    /\ calibration_active \in BOOLEAN /\ ready \in BOOLEAN
    /\ pc \in {"begin", "ask", "use", "motors", "compare", "sleep", "asleep",
               "overslept"}
    /\ todo \subseteq Angle
    /\ channel \in Channel
    /\ enabled \in BOOLEAN /\ on \in BOOLEAN
    /\ finite \subseteq Angle
    /\ motors \in {"off", "driven", "undefined"}
    /\ left \in -MaxLate..Period
    /\ run \in 0..MaxRun
    /\ idleFor \in 0..(Reaction + 1)
    /\ stalled \in BOOLEAN /\ spoilt \in BOOLEAN

\* When the throttle is low, or a calibration is on, the motors are off after
\* Reaction ticks at the latest, whatever the control law computes, unless two
\* ticks fell between the comparison with the deadline and chThdSleepUntil: no
\* single tick there makes the thread sleep past its deadline.
CutOffInTime == idleFor > Reaction /\ ~stalled => motors = "off"

\* The widths are undefined (a set value that is no finite number stays in the
\* filter until the next reset) only after a calibration in use in which a
\* channel had no room on one side of its neutral position, or after one that
\* began while a getter was being evaluated.
MotorsDefined == motors = "undefined" => spoilt
=============================================================================
