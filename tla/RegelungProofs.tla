--------------------------- MODULE RegelungProofs ---------------------------
(***************************************************************************)
(* Theorems about Regelung: its types, the cut-off of the motors, and      *)
(* where undefined motor widths come from.                                 *)
(***************************************************************************)
EXTENDS Regelung, TLAPS

-----------------------------------------------------------------------------
(* Types.                                                                  *)

\* Between two deadlines the thread is awake after the first or asleep before
\* the second, so that adding a period never gets it ahead by more than one.
OnTime ==
    /\ pc = "begin" => left <= -run
    /\ pc \in {"ask", "use", "motors", "compare"} => left <= Period - run
    /\ pc = "sleep" => left > -run
    /\ pc = "asleep" => left > 0

Typed == TypeOK /\ OnTime

LEMMA ReactionNat == Reaction \in Nat /\ MaxRun <= Reaction
  BY RegelungAssumption DEF Reaction

\* A calibration takes the widths it is given.
LEMMA CollectedType ==
  ASSUME TypeOK, NEW c \in Channel, NEW w \in Width
  PROVE  Collected(c, w) \in Calibration
<1>1. w \in Width \cup {0}
  OBVIOUS
<1>2. cal_val[c] \in Calibration
  BY DEF TypeOK
<1>3. /\ cal_val[c].null \in Width \cup {0}
      /\ cal_val[c].min \in Width \cup {0}
      /\ cal_val[c].max \in Width \cup {0}
  BY <1>2 DEF Calibration
<1>4. CASE first_visit[c]
  BY <1>1, <1>4 DEF Collected, Calibration
<1>5. CASE ~first_visit[c]
  <2> DEFINE low == IF w < cal_val[c].min THEN w ELSE cal_val[c].min
             high == IF w > cal_val[c].max THEN w ELSE cal_val[c].max
             null == IF c = Schub THEN low ELSE cal_val[c].null
  <2>1. low \in Width \cup {0} /\ high \in Width \cup {0}
    BY <1>1, <1>3
  <2>2. null \in Width \cup {0}
    BY <2>1, <1>3
  <2>3. Collected(c, w) = [null |-> null, min |-> low, max |-> high]
    BY <1>5 DEF Collected
  <2> HIDE DEF low, high, null
  <2> QED
    BY <2>1, <2>2, <2>3 DEF Calibration
<1> QED
  BY <1>4, <1>5

LEMMA TypedInit == Init => Typed
<1> SUFFICES ASSUME Init PROVE Typed
  OBVIOUS
<1>1. Zero \in Calibration
  BY DEF Zero, Calibration
<1>2. cal_val \in [Channel -> Calibration]
  BY <1>1 DEF Init
<1>3. left \in -MaxLate..Period /\ run \in 0..MaxRun /\ idleFor \in 0..(Reaction + 1)
  BY RegelungAssumption, ReactionNat DEF Init
<1>4. TypeOK
  BY <1>2, <1>3 DEF Init, TypeOK, Channel
<1>5. OnTime
  BY DEF Init, OnTime
<1> QED
  BY <1>4, <1>5 DEF Typed

LEMMA TypedStep == Typed /\ [Next]_vars => Typed'
<1> SUFFICES ASSUME Typed, [Next]_vars PROVE Typed'
  OBVIOUS
<1> USE RegelungAssumption, ReactionNat
<1>1. ASSUME NEW c \in Channel, NEW w \in Width, Pulse(c, w) PROVE Typed'
  <2>1. rc' \in [Channel -> Width]
    BY <1>1 DEF Pulse, Typed, TypeOK
  <2>2. cal_val' \in [Channel -> Calibration] /\ first_visit' \in [Channel -> BOOLEAN]
    <3>1. CASE calibration_active
      <4>1. Collected(c, w) \in Calibration
        BY CollectedType DEF Typed
      <4>2. /\ cal_val' = [cal_val EXCEPT ![c] = Collected(c, w)]
            /\ first_visit' = [first_visit EXCEPT ![c] = FALSE]
        BY <1>1, <3>1 DEF Pulse
      <4>3. /\ cal_val \in [Channel -> Calibration]
            /\ first_visit \in [Channel -> BOOLEAN]
        BY DEF Typed, TypeOK
      <4> QED
        BY <4>1, <4>2, <4>3
    <3>2. CASE ~calibration_active
      BY <1>1, <3>2 DEF Pulse, Typed, TypeOK
    <3> QED
      BY <3>1, <3>2
  <2>3. idleFor' \in 0..(Reaction + 1)
    <3>1. idleFor' = idleFor \/ idleFor' = 0
      BY <1>1 DEF Pulse
    <3> QED
      BY <3>1 DEF Typed, TypeOK
  <2>4. TypeOK'
    BY <1>1, <2>1, <2>2, <2>3 DEF Pulse, Typed, TypeOK, control, clock
  <2>5. OnTime'
    BY <1>1 DEF Pulse, Typed, OnTime, clock
  <2> QED
    BY <2>4, <2>5 DEF Typed
<1>2. CASE StartCalib
  <2>1. TypeOK'
    BY <1>2 DEF StartCalib, Typed, TypeOK, control, clock
  <2>2. OnTime'
    BY <1>2 DEF StartCalib, Typed, OnTime, clock
  <2> QED
    BY <2>1, <2>2 DEF Typed
<1>3. CASE StopCalib
  <2>1. idleFor' = idleFor \/ idleFor' = 0
    BY <1>3 DEF StopCalib
  <2>2. idleFor' \in 0..(Reaction + 1)
    BY <2>1 DEF Typed, TypeOK
  <2>3. TypeOK'
    BY <1>3, <2>2 DEF StopCalib, Typed, TypeOK, control, clock
  <2>4. OnTime'
    BY <1>3 DEF StopCalib, Typed, OnTime, clock
  <2> QED
    BY <2>3, <2>4 DEF Typed
<1>4. CASE Begin
  <2>1. left' = left + Period /\ left \in Int /\ left <= -run /\ run \in 0..MaxRun
        /\ run' = run /\ left >= -MaxLate
    BY <1>4 DEF Begin, Typed, TypeOK, OnTime
  <2>2. left' \in -MaxLate..Period /\ left' <= Period - run'
    BY <2>1
  <2>3. TypeOK'
    BY <1>4, <2>2 DEF Begin, Typed, TypeOK, remote, Channel
  <2>4. OnTime'
    BY <1>4, <2>2 DEF Begin, OnTime
  <2> QED
    BY <2>3, <2>4 DEF Typed
<1>5. CASE Ask
  <2>1. TypeOK'
    BY <1>5 DEF Ask, Typed, TypeOK, remote, clock, Usable
  <2>2. OnTime'
    BY <1>5 DEF Ask, Typed, OnTime, clock
  <2> QED
    BY <2>1, <2>2 DEF Typed
<1>6. CASE Use
  <2>1. pc = "use" /\ on' \in BOOLEAN /\ finite' \subseteq Angle
    <3>1. CASE UseSchub
      <4>1. InRange(cal_val[Schub], rc[Schub]) \in BOOLEAN
        BY DEF InRange
      <4> QED
        BY <3>1, <4>1 DEF UseSchub, Typed, TypeOK
    <3>2. CASE UseAngle
      BY <3>2 DEF UseAngle, Typed, TypeOK
    <3> QED
      BY <1>6, <3>1, <3>2 DEF Use
  <2>2. pc' \in {"ask", "motors"} /\ todo' \subseteq Angle /\ channel' \in Channel
    BY <1>6 DEF Use, Typed, TypeOK, Channel
  <2>3. TypeOK'
    BY <1>6, <2>1, <2>2 DEF Use, Typed, TypeOK, remote, clock
  <2>4. OnTime'
    BY <1>6, <2>1, <2>2 DEF Use, Typed, OnTime, clock
  <2> QED
    BY <2>3, <2>4 DEF Typed
<1>7. CASE SetMotors
  <2>1. TypeOK'
    BY <1>7 DEF SetMotors, Widths, Typed, TypeOK, remote, clock
  <2>2. OnTime'
    BY <1>7 DEF SetMotors, Typed, OnTime, clock
  <2> QED
    BY <2>1, <2>2 DEF Typed
<1>8. CASE Compare
  <2>1. TypeOK'
    BY <1>8 DEF Compare, Typed, TypeOK, remote, control
  <2>2. OnTime'
    BY <1>8 DEF Compare, InTime, Typed, TypeOK, OnTime
  <2> QED
    BY <2>1, <2>2 DEF Typed
<1>9. CASE SleepUntil
  <2>1. TypeOK'
    <3>1. (run > 1) \in BOOLEAN
      OBVIOUS
    <3> QED
      BY <1>9, <3>1 DEF SleepUntil, Typed, TypeOK, remote, control
  <2>2. OnTime'
    BY <1>9 DEF SleepUntil, Typed, TypeOK, OnTime
  <2> QED
    BY <2>1, <2>2 DEF Typed
<1>10. CASE Tick
  <2>1. left' \in -MaxLate..Period /\ run' \in 0..MaxRun
    BY <1>10 DEF Tick, Typed, TypeOK, OnTime
  <2>2. idleFor' \in 0..(Reaction + 1)
    <3>1. idleFor' = idleFor \/ (idleFor <= Reaction /\ idleFor' = idleFor + 1)
      BY <1>10 DEF Tick
    <3> QED
      BY <3>1 DEF Typed, TypeOK
  <2>3. TypeOK'
    BY <1>10, <2>1, <2>2 DEF Tick, Typed, TypeOK, remote, control
  <2>4. OnTime'
    BY <1>10 DEF Tick, Typed, TypeOK, OnTime
  <2> QED
    BY <2>3, <2>4 DEF Typed
<1>11. CASE UNCHANGED vars
  <2>1. TypeOK'
    BY <1>11 DEF vars, remote, control, clock, Typed, TypeOK
  <2>2. OnTime'
    BY <1>11 DEF vars, clock, Typed, OnTime
  <2> QED
    BY <2>1, <2>2 DEF Typed
<1> QED
  BY <1>1, <1>2, <1>3, <1>4, <1>5, <1>6, <1>7, <1>8, <1>9, <1>10, <1>11
  DEF Next, Regelungsthread

\* Every variable keeps its type; time is never more than a period ahead of
\* the clock, so the controller does not run without waiting.
THEOREM TypeCorrect == Spec => []TypeOK
<1>1. Typed => TypeOK
  BY DEF Typed
<1> QED
  BY <1>1, TypedInit, TypedStep, PTL DEF Spec

-----------------------------------------------------------------------------
(* Where undefined widths come from.                                       *)

\* A flat table in use, or one a getter has not reached in time, is known of.
TableInv ==
    /\ Usable => spoilt \/ \A c \in Angle : ~Flat(cal_val[c])
    /\ pc = "use" /\ enabled => spoilt \/ Usable

FilterInv ==
    /\ finite = Angle \/ spoilt
    /\ MotorsDefined

\* Neither side of a neutral position is empty, so neither divisor is zero.
LEMMA DivisorNotZero ==
  ASSUME TypeOK, NEW c \in Angle, ~Flat(cal_val[c])
  PROVE  Divisor(cal_val[c], rc[c]) # 0
<1>1. cal_val[c] \in Calibration
  BY DEF TypeOK, Channel
<1>2. /\ cal_val[c].null \in Int /\ cal_val[c].min \in Int
      /\ cal_val[c].max \in Int
  <2>1. Width \cup {0} \subseteq Int
    BY RegelungAssumption
  <2>2. /\ cal_val[c].null \in Width \cup {0}
        /\ cal_val[c].min \in Width \cup {0}
        /\ cal_val[c].max \in Width \cup {0}
    BY <1>1 DEF Calibration
  <2> QED
    BY <2>1, <2>2
<1> QED
  BY <1>2 DEF Flat, Divisor

LEMMA TableInit == Init => TableInv /\ FilterInv
  BY DEF Init, TableInv, FilterInv, MotorsDefined, Usable

LEMMA TableStep == TableInv /\ [Next]_vars => TableInv'
<1> SUFFICES ASSUME TableInv, [Next]_vars PROVE TableInv'
  OBVIOUS
<1>1. ASSUME NEW c \in Channel, NEW w \in Width, Pulse(c, w) PROVE TableInv'
  <2>1. CASE calibration_active
    BY <1>1, <2>1 DEF Pulse, TableInv, Usable, control
  <2>2. CASE ~calibration_active
    BY <1>1, <2>2 DEF Pulse, TableInv, Usable, control
  <2> QED
    BY <2>1, <2>2
<1>2. CASE StartCalib
  BY <1>2 DEF StartCalib, TableInv, Usable, control
<1>3. CASE StopCalib
  BY <1>3 DEF StopCalib, TableInv, Usable, control
<1>4. CASE Begin
  BY <1>4 DEF Begin, TableInv, Usable, remote
<1>5. CASE Ask
  BY <1>5 DEF Ask, TableInv, Usable, remote
<1>6. CASE Use
  BY <1>6 DEF Use, TableInv, Usable, remote
<1>7. CASE SetMotors
  BY <1>7 DEF SetMotors, TableInv, Usable, remote
<1>8. CASE Compare
  BY <1>8 DEF Compare, TableInv, Usable, remote
<1>9. CASE SleepUntil
  BY <1>9 DEF SleepUntil, TableInv, Usable, remote
<1>10. CASE Tick
  BY <1>10 DEF Tick, TableInv, Usable, remote, control
<1>11. CASE UNCHANGED vars
  BY <1>11 DEF vars, TableInv, Usable, remote, control
<1> QED
  BY <1>1, <1>2, <1>3, <1>4, <1>5, <1>6, <1>7, <1>8, <1>9, <1>10, <1>11
  DEF Next, Regelungsthread

LEMMA FilterStep ==
  Typed /\ TableInv /\ FilterInv /\ [Next]_vars => FilterInv'
<1> SUFFICES ASSUME Typed, TableInv, FilterInv, [Next]_vars PROVE FilterInv'
  OBVIOUS
<1>1. ASSUME NEW c \in Channel, NEW w \in Width, Pulse(c, w) PROVE FilterInv'
  BY <1>1 DEF Pulse, FilterInv, MotorsDefined, control
<1>2. CASE StartCalib
  BY <1>2 DEF StartCalib, FilterInv, MotorsDefined, control
<1>3. CASE StopCalib
  BY <1>3 DEF StopCalib, FilterInv, MotorsDefined, control
<1>4. CASE Begin
  BY <1>4 DEF Begin, FilterInv, MotorsDefined
<1>5. CASE Ask
  BY <1>5 DEF Ask, FilterInv, MotorsDefined
<1>6. CASE Use
  <2>1. finite' = finite \/ spoilt
    <3>1. CASE UseSchub
      BY <3>1 DEF UseSchub
    <3>2. CASE UseAngle
      <4>1. CASE enabled /\ ~spoilt
        <5>1. ~Flat(cal_val[channel])
          BY <3>2, <4>1 DEF UseAngle, TableInv
        <5>2. Divisor(cal_val[channel], rc[channel]) # 0
          BY <3>2, <5>1, DivisorNotZero DEF UseAngle, Typed
        <5> QED
          BY <3>2, <5>2 DEF UseAngle
      <4>2. CASE ~enabled
        BY <3>2, <4>2 DEF UseAngle
      <4> QED
        BY <4>1, <4>2
    <3> QED
      BY <1>6, <3>1, <3>2 DEF Use
  <2> QED
    BY <1>6, <2>1 DEF Use, FilterInv, MotorsDefined
<1>7. CASE SetMotors
  BY <1>7 DEF SetMotors, Widths, FilterInv, MotorsDefined
<1>8. CASE Compare
  BY <1>8 DEF Compare, FilterInv, MotorsDefined, control
<1>9. CASE SleepUntil
  BY <1>9 DEF SleepUntil, FilterInv, MotorsDefined, control
<1>10. CASE Tick
  BY <1>10 DEF Tick, FilterInv, MotorsDefined, control
<1>11. CASE UNCHANGED vars
  BY <1>11 DEF vars, FilterInv, MotorsDefined, control
<1> QED
  BY <1>1, <1>2, <1>3, <1>4, <1>5, <1>6, <1>7, <1>8, <1>9, <1>10, <1>11
  DEF Next, Regelungsthread

\* The widths of the motors are undefined only after a flat calibration in
\* use, or one that began in the middle of a getter.
THEOREM MotorsDefinedAlways == Spec => []MotorsDefined
<1>1. FilterInv => MotorsDefined
  BY DEF FilterInv
<1> QED
  BY <1>1, TypedInit, TypedStep, TableInit, TableStep, FilterStep, PTL DEF Spec

-----------------------------------------------------------------------------
(* The cut-off.                                                            *)

Longest == IF Period > MaxRun THEN Period ELSE MaxRun

\* The throttle the controller has read, or is about to read with a getter that
\* has looked at the flags, was asking for thrust in this round.
ReadInv ==
    /\ ~Idle => idleFor = 0
    /\ pc = "use" /\ enabled => ready
    /\ pc = "use" /\ channel = Schub /\ enabled
       /\ InRange(cal_val[Schub], rc[Schub]) => idleFor <= run
    /\ pc \in {"ask", "use"} /\ channel \in Angle /\ on => idleFor <= run
    /\ pc = "motors" /\ on => idleFor <= run

\* How long the motors may have been running for nothing.
MotorInv ==
    /\ motors # "off" =>
         /\ pc \in {"begin", "ask", "use", "motors"} => idleFor <= Longest + run
         /\ pc = "compare" => idleFor <= run
         /\ pc \in {"sleep", "asleep"} => idleFor <= Period - left
    /\ pc = "overslept" => stalled

LEMMA LongestNat ==
    /\ Longest \in Nat /\ Period <= Longest /\ MaxRun <= Longest
    /\ Reaction = Longest + MaxRun
  BY RegelungAssumption DEF Longest, Reaction

\* The first pulse of a calibration leaves the throttle no range.
LEMMA FirstPulseFlat ==
  ASSUME NEW c \in Channel, NEW w \in Width, first_visit[c]
  PROVE  ~InRange(Collected(c, w), w)
  BY RegelungAssumption DEF Collected, InRange

LEMMA ReadInit == Init => ReadInv /\ MotorInv
  BY DEF Init, ReadInv, MotorInv

LEMMA ReadStep == Typed /\ ReadInv /\ [Next]_vars => ReadInv'
<1> SUFFICES ASSUME Typed, ReadInv, [Next]_vars PROVE ReadInv'
  OBVIOUS
<1>0. /\ idleFor \in Nat /\ run \in Nat
      /\ Schub \notin Angle
  BY ReactionNat, RegelungAssumption DEF Typed, TypeOK
<1>1. ASSUME NEW c \in Channel, NEW w \in Width, Pulse(c, w) PROVE ReadInv'
  <2>1. /\ run' = run /\ pc' = pc /\ channel' = channel /\ on' = on
        /\ enabled' = enabled /\ ready' = ready
        /\ calibration_active' = calibration_active
    BY <1>1 DEF Pulse, control, clock
  <2>2. (idleFor' = idleFor \/ idleFor' = 0) /\ (~Idle' => idleFor' = 0)
    BY <1>1 DEF Pulse
  <2>3. idleFor <= run => idleFor' <= run
    BY <1>0, <2>2
  <2>4. ASSUME pc = "use", channel = Schub, enabled,
               InRange(cal_val[Schub], rc[Schub])'
        PROVE  idleFor' <= run
    <3>1. CASE c # Schub
      <4>1. cal_val'[Schub] = cal_val[Schub] /\ rc'[Schub] = rc[Schub]
        BY <1>1, <3>1 DEF Pulse, Typed, TypeOK, Channel
      <4>2. idleFor <= run
        BY <2>4, <4>1 DEF ReadInv
      <4> QED
        BY <2>3, <4>2
    <3>2. CASE c = Schub /\ calibration_active
      <4>1. first_visit[c]
        BY <1>1, <2>4, <3>2 DEF Pulse
      <4>2. cal_val'[Schub] = Collected(c, w) /\ rc'[Schub] = w
        BY <1>1, <3>2 DEF Pulse, Typed, TypeOK
      <4> QED
        BY <2>4, <4>1, <4>2, FirstPulseFlat
    <3>3. CASE c = Schub /\ ~calibration_active
      <4>1. ready
        BY <2>4 DEF ReadInv
      <4>2. ~Idle'
        BY <2>1, <2>4, <3>3, <4>1 DEF Idle, Usable
      <4> QED
        BY <1>0, <2>2, <4>2
    <3> QED
      BY <3>1, <3>2, <3>3
  <2> QED
    BY <2>1, <2>2, <2>3, <2>4 DEF ReadInv
<1>2. CASE StartCalib
  <2>1. Idle'
    BY <1>2 DEF StartCalib, Idle, Usable
  <2> QED
    BY <1>2, <2>1 DEF StartCalib, ReadInv, control, clock
<1>3. CASE StopCalib
  <2>1. (idleFor' = idleFor \/ idleFor' = 0) /\ (~Idle' => idleFor' = 0)
    BY <1>3 DEF StopCalib
  <2>2. idleFor <= run => idleFor' <= run
    BY <1>0, <2>1
  <2> QED
    BY <1>3, <2>1, <2>2 DEF StopCalib, ReadInv, control, clock
<1>4. CASE Begin
  BY <1>0, <1>4 DEF Begin, ReadInv, Idle, Usable, remote
<1>5. CASE Ask
  <2>1. InRange(cal_val[Schub], rc[Schub]) /\ Usable => idleFor <= run
    BY <1>0 DEF ReadInv, Idle
  <2> QED
    BY <1>5, <2>1 DEF Ask, ReadInv, Idle, Usable, remote, clock
<1>6. CASE Use
  <2>1. on' => idleFor <= run
    <3>1. CASE UseSchub
      BY <3>1 DEF UseSchub, ReadInv
    <3>2. CASE UseAngle
      BY <3>2 DEF UseAngle, ReadInv
    <3> QED
      BY <1>6, <3>1, <3>2 DEF Use
  <2>2. pc' # "use" /\ UNCHANGED <<idleFor, run, remote>>
    BY <1>6 DEF Use, clock
  <2> QED
    BY <2>1, <2>2 DEF ReadInv, Idle, Usable, remote
<1>7. CASE SetMotors
  BY <1>7 DEF SetMotors, ReadInv, Idle, Usable, remote
<1>8. CASE Compare
  BY <1>8 DEF Compare, ReadInv, Idle, Usable, remote, control
<1>9. CASE SleepUntil
  BY <1>9 DEF SleepUntil, ReadInv, Idle, Usable, remote, control
<1>10. CASE Tick
  <2>1. UNCHANGED <<remote, control>>
    BY <1>10 DEF Tick
  <2>2. Idle' = Idle
    BY <2>1 DEF Idle, Usable, remote
  <2>3. ~Idle => idleFor' = idleFor
    BY <1>10 DEF Tick
  <2>4. CASE pc \in {"ask", "use", "motors"}
    <3>1. pc' = pc /\ run' = run + 1
      BY <1>10, <2>4 DEF Tick
    <3>2. idleFor <= run => idleFor' <= run'
      BY <1>0, <1>10, <3>1 DEF Tick
    <3> QED
      BY <2>1, <2>2, <2>3, <3>1, <3>2 DEF ReadInv, remote, control
  <2>5. CASE pc \notin {"ask", "use", "motors"}
    <3>1. pc' \notin {"ask", "use", "motors"}
      BY <1>10, <2>5 DEF Tick
    <3> QED
      BY <2>2, <2>3, <3>1 DEF ReadInv
  <2> QED
    BY <2>4, <2>5
<1>11. CASE UNCHANGED vars
  BY <1>11 DEF vars, ReadInv, Idle, Usable, remote, control, clock
<1> QED
  BY <1>1, <1>2, <1>3, <1>4, <1>5, <1>6, <1>7, <1>8, <1>9, <1>10, <1>11
  DEF Next, Regelungsthread

\* The counter of idle time going back disturbs nothing.
LEMMA MotorZero ==
  ASSUME Typed, MotorInv, idleFor' = idleFor \/ idleFor' = 0,
         UNCHANGED <<pc, motors, left, run, stalled>>
  PROVE  MotorInv'
<1>0. /\ idleFor \in Nat /\ run \in Nat /\ left <= Period /\ left \in Int
      /\ Longest \in Nat /\ Period \in Nat
  BY ReactionNat, LongestNat, RegelungAssumption DEF Typed, TypeOK
<1>1. CASE idleFor' = idleFor
  BY <1>1 DEF MotorInv
<1>2. CASE idleFor' = 0
  <2>1. 0 <= Longest + run /\ 0 <= run /\ 0 <= Period - left
    BY <1>0
  <2> QED
    BY <1>2, <2>1 DEF MotorInv
<1> QED
  BY <1>1, <1>2

LEMMA MotorStep == Typed /\ ReadInv /\ MotorInv /\ [Next]_vars => MotorInv'
<1> SUFFICES ASSUME Typed, ReadInv, MotorInv, [Next]_vars PROVE MotorInv'
  OBVIOUS
<1>0. /\ idleFor \in Nat /\ run \in 0..MaxRun /\ left \in Int
      /\ Period \in Nat /\ MaxRun \in Nat /\ Longest \in Nat
      /\ Period <= Longest /\ MaxRun <= Longest
  BY ReactionNat, LongestNat, RegelungAssumption DEF Typed, TypeOK
<1>1. ASSUME NEW c \in Channel, NEW w \in Width, Pulse(c, w) PROVE MotorInv'
  <2>1. idleFor' = idleFor \/ idleFor' = 0
    BY <1>1 DEF Pulse
  <2>2. UNCHANGED <<pc, motors, left, run, stalled>>
    BY <1>1 DEF Pulse, control, clock
  <2> QED
    BY <1>0, <2>1, <2>2, MotorZero
<1>2. CASE StartCalib
  BY <1>2 DEF StartCalib, MotorInv, control, clock
<1>3. CASE StopCalib
  <2>1. idleFor' = idleFor \/ idleFor' = 0
    BY <1>3 DEF StopCalib
  <2>2. UNCHANGED <<pc, motors, left, run, stalled>>
    BY <1>3 DEF StopCalib, control, clock
  <2> QED
    BY <1>0, <2>1, <2>2, MotorZero
<1>4. CASE Begin
  BY <1>4 DEF Begin, MotorInv
<1>5. CASE Ask
  BY <1>5 DEF Ask, MotorInv, clock
<1>6. CASE Use
  <2>1. pc \in {"begin", "ask", "use", "motors"}
    BY <1>6 DEF Use, UseSchub, UseAngle
  <2> QED
    BY <1>6, <2>1 DEF Use, MotorInv, clock
<1>7. CASE SetMotors
  <2>1. motors' # "off" => idleFor <= run
    BY <1>7 DEF SetMotors, Widths, ReadInv
  <2> QED
    BY <1>7, <2>1 DEF SetMotors, MotorInv, clock
<1>8. CASE Compare
  <2>1. motors # "off" => idleFor <= run
    BY <1>8 DEF Compare, MotorInv
  <2>2. left <= Period - run
    BY <1>8 DEF Compare, Typed, OnTime
  <2>3. run' = 0 /\ UNCHANGED <<idleFor, left, motors, stalled>>
        /\ pc' \in {"sleep", "begin"}
    BY <1>8 DEF Compare, control
  <2>4. idleFor <= run => idleFor <= Longest + 0 /\ idleFor <= Period - left
    BY <1>0, <2>2
  <2> QED
    BY <2>1, <2>3, <2>4 DEF MotorInv
<1>9. CASE SleepUntil
  <2>1. motors # "off" => idleFor <= Period - left
    BY <1>9 DEF SleepUntil, MotorInv
  <2>2. left > -run
    BY <1>9 DEF SleepUntil, Typed, OnTime
  <2>3. run' = 0 /\ UNCHANGED <<idleFor, left, motors>>
    BY <1>9 DEF SleepUntil, control
  <2>4. pc' = "begin" => left = 0
    BY <1>9 DEF SleepUntil
  <2>5. left = 0 /\ idleFor <= Period - left => idleFor <= Longest + 0
    BY <1>0
  <2>6. pc' = "overslept" => run > 1
    BY <1>0, <1>9, <2>2 DEF SleepUntil
  <2>7. pc' = "overslept" => stalled'
    BY <1>9, <2>6 DEF SleepUntil
  <2>8. pc' \in {"asleep", "begin", "overslept"}
    BY <1>9 DEF SleepUntil
  <2> QED
    BY <2>1, <2>3, <2>4, <2>5, <2>7, <2>8 DEF MotorInv
<1>10. CASE Tick
  <2>1. idleFor' <= idleFor + 1 /\ idleFor' \in Nat
    BY <1>0, <1>10 DEF Tick
  <2>2. motors' = motors /\ stalled' = stalled
    BY <1>10 DEF Tick, control
  <2>3. CASE pc \in {"begin", "ask", "use", "motors"}
    <3>1. pc' = pc /\ run' = run + 1
      BY <1>10, <2>3 DEF Tick
    <3>2. idleFor <= Longest + run => idleFor' <= Longest + run'
      BY <1>0, <2>1, <3>1
    <3> QED
      BY <2>2, <2>3, <3>1, <3>2 DEF MotorInv
  <2>4. CASE pc = "compare"
    <3>1. pc' = pc /\ run' = run + 1
      BY <1>10, <2>4 DEF Tick
    <3>2. idleFor <= run => idleFor' <= run'
      BY <1>0, <2>1, <3>1
    <3> QED
      BY <2>2, <2>4, <3>1, <3>2 DEF MotorInv
  <2>5. CASE pc \in {"sleep", "asleep"}
    <3>1. left' = left - 1
      BY <1>10, <2>5 DEF Tick
    <3>2. idleFor <= Period - left => idleFor' <= Period - left'
      BY <1>0, <2>1, <3>1
    <3>3. CASE pc' = "begin"
      <4>1. left' = 0 /\ run' = 0
        BY <1>10, <2>5, <3>1, <3>3 DEF Tick
      <4>2. idleFor' <= Period - left' => idleFor' <= Longest + run'
        BY <1>0, <2>1, <4>1
      <4> QED
        BY <2>2, <2>5, <3>2, <3>3, <4>2 DEF MotorInv
    <3>4. CASE pc' = pc
      BY <2>2, <2>5, <3>2, <3>4 DEF MotorInv
    <3> QED
      BY <1>10, <3>3, <3>4 DEF Tick
  <2>6. CASE pc = "overslept"
    <3>1. pc' = pc
      BY <1>10, <2>6 DEF Tick
    <3> QED
      BY <2>2, <2>6, <3>1 DEF MotorInv
  <2> QED
    BY <2>3, <2>4, <2>5, <2>6 DEF Typed, TypeOK
<1>11. CASE UNCHANGED vars
  BY <1>11 DEF vars, MotorInv, control, clock
<1> QED
  BY <1>1, <1>2, <1>3, <1>4, <1>5, <1>6, <1>7, <1>8, <1>9, <1>10, <1>11
  DEF Next, Regelungsthread

\* Whenever the throttle is low or a calibration is on for longer than Reaction
\* ticks, for any period and any length of the run, the motors are off, or two
\* ticks fell between the comparison and chThdSleepUntil.
THEOREM CutOffInTimeAlways == Spec => []CutOffInTime
<1>1. Typed /\ MotorInv => CutOffInTime
  <2> SUFFICES ASSUME Typed, MotorInv, motors # "off", ~stalled
               PROVE  idleFor <= Reaction
    BY ReactionNat DEF CutOffInTime, Typed, TypeOK
  <2>0. /\ idleFor \in Nat /\ run \in 0..MaxRun /\ left \in Int
        /\ Period \in Nat /\ MaxRun \in Nat /\ Longest \in Nat
        /\ Period <= Longest /\ MaxRun <= Longest
        /\ Reaction = Longest + MaxRun
    BY ReactionNat, LongestNat, RegelungAssumption DEF Typed, TypeOK
  <2>1. CASE pc \in {"begin", "ask", "use", "motors"}
    BY <2>0, <2>1 DEF MotorInv
  <2>2. CASE pc = "compare"
    BY <2>0, <2>2 DEF MotorInv
  <2>3. CASE pc \in {"sleep", "asleep"}
    BY <2>0, <2>3 DEF MotorInv, Typed, OnTime
  <2>4. CASE pc = "overslept"
    BY <2>4 DEF MotorInv
  <2> QED
    BY <2>1, <2>2, <2>3, <2>4 DEF Typed, TypeOK
<1> QED
  BY <1>1, TypedInit, TypedStep, ReadInit, ReadStep, MotorStep, PTL DEF Spec
=============================================================================
