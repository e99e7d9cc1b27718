---------------------------- MODULE SerialProofs ----------------------------
(***************************************************************************)
(* Theorems about Serial for any number of threads, any queue and frame    *)
(* sizes, and a ground station that sends at any moment.                   *)
(***************************************************************************)
EXTENDS Serial, FiniteSetTheorems, SequenceTheorems, TLAPS

\* The bound on the bytes a thread sends is a number.
LEMMA LimitNat == Limit \in Nat
BY SerialAssumption DEF Limit

\* ThreadRadio sends, and is not one of the other senders.
LEMMA RadioSends == Radio \in Sender /\ \A w \in Writer : w # Radio
BY SerialAssumption DEF Sender

\* A one-element sequence has the type of its element.
LEMMA OneElement ==
    ASSUME NEW S, NEW x \in S
    PROVE  <<x>> \in Seq(S) /\ Len(<<x>>) = 1
OBVIOUS

\* A sequence that is not empty has a length that is not 0.
LEMMA NonEmptyLen ==
    ASSUME NEW S, NEW s \in Seq(S), s # <<>>
    PROVE  Len(s) \in Nat \ {0}
BY EmptySeq

\* The registers of the transmitter and what leaves them are bytes.
LEMMA TypeCorrectStep == TypeOK /\ [Next]_vars => TypeOK'
<1> SUFFICES ASSUME TypeOK, [Next]_vars
             PROVE  TypeOK'
  OBVIOUS
<1> USE SerialAssumption, LimitNat, RadioSends
<1>0. /\ left \in [Sender -> 0..FrameLen] /\ written \in [Sender -> Nat]
      /\ \A v \in Sender : left[v] \in Nat /\ written[v] \in Nat
      /\ \A v \in Sender : written[v] + left[v] <= Limit
  BY DEF TypeOK
<1>1. CASE ShiftOut
  <2>1. UNCHANGED <<cr1, rdr, ore, oqueue, waiting, left, written, iqueue,
                    arrived, got, overrun, hurried, flags, epending, pc>>
    BY <1>1 DEF ShiftOut, input, events
  <2>2. dr \in Seq(Byte) /\ shift \in Seq(Byte) /\ sent \in Seq(Byte)
    BY DEF TypeOK
  <2>3. dr' = <<>> /\ shift' = dr /\ sent' = sent \o shift
    BY <1>1 DEF ShiftOut
  <2>4. /\ dr' \in Seq(Byte) /\ Len(dr') <= 1
        /\ shift' \in Seq(Byte) /\ Len(shift') <= 1
    BY <2>2, <2>3 DEF TypeOK
  <2>5. sent' \in Seq(Byte)
    BY <2>2, <2>3, ConcatProperties
  <2>6. tc' \in BOOLEAN
    BY <1>1 DEF TypeOK, ShiftOut
  <2> QED
    BY <2>1, <2>4, <2>5, <2>6 DEF TypeOK
<1>2. CASE ShiftLoad
  BY <1>2 DEF TypeOK, ShiftLoad, output, input, events
<1>3. CASE ByteArrives
  <2>1. arrived + 1 \in 1..Bytes /\ arrived' = arrived + 1
    BY <1>3 DEF TypeOK, ByteArrives
  <2>2. arrived' \in 0..Bytes
    BY <2>1
  <2>3. rdr' \in Seq(1..Bytes) /\ Len(rdr') <= 1
    <3>1. CASE rdr = <<>>
      <4>1. rdr' = <<arrived + 1>>
        BY <1>3, <3>1 DEF ByteArrives
      <4> QED
        BY <4>1, <2>1, OneElement
    <3>2. CASE rdr # <<>>
      BY <1>3, <3>2 DEF TypeOK, ByteArrives
    <3> QED
      BY <3>1, <3>2
  <2>4. ore' \in BOOLEAN /\ hurried' \in BOOLEAN
    BY <1>3 DEF TypeOK, ByteArrives
  <2>5. UNCHANGED <<cr1, dr, shift, tc, oqueue, waiting, left, written, sent,
                    iqueue, got, overrun, flags, epending, pc>>
    BY <1>3 DEF ByteArrives, output, events
  <2> QED
    BY <2>2, <2>3, <2>4, <2>5 DEF TypeOK
<1>4. CASE serve_interrupt
  <2>1. cr1' \subseteq {"TXEIE", "TCIE"}
    BY <1>4 DEF TypeOK, serve_interrupt, NextCR1
  <2>2. dr \in Seq(Byte) /\ oqueue \in Seq(Byte) /\ Len(oqueue) <= OutSize
    BY DEF TypeOK
  <2>3. /\ dr' \in Seq(Byte) /\ Len(dr') <= 1
        /\ oqueue' \in Seq(Byte) /\ Len(oqueue') <= OutSize
    <3>1. CASE Fed
      <4>1. /\ oqueue # <<>>
            /\ oqueue' = Tail(oqueue) /\ dr' = <<Head(oqueue)>>
        BY <1>4, <3>1 DEF serve_interrupt, Fed
      <4>2. /\ Head(oqueue) \in Byte /\ Tail(oqueue) \in Seq(Byte)
            /\ Len(Tail(oqueue)) <= OutSize
        BY <2>2, <4>1, HeadTailProperties, LenProperties
      <4>3. <<Head(oqueue)>> \in Seq(Byte) /\ Len(<<Head(oqueue)>>) <= 1
        BY <4>2, OneElement
      <4> QED
        BY <4>1, <4>2, <4>3
    <3>2. CASE ~Fed
      <4>1. dr' = dr /\ oqueue' = oqueue
        BY <1>4, <3>2 DEF serve_interrupt
      <4> QED
        BY <2>2, <4>1 DEF TypeOK
    <3> QED
      BY <3>1, <3>2
  <2>4. waiting' \in Seq(Sender)
    <3>1. waiting \in Seq(Sender)
      BY DEF TypeOK
    <3>2. waiting # <<>> => Tail(waiting) \in Seq(Sender)
      BY <3>1, HeadTailProperties
    <3> QED
      BY <1>4, <3>1, <3>2 DEF serve_interrupt, StillWaiting
  <2>5. iqueue' \in Seq(1..Bytes) /\ Len(iqueue') <= InSize
    <3>1. /\ iqueue \in Seq(1..Bytes) /\ Len(iqueue) <= InSize
          /\ rdr \in Seq(1..Bytes) /\ Len(rdr) <= 1
      BY DEF TypeOK
    <3>2. CASE Len(iqueue) = InSize
      BY <1>4, <3>1, <3>2 DEF serve_interrupt, Incoming
    <3>3. CASE Len(iqueue) # InSize
      <4>1. iqueue' = iqueue \o rdr
        BY <1>4, <3>3 DEF serve_interrupt, Incoming
      <4>2. /\ iqueue \o rdr \in Seq(1..Bytes)
            /\ Len(iqueue \o rdr) = Len(iqueue) + Len(rdr)
            /\ Len(iqueue) \in Nat /\ Len(rdr) \in Nat
        BY <3>1, ConcatProperties, LenProperties
      <4>3. Len(iqueue \o rdr) <= InSize
        BY <3>1, <3>3, <4>2
      <4> QED
        BY <4>1, <4>2, <4>3
    <3> QED
      BY <3>2, <3>3
  <2>6. flags' \subseteq Flag
    BY <1>4 DEF TypeOK, serve_interrupt, Raised
  <2>7. epending' \in BOOLEAN /\ overrun' \in BOOLEAN /\ tc' \in BOOLEAN
        /\ ore' \in BOOLEAN
    BY <1>4 DEF TypeOK, serve_interrupt, Signalled, OverrunSeen
  <2>8. rdr' \in Seq(1..Bytes) /\ Len(rdr') <= 1
    <3>1. rdr' = <<>>
      BY <1>4 DEF serve_interrupt
    <3> QED
      BY <3>1
  <2>9. UNCHANGED <<shift, left, written, arrived, got, hurried, sent, pc>>
    BY <1>4 DEF serve_interrupt
  <2> QED
    BY <2>1, <2>3, <2>4, <2>5, <2>6, <2>7, <2>8, <2>9 DEF TypeOK
<1>5. ASSUME NEW w \in Sender, sdWrite(w)
      PROVE  TypeOK'
  <2>1. /\ left' = [left EXCEPT ![w] = FrameLen] /\ written' = written
        /\ written[w] + FrameLen <= Limit /\ w # Radio
    BY <1>5 DEF sdWrite
  <2>2. left' \in [Sender -> 0..FrameLen]
    BY <1>0, <2>1
  <2>3. ASSUME NEW v \in Sender
        PROVE  written'[v] + left'[v] <= Limit
    BY <1>0, <2>1, <2>3
  <2>4. left'[Radio] = left[Radio]
    BY <1>0, <2>1
  <2>5. UNCHANGED <<cr1, dr, shift, tc, rdr, ore, oqueue, waiting, sent,
                    iqueue, arrived, got, overrun, hurried, flags, epending, pc>>
    BY <1>5 DEF sdWrite, usart, input, events
  <2> QED
    BY <2>1, <2>2, <2>3, <2>4, <2>5 DEF TypeOK
<1>6. ASSUME NEW w \in Sender, Put(w)
      PROVE  TypeOK'
  <2>1. [from |-> w, nr |-> written[w] + 1] \in Byte
    <3>1. left[w] > 0
      BY <1>6 DEF Put, Awake
    <3>2. written[w] + 1 \in 1..Limit
      BY <1>0, <3>1
    <3> QED
      BY <3>2 DEF Byte
  <2>2. oqueue' \in Seq(Byte) /\ Len(oqueue') <= OutSize
    BY <1>6, <2>1 DEF TypeOK, Put
  <2>3. /\ left' = [left EXCEPT ![w] = left[w] - 1]
        /\ written' = [written EXCEPT ![w] = written[w] + 1]
        /\ left[w] > 0
    BY <1>6 DEF Put, Awake
  <2>4. left' \in [Sender -> 0..FrameLen] /\ written' \in [Sender -> Nat]
    BY <1>0, <2>3
  <2>7. ASSUME NEW v \in Sender
        PROVE  written'[v] + left'[v] <= Limit
    BY <1>0, <2>3, <2>7
  <2>8. pc' = "reply" <=> left'[Radio] > 0
    <3>1. CASE w = Radio
      <4>1. left'[Radio] = left[Radio] - 1 /\ pc = "reply"
        BY <1>0, <2>3, <3>1 DEF TypeOK
      <4>2. pc' = IF left[Radio] = 1 THEN "wait" ELSE pc
        BY <1>6, <3>1 DEF Put
      <4> QED
        BY <1>0, <2>3, <3>1, <4>1, <4>2
    <3>2. CASE w # Radio
      <4>1. left'[Radio] = left[Radio] /\ pc' = pc
        BY <1>0, <1>6, <2>3, <3>2 DEF Put
      <4> QED
        BY <4>1 DEF TypeOK
    <3> QED
      BY <3>1, <3>2
  <2>5. cr1' \subseteq {"TXEIE", "TCIE"}
    BY <1>6 DEF TypeOK, Put, Notify
  <2>6. pc' \in {"wait", "flags", "get", "reply"}
    BY <1>6 DEF TypeOK, Put
  <2>9. UNCHANGED <<dr, shift, tc, rdr, ore, waiting, sent, iqueue, arrived,
                    got, overrun, hurried, flags, epending>>
    BY <1>6 DEF Put, input, events
  <2> QED
    BY <2>2, <2>4, <2>5, <2>6, <2>7, <2>8, <2>9 DEF TypeOK
<1>7. ASSUME NEW w \in Sender, Sleep(w)
      PROVE  TypeOK'
  <2>1. waiting' \in Seq(Sender)
    <3>1. waiting \in Seq(Sender) /\ waiting' = Append(waiting, w)
      BY <1>7 DEF TypeOK, Sleep
    <3> QED
      BY <3>1, AppendProperties
  <2>2. UNCHANGED <<cr1, dr, shift, tc, rdr, ore, oqueue, left, written, sent,
                    iqueue, arrived, got, overrun, hurried, flags, epending, pc>>
    BY <1>7 DEF Sleep, usart, input, events
  <2> QED
    BY <2>1, <2>2 DEF TypeOK
<1>8. CASE EventWait
  BY <1>8 DEF TypeOK, EventWait, usart, output, input
<1>9. CASE GetFlags
  BY <1>9 DEF TypeOK, GetFlags, usart, output, input
<1>10. CASE GetByte
  <2>1. chIQGetTimeout \in 0..Bytes
    <3>1. iqueue \in Seq(1..Bytes)
      BY DEF TypeOK
    <3>2. iqueue # <<>> => Head(iqueue) \in 1..Bytes
      BY <3>1, HeadTailProperties
    <3>3. 0 \in 0..Bytes /\ 1..Bytes \subseteq 0..Bytes
      OBVIOUS
    <3> QED
      BY <3>2, <3>3 DEF chIQGetTimeout
  <2>2. got' \in Seq(0..Bytes)
    <3>1. got \in Seq(0..Bytes) /\ got' = Append(got, chIQGetTimeout)
      BY <1>10 DEF TypeOK, GetByte
    <3> QED
      BY <2>1, <3>1, AppendProperties
  <2>3. iqueue' \in Seq(1..Bytes) /\ Len(iqueue') <= InSize
    <3>1. iqueue \in Seq(1..Bytes) /\ Len(iqueue) <= InSize
      BY DEF TypeOK
    <3>2. iqueue # <<>> => /\ Tail(iqueue) \in Seq(1..Bytes)
                           /\ Len(Tail(iqueue)) <= InSize
      BY <3>1, HeadTailProperties, LenProperties
    <3>3. CASE iqueue = <<>>
      BY <1>10, <3>1, <3>3 DEF GetByte
    <3>4. CASE iqueue # <<>>
      BY <1>10, <3>2, <3>4 DEF GetByte
    <3> QED
      BY <3>3, <3>4
  <2>4. /\ left' \in [Sender -> 0..FrameLen]
        /\ \A w \in Sender : written[w] + left'[w] <= Limit
        /\ pc' \in {"wait", "flags", "get", "reply"}
        /\ pc' = "reply" <=> left'[Radio] > 0
    <3>1. CASE left' = left /\ pc' = "wait"
      BY <1>0, <1>10, <3>1 DEF TypeOK, GetByte
    <3>2. CASE /\ left' = [left EXCEPT ![Radio] = FrameLen]
               /\ written[Radio] + FrameLen <= Limit
               /\ pc' = "reply"
      <4>1. left' \in [Sender -> 0..FrameLen]
        BY <1>0, <3>2
      <4>2. ASSUME NEW v \in Sender
            PROVE  written[v] + left'[v] <= Limit
        BY <1>0, <3>2, <4>2
      <4>3. left'[Radio] > 0
        BY <1>0, <3>2
      <4> QED
        BY <3>2, <4>1, <4>2, <4>3
    <3> QED
      BY <1>10, <3>1, <3>2 DEF GetByte
  <2> QED
    BY <1>10, <2>2, <2>3, <2>4 DEF TypeOK, GetByte, usart, events
<1>11. CASE UNCHANGED vars
  BY <1>11 DEF TypeOK, vars, usart, output, input, events
<1> QED
  BY <1>1, <1>2, <1>3, <1>4, <1>5, <1>6, <1>7, <1>8, <1>9, <1>10, <1>11
  DEF Next

\* Every variable keeps its type: the queues and the two registers keep within
\* their sizes, and ThreadRadio is inside sdWrite exactly when it replies.
THEOREM TypeCorrect == Spec => []TypeOK
<1>1. Init => TypeOK
  <2> SUFFICES ASSUME Init
               PROVE  TypeOK
    OBVIOUS
  <2>1. /\ left \in [Sender -> 0..FrameLen] /\ written \in [Sender -> Nat]
        /\ \A w \in Sender : written[w] + left[w] <= Limit
        /\ left[Radio] = 0
    BY SerialAssumption, LimitNat, RadioSends DEF Init
  <2>2. \A S : <<>> \in Seq(S)
    OBVIOUS
  <2>3. /\ dr = <<>> /\ shift = <<>> /\ rdr = <<>> /\ oqueue = <<>>
        /\ waiting = <<>> /\ iqueue = <<>> /\ got = <<>> /\ sent = <<>>
    BY DEF Init
  <2>4. Len(<<>>) = 0
    OBVIOUS
  <2>5. /\ Len(dr) <= 1 /\ Len(shift) <= 1 /\ Len(rdr) <= 1
        /\ Len(oqueue) <= OutSize /\ Len(iqueue) <= InSize
    BY <2>3, <2>4, SerialAssumption
  <2>6. /\ dr \in Seq(Byte) /\ shift \in Seq(Byte) /\ rdr \in Seq(1..Bytes)
        /\ oqueue \in Seq(Byte) /\ waiting \in Seq(Sender)
        /\ iqueue \in Seq(1..Bytes) /\ got \in Seq(0..Bytes)
        /\ sent \in Seq(Byte)
    BY <2>2, <2>3
  <2>7. /\ cr1 = {} /\ tc = FALSE /\ ore = FALSE /\ flags = {}
        /\ epending = FALSE /\ pc = "wait" /\ arrived = 0 /\ overrun = FALSE
        /\ hurried = FALSE
    BY DEF Init
  <2>8. arrived \in 0..Bytes
    BY <2>7, SerialAssumption
  <2>9. pc = "reply" <=> left[Radio] > 0
    BY <2>1, <2>7
  <2>10. /\ cr1 \subseteq {"TXEIE", "TCIE"} /\ flags \subseteq Flag
         /\ pc \in {"wait", "flags", "get", "reply"}
         /\ tc \in BOOLEAN /\ ore \in BOOLEAN
         /\ epending \in BOOLEAN /\ overrun \in BOOLEAN /\ hurried \in BOOLEAN
    BY <2>7
  <2> QED
    BY <2>1, <2>5, <2>6, <2>8, <2>9, <2>10 DEF TypeOK
<1> QED
  BY <1>1, TypeCorrectStep, PTL DEF Spec

-----------------------------------------------------------------------------
(* The input side.                                                         *)

\* NoPhantomByte is not inductive: with the flag raised and a fetch under way
\* the fetch could empty the queue.  The two never come together, since the
\* flag is raised for an empty queue only.
OneClaim == ~("IO_INPUT_AVAILABLE" \in flags /\ pc = "get")

LEMMA InputStep ==
    TypeOK /\ NoPhantomByte /\ OneClaim /\ [Next]_vars
        => NoPhantomByte' /\ OneClaim'
<1> SUFFICES ASSUME TypeOK, NoPhantomByte, OneClaim, [Next]_vars
             PROVE  NoPhantomByte' /\ OneClaim'
  OBVIOUS
<1> USE DEF NoPhantomByte, OneClaim
<1>1. CASE UNCHANGED <<iqueue, flags, pc>>
  BY <1>1
<1>2. CASE serve_interrupt
  <2>1. pc' = pc /\ flags' = flags \cup Raised /\ iqueue' = Incoming
    BY <1>2 DEF serve_interrupt
  <2>2. "IO_INPUT_AVAILABLE" \in Raised => rdr # <<>> /\ iqueue = <<>>
    BY DEF Raised, FirstByte
  <2>3. iqueue # <<>> \/ rdr # <<>> => Incoming # <<>>
    <3>1. /\ iqueue \in Seq(1..Bytes) /\ rdr \in Seq(1..Bytes)
      BY DEF TypeOK
    <3>2. iqueue \o rdr = <<>> => iqueue = <<>> /\ rdr = <<>>
      BY <3>1, ConcatEqualIffEmpty
    <3>3. Len(iqueue) = InSize => iqueue # <<>>
      BY <3>1, SerialAssumption
    <3> QED
      BY <3>2, <3>3 DEF Incoming
  <2> QED
    BY <2>1, <2>2, <2>3
<1>3. ASSUME NEW w \in Sender, Put(w)
      PROVE  NoPhantomByte' /\ OneClaim'
  <2>1. iqueue' = iqueue /\ flags' = flags /\ (pc' = "wait" \/ pc' = pc)
    BY <1>3 DEF Put, input, events
  <2> QED
    BY <2>1
<1>4. CASE GetFlags
  <2>1. /\ pc = "flags" /\ flags' = {} /\ iqueue' = iqueue
        /\ pc' = IF "IO_INPUT_AVAILABLE" \in flags THEN "get" ELSE "wait"
    BY <1>4 DEF GetFlags, input
  <2> QED
    BY <2>1
<1>5. CASE GetByte
  <2>1. pc = "get" /\ pc' \in {"wait", "reply"} /\ flags' = flags
    BY <1>5 DEF GetByte, events
  <2> QED
    BY <2>1
<1>6. CASE EventWait
  <2>1. pc' = "flags" /\ flags' = flags /\ iqueue' = iqueue
    BY <1>6 DEF EventWait, input
  <2> QED
    BY <2>1
<1>7. ShiftOut \/ ShiftLoad \/ ByteArrives => UNCHANGED <<iqueue, flags, pc>>
  BY DEF ShiftOut, ShiftLoad, ByteArrives, input, events
<1>8. \A w \in Sender :
          sdWrite(w) \/ Sleep(w) => UNCHANGED <<iqueue, flags, pc>>
  BY DEF sdWrite, Sleep, input, events
<1>9. UNCHANGED vars => UNCHANGED <<iqueue, flags, pc>>
  BY DEF vars, input, events
<1> QED
  BY <1>1, <1>2, <1>3, <1>4, <1>5, <1>6, <1>7, <1>8, <1>9 DEF Next

\* ThreadRadio never parses the error code of an empty queue: sdIncomingDataI
\* raises IO_INPUT_AVAILABLE for the first byte only, and one flag stands for
\* one fetch.
THEOREM NoPhantomByteEver == Spec => []NoPhantomByte
<1>1. Init => NoPhantomByte /\ OneClaim
  BY DEF Init, NoPhantomByte, OneClaim
<1> QED
  BY <1>1, TypeCorrect, InputStep, PTL DEF Spec

-----------------------------------------------------------------------------
(* ThreadRadio does not sleep on a byte unless the ground station hurries.  *)

\* As long as it does not, there is one byte at a time; in the queue, it has
\* its flag, and the flag its event or the thread's attention.
OneAtATime ==
    ~hurried =>
        /\ iqueue # <<>> => rdr = <<>> /\ Len(iqueue) = 1
        /\ iqueue # <<>> =>
              \/ pc = "get"
              \/ "IO_INPUT_AVAILABLE" \in flags /\ (epending \/ pc = "flags")

LEMMA OneAtATimeStep ==
    TypeOK /\ OneAtATime /\ [Next]_vars => OneAtATime'
<1> SUFFICES ASSUME TypeOK, OneAtATime, [Next]_vars
             PROVE  OneAtATime'
  OBVIOUS
<1> USE DEF OneAtATime
<1>0. iqueue \in Seq(1..Bytes) /\ rdr \in Seq(1..Bytes) /\ Len(rdr) <= 1
  BY DEF TypeOK
<1>1. CASE UNCHANGED <<hurried, iqueue, rdr, pc, flags, epending>>
  BY <1>1
<1>2. CASE ByteArrives
  <2>1. hurried' = (hurried \/ rdr # <<>> \/ iqueue # <<>>) /\ iqueue' = iqueue
    BY <1>2 DEF ByteArrives
  <2> QED
    BY <2>1
<1>3. CASE serve_interrupt
  <2>1. /\ hurried' = hurried /\ pc' = pc /\ rdr' = <<>> /\ iqueue' = Incoming
        /\ flags' = flags \cup Raised /\ epending' = Signalled
    BY <1>3 DEF serve_interrupt
  <2>2. CASE rdr = <<>>
    <3>1. iqueue \o rdr = iqueue
      BY <1>0, <2>2, ConcatEmptySeq
    <3>2. iqueue' = iqueue
      BY <2>1, <3>1 DEF Incoming
    <3>3. epending => epending'
      BY <2>1 DEF Signalled
    <3> QED
      BY <2>1, <2>2, <3>2, <3>3
  <2>3. CASE rdr # <<>> /\ ~hurried
    <3>1. iqueue = <<>>
      BY <2>3
    <3>2. FirstByte /\ "IO_INPUT_AVAILABLE" \in Raised
      BY <2>3, <3>1 DEF FirstByte, Raised, Flag
    <3>3. epending' /\ "IO_INPUT_AVAILABLE" \in flags'
      BY <2>1, <3>2 DEF Signalled
    <3>4. Len(iqueue) # InSize
      BY <3>1, SerialAssumption
    <3>5. iqueue' = rdr
      BY <1>0, <2>1, <3>1, <3>4, ConcatEmptySeq DEF Incoming
    <3>6. Len(rdr) = 1
      <4>1. Len(rdr) \in Nat \ {0}
        BY <1>0, <2>3, NonEmptyLen
      <4>2. \A n \in Nat \ {0} : n <= 1 => n = 1
        OBVIOUS
      <4> QED
        BY <1>0, <4>1, <4>2
    <3> QED
      BY <2>1, <3>3, <3>5, <3>6
  <2>4. CASE hurried
    BY <2>1, <2>4
  <2> QED
    BY <2>2, <2>3, <2>4
<1>4. ASSUME NEW w \in Sender, Put(w)
      PROVE  OneAtATime'
  <2>1. UNCHANGED <<hurried, iqueue, rdr, flags, epending>>
    BY <1>4 DEF Put, input, events
  <2>2. pc' = pc \/ pc = "reply"
    <3>1. left[w] > 0
      BY <1>4 DEF Put, Awake
    <3>2. w = Radio => pc = "reply"
      BY <3>1 DEF TypeOK
    <3> QED
      BY <1>4, <3>2 DEF Put
  <2> QED
    BY <2>1, <2>2
<1>5. CASE EventWait
  <2>1. /\ UNCHANGED <<hurried, iqueue, rdr, flags>>
        /\ pc = "wait" /\ pc' = "flags"
    BY <1>5 DEF EventWait, input, usart
  <2> QED
    BY <2>1
<1>6. CASE GetFlags
  <2>1. /\ UNCHANGED <<hurried, iqueue, rdr, epending>> /\ pc = "flags"
        /\ pc' = IF "IO_INPUT_AVAILABLE" \in flags THEN "get" ELSE "wait"
    BY <1>6 DEF GetFlags, input, usart
  <2> QED
    BY <2>1
<1>7. CASE GetByte
  <2>1. /\ UNCHANGED <<hurried, rdr>>
        /\ iqueue' = IF iqueue = <<>> THEN <<>> ELSE Tail(iqueue)
    BY <1>7 DEF GetByte, usart
  <2>2. ~hurried => iqueue' = <<>>
    <3>1. ASSUME iqueue # <<>>, Len(iqueue) = 1
          PROVE  Tail(iqueue) = <<>>
      <4>1. /\ Tail(iqueue) \in Seq(1..Bytes)
            /\ Len(Tail(iqueue)) = Len(iqueue) - 1
        BY <1>0, <3>1, HeadTailProperties
      <4>2. Len(Tail(iqueue)) = 0
        BY <3>1, <4>1
      <4>3. Tail(iqueue) # <<>> => Len(Tail(iqueue)) \in Nat \ {0}
        BY <4>1, NonEmptyLen
      <4> QED
        BY <4>2, <4>3
    <3> QED
      BY <2>1, <3>1
  <2> QED
    BY <2>1, <2>2
<1>8. \/ ShiftOut \/ ShiftLoad \/ \E w \in Sender : sdWrite(w) \/ Sleep(w)
      \/ UNCHANGED vars
      => UNCHANGED <<hurried, iqueue, rdr, pc, flags, epending>>
  BY DEF ShiftOut, ShiftLoad, sdWrite, Sleep, vars, usart, input, events
<1> QED
  BY <1>1, <1>2, <1>3, <1>4, <1>5, <1>6, <1>7, <1>8 DEF Next

\* While no byte comes before the last one was fetched, ThreadRadio never
\* sleeps on a byte, for any queue size and whatever the transmitter does.
THEOREM RadioAwakeAlways == Spec => []RadioAwake
<1>1. Init => OneAtATime
  BY DEF Init, OneAtATime
<1>2. OneAtATime => RadioAwake
  BY DEF OneAtATime, RadioAwake, RadioNeverDeaf
<1> QED
  BY <1>1, <1>2, TypeCorrect, OneAtATimeStep, PTL DEF Spec

-----------------------------------------------------------------------------
(* Bytes come out in the order they went in.                               *)

\* What has come in and was not lost, fetched or not.
Seen == got \o iqueue \o rdr
Sorted(s) == \A i \in 1..(Len(s) - 1) : s[i] < s[i + 1]

\* The bytes seen are in order and none is newer than the newest, so that the
\* next one keeps the order; a gap has been noticed.
SeenInv ==
    /\ Seen \in Seq(1..Bytes)
    /\ Sorted(Seen)
    /\ \A i \in 1..Len(Seen) : Seen[i] <= arrived
    /\ Len(Seen) < arrived => ore \/ overrun

\* A sequence in order stays so when something greater is appended.
LEMMA AppendSorted ==
    ASSUME NEW s \in Seq(Nat), NEW n \in Nat, Sorted(s),
           \A i \in 1..Len(s) : s[i] <= n
    PROVE  /\ Sorted(Append(s, n + 1))
           /\ \A i \in 1..Len(Append(s, n + 1)) : Append(s, n + 1)[i] <= n + 1
           /\ Len(Append(s, n + 1)) = Len(s) + 1
<1>1. /\ Len(Append(s, n + 1)) = Len(s) + 1 /\ Len(s) \in Nat
      /\ \A i \in 1..Len(s) : Append(s, n + 1)[i] = s[i] /\ s[i] \in Nat
      /\ Append(s, n + 1)[Len(s) + 1] = n + 1
  BY AppendProperties, ElementOfSeq, LenProperties
<1>2. ASSUME NEW i \in 1..Len(s)
      PROVE  Append(s, n + 1)[i] < Append(s, n + 1)[i + 1]
  <2>1. CASE i = Len(s)
    BY <1>1, <2>1
  <2>2. CASE i # Len(s)
    BY <1>1, <2>2 DEF Sorted
  <2> QED
    BY <2>1, <2>2
<1> QED
  BY <1>1, <1>2 DEF Sorted

\* So does its beginning.
LEMMA PrefixSorted ==
    ASSUME NEW S, S \subseteq Nat, NEW s \in Seq(S), NEW t \in Seq(S),
           NEW n \in Nat, Sorted(s \o t),
           \A i \in 1..Len(s \o t) : (s \o t)[i] <= n
    PROVE  Sorted(s) /\ \A i \in 1..Len(s) : s[i] <= n
<1>1. /\ Len(s \o t) = Len(s) + Len(t) /\ Len(s) \in Nat /\ Len(t) \in Nat
      /\ \A i \in 1..Len(s) : (s \o t)[i] = s[i]
  BY ConcatProperties, LenProperties
<1> QED
  BY <1>1 DEF Sorted

\* A queue is its first byte and the rest.
LEMMA HeadAndTail ==
    ASSUME NEW S, NEW s \in Seq(S), s # <<>>
    PROVE  s = <<Head(s)>> \o Tail(s)
<1>1. /\ Head(s) \in S /\ Tail(s) \in Seq(S) /\ Len(Tail(s)) = Len(s) - 1
      /\ \A i \in 1..Len(Tail(s)) : Tail(s)[i] = s[i + 1]
  BY HeadTailProperties
<1>2. <<Head(s)>> \in Seq(S) /\ Len(<<Head(s)>>) = 1
  BY <1>1, OneElement
<1>3. /\ <<Head(s)>> \o Tail(s) \in Seq(S)
      /\ Len(<<Head(s)>> \o Tail(s)) = 1 + Len(Tail(s))
      /\ \A i \in 1..(1 + Len(Tail(s))) :
            (<<Head(s)>> \o Tail(s))[i] =
                IF i <= 1 THEN <<Head(s)>>[i] ELSE Tail(s)[i - 1]
  BY <1>1, <1>2, ConcatProperties
<1>4. Len(s) \in Nat \ {0} /\ Head(s) = s[1]
  BY NonEmptyLen
<1>5. ASSUME NEW i \in 1..Len(s)
      PROVE  s[i] = (<<Head(s)>> \o Tail(s))[i]
  BY <1>1, <1>3, <1>4
<1> QED
  BY <1>1, <1>3, <1>4, <1>5, SeqEqual

\* Concatenation is associative, read from the other side.
LEMMA Regrouped ==
    ASSUME NEW S, NEW s \in Seq(S), NEW t \in Seq(S), NEW u \in Seq(S)
    PROVE  s \o (t \o u) = (s \o t) \o u
BY ConcatAssociative

\* A function on 1..n with values in S is a sequence.
LEMMA FunctionIsSeq ==
    ASSUME NEW S, NEW n \in Nat, NEW f \in [1..n -> S]
    PROVE  f \in Seq(S)
OBVIOUS

\* The bytes seen, in the pieces the steps move.
LEMMA SeenParts ==
    ASSUME TypeOK, SeenInv
    PROVE  /\ got \in Seq(1..Bytes) /\ got \in Seq(Nat)
           /\ iqueue \in Seq(1..Bytes) /\ rdr \in Seq(1..Bytes)
           /\ got \o iqueue \in Seq(1..Bytes)
           /\ Seen = (got \o iqueue) \o rdr
<1>1. /\ got \in Seq(0..Bytes)
      /\ iqueue \in Seq(1..Bytes) /\ rdr \in Seq(1..Bytes)
  BY DEF TypeOK
<1>2. iqueue \in Seq(0..Bytes) /\ rdr \in Seq(0..Bytes)
  <2>1. 1..Bytes \subseteq 0..Bytes
    OBVIOUS
  <2> QED
    BY <1>1, <2>1, SeqMonotonic
<1>3. got \o iqueue \in Seq(0..Bytes)
  BY <1>1, <1>2, ConcatProperties
<1>4. \A i \in 1..Len(got) : got[i] \in 1..Bytes
  <2> TAKE i \in 1..Len(got)
  <2>1. /\ Len(Seen) = Len(got \o iqueue) + Len(rdr)
        /\ \A k \in 1..(Len(got \o iqueue) + Len(rdr)) :
              Seen[k] = IF k <= Len(got \o iqueue) THEN (got \o iqueue)[k]
                        ELSE rdr[k - Len(got \o iqueue)]
    BY <1>2, <1>3, ConcatProperties DEF Seen
  <2>2. /\ Len(got \o iqueue) = Len(got) + Len(iqueue)
        /\ (got \o iqueue)[i] = got[i]
        /\ Len(got) \in Nat /\ Len(iqueue) \in Nat /\ Len(rdr) \in Nat
    BY <1>1, <1>2, ConcatProperties, LenProperties
  <2>3. Seen[i] = got[i] /\ i \in 1..Len(Seen)
    BY <2>1, <2>2
  <2> QED
    BY <2>3, ElementOfSeq DEF SeenInv
<1>5. got \in Seq(1..Bytes)
  <2>1. Len(got) \in Nat /\ got \in [1..Len(got) -> 0..Bytes]
    BY <1>1, LenProperties
  <2>2. got \in [1..Len(got) -> 1..Bytes]
    BY <1>4, <2>1
  <2> QED
    BY <2>1, <2>2, FunctionIsSeq
<1>6. got \o iqueue \in Seq(1..Bytes)
  BY <1>1, <1>5, ConcatProperties
<1>7. got \in Seq(Nat)
  <2>1. 0..Bytes \subseteq Nat
    OBVIOUS
  <2> QED
    BY <1>1, <2>1, SeqMonotonic
<1> QED
  BY <1>1, <1>5, <1>6, <1>7 DEF Seen

\* The steps that move a byte along, or lose it.
LEMMA SeenStep ==
    TypeOK /\ NoPhantomByte /\ SeenInv /\ [Next]_vars => SeenInv'
<1> SUFFICES ASSUME TypeOK, NoPhantomByte, SeenInv, [Next]_vars
             PROVE  SeenInv'
  OBVIOUS
<1>0. /\ got \in Seq(1..Bytes) /\ iqueue \in Seq(1..Bytes)
      /\ rdr \in Seq(1..Bytes) /\ got \o iqueue \in Seq(1..Bytes)
      /\ Seen = (got \o iqueue) \o rdr
      /\ arrived \in 0..Bytes /\ Bytes \in Nat
  BY SeenParts, SerialAssumption DEF TypeOK
<1>1. CASE UNCHANGED <<got, iqueue, rdr, arrived, ore, overrun>>
  BY <1>1 DEF SeenInv, Seen, Sorted
<1>2. CASE ByteArrives
  <2>1. /\ arrived' = arrived + 1 /\ arrived < Bytes
        /\ UNCHANGED <<got, iqueue, overrun>>
    BY <1>2 DEF ByteArrives
  <2>2. CASE rdr = <<>>
    <3>1. rdr' = <<arrived + 1>> /\ ore' = ore
      BY <1>2, <2>2 DEF ByteArrives
    <3>2. Seen = got \o iqueue
      BY <1>0, <2>2, ConcatEmptySeq
    <3>3. Seen \in Seq(1..Bytes) /\ Seen \in Seq(Nat) /\ arrived + 1 \in 1..Bytes
      BY <1>0, <2>1 DEF SeenInv
    <3>4. Seen' = Append(Seen, arrived + 1)
      <4>1. Append(Seen, arrived + 1) = Seen \o <<arrived + 1>>
        BY <3>3, AppendIsConcat
      <4> QED
        BY <2>1, <3>1, <3>2, <4>1 DEF Seen
    <3>5. Seen' \in Seq(1..Bytes)
      BY <3>3, <3>4, AppendProperties
    <3>6. PICK s \in Seq(Nat) : s = Seen
      BY <3>3
    <3>7. arrived \in Nat /\ Sorted(s) /\ \A i \in 1..Len(s) : s[i] <= arrived
      BY <1>0, <3>6 DEF SeenInv
    <3>8. /\ Sorted(Append(s, arrived + 1))
          /\ \A i \in 1..Len(Append(s, arrived + 1)) :
                Append(s, arrived + 1)[i] <= arrived + 1
          /\ Len(Append(s, arrived + 1)) = Len(s) + 1
      BY <3>7, AppendSorted
    <3>9. PICK t : t = Append(s, arrived + 1)
      OBVIOUS
    <3>10. Seen' = t
      BY <3>4, <3>6, <3>9
    <3>11. /\ Sorted(t) /\ Len(t) = Len(s) + 1
           /\ \A i \in 1..Len(t) : t[i] <= arrived + 1
      BY <3>8, <3>9
    <3>12. Sorted(Seen')
      BY <3>10, <3>11
    <3>13. \A i \in 1..Len(Seen') : Seen'[i] <= arrived'
      BY <2>1, <3>10, <3>11
    <3>14. Len(Seen') < arrived' => ore' \/ overrun'
      <4>1. Len(Seen) \in Nat
        BY <3>3, LenProperties
      <4> QED
        BY <1>0, <2>1, <3>1, <3>6, <3>10, <3>11, <4>1 DEF SeenInv
    <3> QED
      BY <3>5, <3>12, <3>13, <3>14 DEF SeenInv, Sorted
  <2>3. CASE rdr # <<>>
    <3>1. rdr' = rdr /\ ore'
      BY <1>2, <2>3 DEF ByteArrives
    <3>2. Seen' = Seen
      BY <2>1, <3>1 DEF Seen
    <3>3. \A i \in 1..Len(Seen) : Seen[i] \in Nat /\ Seen[i] <= arrived + 1
      <4> TAKE i \in 1..Len(Seen)
      <4>1. Seen[i] \in 1..Bytes /\ Seen[i] <= arrived
        BY ElementOfSeq DEF SeenInv
      <4>2. \A a \in 0..Bytes, x \in 1..Bytes :
                x <= a => x \in Nat /\ x <= a + 1
        OBVIOUS
      <4> QED
        BY <1>0, <4>1, <4>2
    <3> QED
      BY <2>1, <3>1, <3>2, <3>3 DEF SeenInv, Sorted
  <2> QED
    BY <2>2, <2>3
<1>3. CASE serve_interrupt
  <2>1. /\ rdr' = <<>> /\ iqueue' = Incoming /\ UNCHANGED <<got, arrived>>
        /\ overrun' = (overrun \/ OverrunSeen)
    BY <1>3 DEF serve_interrupt
  <2>2. ore \/ overrun => overrun'
    BY <2>1 DEF OverrunSeen
  <2>3. CASE Len(iqueue) = InSize
    <3>1. Seen' = got \o iqueue
      <4>1. iqueue' = iqueue
        BY <2>1, <2>3 DEF Incoming
      <4>2. Seen' = (got \o iqueue) \o <<>>
        BY <2>1, <4>1 DEF Seen
      <4> QED
        BY <1>0, <4>2, ConcatEmptySeq
    <3>2. 1..Bytes \subseteq Nat /\ arrived \in Nat
      BY <1>0
    <3>3. Sorted(got \o iqueue)
          /\ \A i \in 1..Len(got \o iqueue) : (got \o iqueue)[i] <= arrived
      <4>1. Sorted((got \o iqueue) \o rdr)
            /\ \A i \in 1..Len((got \o iqueue) \o rdr) :
                   ((got \o iqueue) \o rdr)[i] <= arrived
        BY <1>0 DEF SeenInv
      <4> QED
        BY <1>0, <3>2, <4>1, PrefixSorted
    <3>4. Len(got \o iqueue) < arrived => overrun'
      <4>1. CASE rdr = <<>>
        <5>1. Seen = got \o iqueue
          BY <1>0, <4>1, ConcatEmptySeq
        <5> QED
          BY <2>2, <5>1 DEF SeenInv
      <4>2. CASE rdr # <<>>
        BY <2>1, <2>3, <4>2 DEF OverrunSeen
      <4> QED
        BY <4>1, <4>2
    <3> QED
      BY <1>0, <2>1, <3>1, <3>3, <3>4 DEF SeenInv, Sorted
  <2>4. CASE Len(iqueue) # InSize
    <3>1. Seen' = Seen
      <4>1. iqueue' = iqueue \o rdr
        BY <2>1, <2>4 DEF Incoming
      <4>2. Seen' = (got \o (iqueue \o rdr)) \o <<>>
        BY <2>1, <4>1 DEF Seen
      <4>3. got \o (iqueue \o rdr) = (got \o iqueue) \o rdr
        <5>1. /\ got \in Seq(1..Bytes) /\ iqueue \in Seq(1..Bytes)
              /\ rdr \in Seq(1..Bytes)
          BY <1>0
        <5> QED
          BY <5>1, Regrouped
      <4>4. Seen \in Seq(1..Bytes)
        BY DEF SeenInv
      <4> QED
        BY <1>0, <4>2, <4>3, <4>4, ConcatEmptySeq
    <3> QED
      BY <2>1, <2>2, <3>1 DEF SeenInv, Sorted
  <2> QED
    BY <2>3, <2>4
<1>4. CASE GetByte
  <2>1. /\ iqueue # <<>>
        /\ got' = Append(got, Head(iqueue)) /\ iqueue' = Tail(iqueue)
        /\ UNCHANGED <<rdr, arrived, ore, overrun>>
    BY <1>4 DEF GetByte, NoPhantomByte, chIQGetTimeout, usart
  <2>2. PICK h \in 1..Bytes, t \in Seq(1..Bytes) :
            h = Head(iqueue) /\ t = Tail(iqueue)
    BY <1>0, <2>1, HeadTailProperties
  <2>3. iqueue = <<h>> \o t
    <3>1. iqueue = <<Head(iqueue)>> \o Tail(iqueue)
      BY <1>0, <2>1, HeadAndTail
    <3> QED
      BY <2>2, <3>1
  <2>4. Append(got, h) \o t = got \o iqueue
    <3>1. Append(got, h) = got \o <<h>> /\ <<h>> \in Seq(1..Bytes)
      BY <1>0, <2>2, AppendIsConcat
    <3>2. got \o (<<h>> \o t) = (got \o <<h>>) \o t
      <4>1. got \in Seq(1..Bytes)
        BY <1>0
      <4> QED
        BY <2>2, <3>1, <4>1, Regrouped
    <3> QED
      BY <2>3, <3>1, <3>2
  <2>5. Seen' = Seen
    BY <1>0, <2>1, <2>2, <2>4 DEF Seen
  <2> QED
    BY <2>1, <2>5 DEF SeenInv, Sorted
<1>5. \/ ShiftOut \/ ShiftLoad \/ EventWait \/ GetFlags
      \/ \E w \in Sender : sdWrite(w) \/ Put(w) \/ Sleep(w)
      \/ UNCHANGED vars
      => UNCHANGED <<got, iqueue, rdr, arrived, ore, overrun>>
  BY DEF ShiftOut, ShiftLoad, EventWait, GetFlags, sdWrite, Put, Sleep, vars,
         usart, input
<1> QED
  BY <1>1, <1>2, <1>3, <1>4, <1>5 DEF Next

\* ThreadRadio fetches bytes in the order they came, none twice, and none is
\* missing without an overrun reported, for any queue size and any number of
\* bytes at any moments.
THEOREM InputIntactAlways == Spec => []InputIntact
<1>1. Init => SeenInv
  <2> SUFFICES ASSUME Init
               PROVE  SeenInv
    OBVIOUS
  <2>1. Seen = <<>> \o <<>> \o <<>> /\ arrived = 0
    BY DEF Init, Seen
  <2>2. <<>> \in Seq(1..Bytes)
    OBVIOUS
  <2>3. Seen = <<>>
    BY <2>1, <2>2, ConcatEmptySeq
  <2> QED
    BY <2>1, <2>2, <2>3 DEF SeenInv, Sorted
<1>2. SeenInv => InputIntact
  BY DEF SeenInv, InputIntact, Seen, Sorted
<1> QED
  BY <1>1, <1>2, TypeCorrect, NoPhantomByteEver, SeenStep, PTL DEF Spec

-----------------------------------------------------------------------------
(* The output side.                                                        *)

LEMMA ArmedStep == TypeOK /\ TransmitArmed /\ [Next]_vars => TransmitArmed'
<1> SUFFICES ASSUME TypeOK, TransmitArmed, [Next]_vars
             PROVE  TransmitArmed'
  OBVIOUS
<1> USE DEF TransmitArmed
<1>1. CASE UNCHANGED <<oqueue, cr1>>
  BY <1>1
<1>2. CASE serve_interrupt
  <2>1. cr1' = NextCR1 /\ (oqueue = <<>> => oqueue' = <<>>)
    BY <1>2 DEF serve_interrupt, Fed
  <2>2. oqueue # <<>> => "TXEIE" \in NextCR1
    BY DEF NextCR1, RanDry
  <2> QED
    BY <2>1, <2>2
<1>3. ASSUME NEW w \in Sender, Put(w)
      PROVE  TransmitArmed'
  BY <1>3 DEF Put, Notify
<1>4. ShiftOut \/ ShiftLoad \/ ByteArrives => UNCHANGED <<oqueue, cr1>>
  BY DEF ShiftOut, ShiftLoad, ByteArrives, output
<1>5. \A w \in Sender : sdWrite(w) \/ Sleep(w) => UNCHANGED <<oqueue, cr1>>
  BY DEF sdWrite, Sleep, usart
<1>6. EventWait \/ GetFlags \/ GetByte => UNCHANGED <<oqueue, cr1>>
  BY DEF EventWait, GetFlags, GetByte, output, usart
<1>7. UNCHANGED vars => UNCHANGED <<oqueue, cr1>>
  BY DEF vars, output, usart
<1> QED
  BY <1>1, <1>2, <1>3, <1>4, <1>5, <1>6, <1>7 DEF Next

\* A byte in the output queue always has the transmitter interrupt enabled,
\* although serve_interrupt writes CR1 from the value it read on entry.
THEOREM AlwaysArmed == Spec => []TransmitArmed
<1>1. Init => TransmitArmed
  BY DEF Init, TransmitArmed
<1> QED
  BY <1>1, TypeCorrect, ArmedStep, PTL DEF Spec

-----------------------------------------------------------------------------
(* Sleeping for room.                                                      *)

\* The threads that could fill a free place.
AwakeSet == {w \in Sender : Awake(w)}

\* NoLostWakeup needs to know that the thread woken is one more awake thread:
\* every sleeper is inside sdWrite, and stands in line once.
SleepersInside ==
    /\ \A i \in 1..Len(waiting) : left[waiting[i]] > 0
    /\ \A i, j \in 1..Len(waiting) : waiting[i] = waiting[j] => i = j
RoomInv == SleepersInside /\ NoLostWakeup

LEMMA AwakeFinite ==
    /\ IsFiniteSet(AwakeSet) /\ Cardinality(AwakeSet) \in Nat
    /\ IsFiniteSet(AwakeSet)' /\ Cardinality(AwakeSet)' \in Nat
<1>1. IsFiniteSet(Sender)
  BY SerialAssumption, FS_AddElement DEF Sender
<1>2. AwakeSet \subseteq Sender /\ AwakeSet' \subseteq Sender
  BY DEF AwakeSet
<1> QED
  BY <1>1, <1>2, FS_Subset, FS_CardinalityType

\* Threads that enter sdWrite, and steps that have nothing to do with the
\* output queue, add awake threads at most.
LEMMA RoomUntouched ==
    ASSUME TypeOK, RoomInv, UNCHANGED <<oqueue, waiting>>,
           \A w \in Sender : left[w] > 0 => left'[w] > 0
    PROVE  RoomInv'
<1>1. \A i \in 1..Len(waiting) : waiting[i] \in Sender
  BY DEF TypeOK
<1>2. SleepersInside'
  BY <1>1 DEF RoomInv, SleepersInside
<1>3. AwakeSet \subseteq AwakeSet'
  BY DEF AwakeSet, Awake, Asleep
<1>4. Cardinality(AwakeSet) <= Cardinality(AwakeSet')
  BY <1>3, AwakeFinite, FS_Subset
<1>5. NoLostWakeup'
  <2>1. Cardinality(AwakeSet)' = Cardinality(AwakeSet')
    OBVIOUS
  <2>2. Len(oqueue) \in Nat
    BY DEF TypeOK
  <2> QED
    BY <1>4, <2>1, <2>2, AwakeFinite, SerialAssumption
    DEF RoomInv, NoLostWakeup, AwakeSet
<1> QED
  BY <1>2, <1>5 DEF RoomInv

LEMMA RoomInterrupt == TypeOK /\ RoomInv /\ serve_interrupt => RoomInv'
<1> SUFFICES ASSUME TypeOK, RoomInv, serve_interrupt
             PROVE  RoomInv'
  OBVIOUS
<1>0. /\ left' = left /\ waiting \in Seq(Sender) /\ oqueue \in Seq(Byte)
      /\ Len(waiting) \in Nat /\ Len(oqueue) \in Nat
  BY LenProperties DEF serve_interrupt, TypeOK
<1>1. CASE ~Fed
  <2>1. UNCHANGED <<oqueue, waiting>>
    BY <1>1 DEF serve_interrupt, StillWaiting
  <2> QED
    BY <1>0, <2>1, RoomUntouched
<1>2. CASE Fed /\ waiting = <<>>
  <2>1. waiting' = <<>>
    BY <1>2 DEF serve_interrupt, StillWaiting
  <2> QED
    BY <2>1 DEF RoomInv, SleepersInside, NoLostWakeup
<1>3. CASE Fed /\ waiting # <<>>
  <2>1. waiting' = Tail(waiting) /\ oqueue' = Tail(oqueue) /\ oqueue # <<>>
    BY <1>3 DEF serve_interrupt, StillWaiting, Fed
  <2>2. /\ Len(waiting') = Len(waiting) - 1 /\ Len(oqueue') = Len(oqueue) - 1
        /\ \A i \in 1..Len(waiting') : waiting'[i] = waiting[i + 1]
    BY <1>0, <1>3, <2>1, HeadTailProperties
  <2>0. 1 \in 1..Len(waiting) /\ waiting[1] \in Sender
    BY <1>0, <1>3, EmptySeq, ElementOfSeq
  <2>3. PICK h \in Sender : h = waiting[1]
    BY <2>0
  <2>4. /\ \A i \in 1..Len(waiting) : left[waiting[i]] > 0
        /\ \A i, j \in 1..Len(waiting) : waiting[i] = waiting[j] => i = j
    BY DEF RoomInv, SleepersInside
  <2>5. SleepersInside'
    <3>1. \A i \in 1..Len(waiting') : i + 1 \in 1..Len(waiting)
      BY <1>0, <2>2
    <3>2. \A i \in 1..Len(waiting') : left'[waiting'[i]] > 0
      BY <1>0, <2>2, <2>4, <3>1
    <3>3. ASSUME NEW i \in 1..Len(waiting'), NEW j \in 1..Len(waiting'),
                 waiting'[i] = waiting'[j]
          PROVE  i = j
      <4>1. i + 1 = j + 1
        BY <2>2, <2>4, <3>1, <3>3
      <4> QED
        BY <4>1
    <3> QED
      BY <3>2, <3>3 DEF SleepersInside
  <2>6. left[h] > 0 /\ Asleep(h) /\ ~Asleep(h)'
    <3>1. left[h] > 0 /\ Asleep(h)
      BY <2>0, <2>3, <2>4 DEF Asleep
    <3>2. ASSUME NEW i \in 1..Len(waiting')
          PROVE  waiting'[i] # h
      <4>1. i + 1 \in 1..Len(waiting) /\ i + 1 # 1
        BY <1>0, <2>2
      <4> QED
        BY <2>0, <2>2, <2>3, <2>4, <4>1
    <3> QED
      BY <3>1, <3>2 DEF Asleep
  <2>7. ASSUME NEW w \in Sender, w # h
        PROVE  Asleep(w)' <=> Asleep(w)
    <3>1. ASSUME NEW i \in 1..Len(waiting), waiting[i] = w
          PROVE  i - 1 \in 1..Len(waiting') /\ waiting'[i - 1] = w
      <4>1. i # 1
        BY <2>3, <2>7, <3>1
      <4>2. i - 1 \in 1..Len(waiting')
        BY <1>0, <2>2, <4>1
      <4> QED
        BY <2>2, <3>1, <4>2
    <3>2. ASSUME NEW i \in 1..Len(waiting'), waiting'[i] = w
          PROVE  i + 1 \in 1..Len(waiting) /\ waiting[i + 1] = w
      BY <1>0, <2>2, <3>2
    <3> QED
      BY <3>1, <3>2 DEF Asleep
  <2>8. AwakeSet' = AwakeSet \cup {h} /\ h \notin AwakeSet
    <3>1. h \notin AwakeSet
      BY <2>6 DEF AwakeSet, Awake
    <3>2. Awake(h)'
      BY <1>0, <2>6 DEF Awake
    <3>3. ASSUME NEW w \in Sender, w # h
          PROVE  Awake(w)' <=> Awake(w)
      BY <1>0, <2>7, <3>3 DEF Awake
    <3> QED
      BY <2>3, <3>1, <3>2, <3>3 DEF AwakeSet
  <2>9. Cardinality(AwakeSet') = Cardinality(AwakeSet) + 1
    BY <2>8, AwakeFinite, FS_AddElement
  <2>10. OutSize - Len(oqueue) <= Cardinality(AwakeSet)
    BY <1>3 DEF RoomInv, NoLostWakeup, AwakeSet
  <2>11. OutSize - Len(oqueue') <= Cardinality(AwakeSet')
    BY <1>0, <2>2, <2>9, <2>10, AwakeFinite, SerialAssumption
  <2> QED
    BY <2>5, <2>11 DEF RoomInv, NoLostWakeup, AwakeSet
<1> QED
  BY <1>1, <1>2, <1>3

LEMMA RoomPut ==
    ASSUME TypeOK, RoomInv, NEW w \in Sender, Put(w)
    PROVE  RoomInv'
<1>0. /\ waiting \in Seq(Sender) /\ oqueue \in Seq(Byte)
      /\ left \in [Sender -> 0..FrameLen]
      /\ Len(waiting) \in Nat /\ Len(oqueue) \in Nat
  BY LenProperties DEF TypeOK
<1>1. /\ waiting' = waiting /\ Awake(w)
      /\ Len(oqueue') = Len(oqueue) + 1
      /\ \A v \in Sender \ {w} : left'[v] = left[v]
  BY <1>0 DEF Put
<1>2. \A i \in 1..Len(waiting) : waiting[i] \in Sender \ {w}
  BY <1>0, <1>1, ElementOfSeq DEF Awake, Asleep
<1>3. SleepersInside'
  BY <1>1, <1>2 DEF RoomInv, SleepersInside
<1>4. AwakeSet \ {w} \subseteq AwakeSet' /\ w \in AwakeSet
  BY <1>1 DEF AwakeSet, Awake, Asleep
<1>5. /\ IsFiniteSet(AwakeSet \ {w})
      /\ Cardinality(AwakeSet \ {w}) = Cardinality(AwakeSet) - 1
  BY <1>4, AwakeFinite, FS_RemoveElement
<1>6. Cardinality(AwakeSet) - 1 <= Cardinality(AwakeSet')
  BY <1>4, <1>5, AwakeFinite, FS_Subset
<1>7. NoLostWakeup'
  <2>1. CASE waiting = <<>>
    BY <1>1, <2>1 DEF NoLostWakeup
  <2>2. CASE waiting # <<>>
    <3>1. OutSize - Len(oqueue) <= Cardinality(AwakeSet)
      BY <2>2 DEF RoomInv, NoLostWakeup, AwakeSet
    <3>2. OutSize - Len(oqueue') <= Cardinality(AwakeSet')
      BY <1>0, <1>1, <1>6, <3>1, AwakeFinite, SerialAssumption
    <3> QED
      BY <3>2 DEF NoLostWakeup, AwakeSet
  <2> QED
    BY <2>1, <2>2
<1> QED
  BY <1>3, <1>7 DEF RoomInv

LEMMA RoomSleep ==
    ASSUME TypeOK, RoomInv, NEW w \in Sender, Sleep(w)
    PROVE  RoomInv'
<1>0. waiting \in Seq(Sender) /\ Len(waiting) \in Nat
  BY LenProperties DEF TypeOK
<1>1. /\ waiting' = Append(waiting, w) /\ left' = left /\ oqueue' = oqueue
      /\ Len(oqueue) = OutSize /\ left[w] > 0 /\ ~Asleep(w)
  BY DEF Sleep, Awake
<1>2. /\ Len(waiting') = Len(waiting) + 1
      /\ \A i \in 1..Len(waiting) : waiting'[i] = waiting[i]
      /\ waiting'[Len(waiting) + 1] = w
  BY <1>0, <1>1, AppendProperties
<1>3. \A i \in 1..Len(waiting') : i = Len(waiting) + 1 \/ i \in 1..Len(waiting)
  BY <1>0, <1>2
<1>4. \A i \in 1..Len(waiting) : waiting[i] # w
  BY <1>1 DEF Asleep
<1>5. SleepersInside'
  BY <1>1, <1>2, <1>3, <1>4 DEF RoomInv, SleepersInside
<1>6. OutSize - Len(oqueue') <= Cardinality(AwakeSet')
  BY <1>1, AwakeFinite, SerialAssumption
<1> QED
  BY <1>5, <1>6 DEF RoomInv, NoLostWakeup, AwakeSet

\* A thread that sleeps for room in the output queue is not forgotten: while
\* one sleeps, each free place has an awake thread to fill it.
THEOREM WakeupsSuffice == Spec => []NoLostWakeup
<1>1. Init => RoomInv
  BY DEF Init, RoomInv, SleepersInside, NoLostWakeup
<1>2. TypeOK /\ RoomInv /\ [Next]_vars => RoomInv'
  <2> SUFFICES ASSUME TypeOK, RoomInv, [Next]_vars
               PROVE  RoomInv'
    OBVIOUS
  <2>1. CASE UNCHANGED <<oqueue, waiting, left>>
    BY <2>1, RoomUntouched
  <2>2. CASE serve_interrupt
    BY <2>2, RoomInterrupt
  <2>3. ASSUME NEW w \in Sender, sdWrite(w)
        PROVE  RoomInv'
    <3>1. \A v \in Sender : left[v] > 0 => left'[v] > 0
      BY <2>3, SerialAssumption DEF sdWrite, TypeOK
    <3>2. UNCHANGED <<oqueue, waiting>>
      BY <2>3 DEF sdWrite
    <3> QED
      BY <3>1, <3>2, RoomUntouched
  <2>4. CASE GetByte
    <3>1. \A v \in Sender : left[v] > 0 => left'[v] > 0
      BY <2>4, SerialAssumption DEF GetByte, TypeOK
    <3>2. UNCHANGED <<oqueue, waiting>>
      BY <2>4 DEF GetByte
    <3> QED
      BY <3>1, <3>2, RoomUntouched
  <2>5. ShiftOut \/ ShiftLoad \/ ByteArrives \/ EventWait \/ GetFlags
            => UNCHANGED <<oqueue, waiting, left>>
    BY DEF ShiftOut, ShiftLoad, ByteArrives, EventWait, GetFlags, output
  <2>6. UNCHANGED vars => UNCHANGED <<oqueue, waiting, left>>
    BY DEF vars, output
  <2> QED
    BY <2>1, <2>2, <2>3, <2>4, <2>5, <2>6, RoomPut, RoomSleep DEF Next
<1>3. RoomInv => NoLostWakeup
  BY DEF RoomInv
<1> QED
  BY <1>1, <1>2, <1>3, TypeCorrect, PTL DEF Spec

-----------------------------------------------------------------------------
(* The order of the bytes sent.                                            *)

\* The registers and the queue one behind the other: a byte that moves on to
\* the next place changes nothing.
LEMMA PathMoves ==
    ASSUME NEW a \in Seq(Byte), NEW b \in Seq(Byte), NEW c \in Seq(Byte)
    PROVE  /\ ((a \o b) \o c) \o <<>> = (a \o b) \o c
           /\ ((a \o <<>>) \o b) \o c = (a \o b) \o c
           /\ ((a \o b) \o <<>>) \o c = (a \o b) \o c
<1>1. a \o b \in Seq(Byte) /\ (a \o b) \o c \in Seq(Byte)
  BY ConcatProperties
<1> QED
  BY <1>1, ConcatEmptySeq

LEMMA PathType == TypeOK => Path \in Seq(Byte)
<1> SUFFICES ASSUME TypeOK
             PROVE  Path \in Seq(Byte)
  OBVIOUS
<1>1. /\ sent \in Seq(Byte) /\ shift \in Seq(Byte) /\ dr \in Seq(Byte)
      /\ oqueue \in Seq(Byte)
  BY DEF TypeOK
<1>2. sent \o shift \in Seq(Byte)
  BY <1>1, ConcatProperties
<1>3. (sent \o shift) \o dr \in Seq(Byte)
  BY <1>1, <1>2, ConcatProperties
<1> QED
  BY <1>1, <1>3, ConcatProperties DEF Path

LEMMA PathShiftOut ==
    ASSUME TypeOK, ShiftOut
    PROVE  Path' = Path
<1>1. /\ sent \in Seq(Byte) /\ shift \in Seq(Byte) /\ dr \in Seq(Byte)
      /\ oqueue \in Seq(Byte) /\ sent \o shift \in Seq(Byte)
  BY ConcatProperties DEF TypeOK
<1>2. sent' = sent \o shift /\ shift' = dr /\ dr' = <<>> /\ oqueue' = oqueue
  BY DEF ShiftOut
<1>3. (((sent \o shift) \o dr) \o <<>>) \o oqueue
          = ((sent \o shift) \o dr) \o oqueue
  BY <1>1, PathMoves
<1> QED
  BY <1>2, <1>3 DEF Path

LEMMA PathShiftLoad ==
    ASSUME TypeOK, ShiftLoad
    PROVE  Path' = Path
<1>1. sent \in Seq(Byte) /\ dr \in Seq(Byte) /\ oqueue \in Seq(Byte)
  BY DEF TypeOK
<1>2. shift = <<>> /\ shift' = dr /\ dr' = <<>>
      /\ sent' = sent /\ oqueue' = oqueue
  BY DEF ShiftLoad, output
<1>3. ((sent \o dr) \o <<>>) \o oqueue = ((sent \o <<>>) \o dr) \o oqueue
  BY <1>1, PathMoves
<1> QED
  BY <1>2, <1>3 DEF Path

LEMMA PathServed ==
    ASSUME TypeOK, serve_interrupt
    PROVE  Path' = Path
<1>1. /\ sent \in Seq(Byte) /\ shift \in Seq(Byte) /\ oqueue \in Seq(Byte)
      /\ sent \o shift \in Seq(Byte)
  BY ConcatProperties DEF TypeOK
<1>2. sent' = sent /\ shift' = shift
  BY DEF serve_interrupt
<1>3. CASE Fed
  <2>1. dr = <<>> /\ oqueue # <<>>
    BY <1>3 DEF Fed, Wanted
  <2>2. dr' = <<Head(oqueue)>> /\ oqueue' = Tail(oqueue)
    BY <1>3 DEF serve_interrupt
  <2>3. PICK h \in Byte, t \in Seq(Byte) : h = Head(oqueue) /\ t = Tail(oqueue)
    BY <1>1, <2>1, HeadTailProperties
  <2>4. oqueue = <<h>> \o t
    <3>1. oqueue = <<Head(oqueue)>> \o Tail(oqueue)
      BY <1>1, <2>1, HeadAndTail
    <3> QED
      BY <2>3, <3>1
  <2>5. <<h>> \in Seq(Byte)
    BY <2>3, OneElement
  <2>6. (sent \o shift) \o (<<h>> \o t) = ((sent \o shift) \o <<h>>) \o t
    BY <1>1, <2>3, <2>5, Regrouped
  <2>7. ((sent \o shift) \o <<>>) \o oqueue = (sent \o shift) \o oqueue
    BY <1>1, ConcatEmptySeq
  <2> QED
    BY <1>2, <2>1, <2>2, <2>3, <2>4, <2>6, <2>7 DEF Path
<1>4. CASE ~Fed
  BY <1>2, <1>4 DEF serve_interrupt, Path
<1> QED
  BY <1>3, <1>4

LEMMA PathPut ==
    ASSUME TypeOK, NEW w \in Sender, Put(w)
    PROVE  /\ [from |-> w, nr |-> written[w] + 1] \in Byte
           /\ Path' = Append(Path, [from |-> w, nr |-> written[w] + 1])
<1>1. [from |-> w, nr |-> written[w] + 1] \in Byte
  <2>1. /\ written[w] \in Nat /\ left[w] \in Nat /\ left[w] > 0
        /\ written[w] + left[w] <= Limit
    BY SerialAssumption DEF TypeOK, Put, Awake
  <2>2. written[w] + 1 \in 1..Limit
    BY <2>1, LimitNat
  <2> QED
    BY <2>2 DEF Byte
<1>2. PICK b \in Byte : b = [from |-> w, nr |-> written[w] + 1]
  BY <1>1
<1>3. UNCHANGED <<sent, shift, dr>> /\ oqueue' = Append(oqueue, b)
  BY <1>2 DEF Put
<1>4. /\ sent \in Seq(Byte) /\ shift \in Seq(Byte) /\ dr \in Seq(Byte)
      /\ oqueue \in Seq(Byte) /\ sent \o shift \in Seq(Byte)
  BY ConcatProperties DEF TypeOK
<1>5. PICK p \in Seq(Byte) : p = (sent \o shift) \o dr
  BY <1>4, ConcatProperties
<1>6. <<b>> \in Seq(Byte) /\ Append(oqueue, b) = oqueue \o <<b>>
  BY <1>4, OneElement, AppendIsConcat
<1>7. p \o (oqueue \o <<b>>) = (p \o oqueue) \o <<b>>
  BY <1>4, <1>5, <1>6, Regrouped
<1>8. p \o oqueue \in Seq(Byte)
  BY <1>4, <1>5, ConcatProperties
<1>9. (p \o oqueue) \o <<b>> = Append(p \o oqueue, b)
  BY <1>8, AppendIsConcat
<1> QED
  BY <1>1, <1>2, <1>3, <1>5, <1>6, <1>7, <1>9 DEF Path

\* A byte is queued behind all others; it has the thread's next number.
LEMMA OrderPut ==
    ASSUME TypeOK, PerWriterOrder, NEW w \in Sender, Put(w)
    PROVE  PerWriterOrder'
<1>1. PICK n \in Nat : n = written[w]
  BY DEF TypeOK
<1>2. PICK b \in Byte : b = [from |-> w, nr |-> n + 1]
  BY <1>1, PathPut
<1>3. PICK p \in Seq(Byte) : p = Path
  BY PathType
<1>4. Path' = Append(p, b)
  BY <1>1, <1>2, <1>3, PathPut
<1>5. PICK m \in Nat : m = Len(p)
  BY <1>3, LenProperties
<1>6. PICK q \in Seq(Byte) : q = Append(p, b)
  BY <1>2, <1>3, AppendProperties
<1>7. /\ Len(q) = m + 1
      /\ \A i \in 1..m : q[i] = p[i]
      /\ q[m + 1] = b
  BY <1>2, <1>3, <1>5, <1>6, AppendProperties
<1>8. \A i \in 1..m : /\ p[i] \in Byte /\ p[i].from \in Sender
                      /\ p[i].nr \in Nat /\ p[i].nr <= written[p[i].from]
  <2> SUFFICES ASSUME NEW i \in 1..m
               PROVE  /\ p[i] \in Byte /\ p[i].from \in Sender
                      /\ p[i].nr \in Nat /\ p[i].nr <= written[p[i].from]
    OBVIOUS
  <2>1. p[i] \in Byte
    BY <1>3, <1>5, ElementOfSeq
  <2>2. p[i].nr <= written[p[i].from]
    BY <1>3, <1>5 DEF PerWriterOrder
  <2> QED
    BY <2>1, <2>2, LimitNat DEF Byte
<1>9. /\ written \in [Sender -> Nat]
      /\ written'[w] = n + 1
      /\ \A v \in Sender \ {w} : written'[v] = written[v]
  BY <1>1 DEF TypeOK, Put
<1>10. \A i \in 1..(m + 1) : i \in 1..m \/ i = m + 1
  BY <1>5
<1>11. b.from = w /\ b.nr = n + 1
  BY <1>2
<1>12. \A i \in 1..(m + 1) : q[i].nr <= written'[q[i].from]
  <2>1. ASSUME NEW i \in 1..m
        PROVE  q[i].nr <= written'[q[i].from]
    <3>1. CASE p[i].from = w
      BY <1>1, <1>7, <1>8, <1>9, <3>1
    <3>2. CASE p[i].from # w
      BY <1>7, <1>8, <1>9, <3>2
    <3> QED
      BY <3>1, <3>2
  <2>2. q[m + 1].nr <= written'[q[m + 1].from]
    BY <1>7, <1>9, <1>11
  <2> QED
    BY <1>10, <2>1, <2>2
<1>13. ASSUME NEW v \in Sender, NEW k \in 1..written'[v]
       PROVE  \E i \in 1..(m + 1) : q[i] = [from |-> v, nr |-> k]
  <2>1. CASE k \in 1..written[v]
    <3>1. PICK i \in 1..m : p[i] = [from |-> v, nr |-> k]
      BY <1>3, <1>5, <2>1 DEF PerWriterOrder
    <3>2. i \in 1..(m + 1)
      BY <1>5
    <3> QED
      BY <1>7, <3>1, <3>2
  <2>2. CASE k \notin 1..written[v]
    <3>1. v = w
      BY <1>9, <2>2
    <3>2. k = n + 1
      BY <1>1, <1>9, <2>2, <3>1
    <3>3. m + 1 \in 1..(m + 1)
      BY <1>5
    <3> QED
      BY <1>2, <1>7, <3>1, <3>2, <3>3
  <2> QED
    BY <2>1, <2>2
<1>14. ASSUME NEW i \in 1..(m + 1), NEW j \in 1..(m + 1),
              i < j, q[i].from = q[j].from
       PROVE  q[i].nr < q[j].nr
  <2>1. i \in 1..m
    BY <1>5, <1>14
  <2>2. CASE j \in 1..m
    BY <1>3, <1>5, <1>7, <1>14, <2>1, <2>2 DEF PerWriterOrder
  <2>3. CASE j = m + 1
    <3>1. p[i].from = w
      BY <1>7, <1>11, <1>14, <2>1, <2>3
    <3>2. p[i].nr <= n /\ p[i].nr \in Nat
      BY <1>1, <1>8, <2>1, <3>1
    <3> QED
      BY <1>7, <1>11, <2>1, <2>3, <3>2
  <2> QED
    BY <1>10, <2>2, <2>3
<1> QED
  BY <1>4, <1>6, <1>7, <1>12, <1>13, <1>14 DEF PerWriterOrder

LEMMA OrderStep == TypeOK /\ PerWriterOrder /\ [Next]_vars => PerWriterOrder'
<1> SUFFICES ASSUME TypeOK, PerWriterOrder, [Next]_vars
             PROVE  PerWriterOrder'
  OBVIOUS
<1>1. CASE Path' = Path /\ written' = written
  BY <1>1 DEF PerWriterOrder
<1>2. CASE ShiftOut \/ ShiftLoad
  <2>1. written' = written
    BY <1>2 DEF ShiftOut, ShiftLoad, output
  <2> QED
    BY <1>1, <1>2, <2>1, PathShiftOut, PathShiftLoad
<1>3. CASE serve_interrupt
  <2>1. written' = written
    BY <1>3 DEF serve_interrupt
  <2> QED
    BY <1>1, <1>3, <2>1, PathServed
<1>4. ASSUME NEW w \in Sender, Put(w)
      PROVE  PerWriterOrder'
  BY <1>4, OrderPut
<1>5. \/ ByteArrives \/ EventWait \/ GetFlags \/ GetByte
      \/ \E w \in Sender : sdWrite(w) \/ Sleep(w)
      \/ UNCHANGED vars
      => UNCHANGED <<sent, shift, dr, oqueue, written>>
  BY DEF ByteArrives, EventWait, GetFlags, GetByte, sdWrite, Sleep, vars,
         usart, output
<1>6. UNCHANGED <<sent, shift, dr, oqueue, written>>
      => Path' = Path /\ written' = written
  BY DEF Path
<1> QED
  BY <1>1, <1>2, <1>3, <1>4, <1>5, <1>6 DEF Next

\* Whatever order the threads queue their bytes in, and whenever interrupts
\* take them out: of each thread, exactly the bytes it has queued are on the
\* wire or on their way to it, once and in order.
THEOREM PerWriterOrderAlways == Spec => []PerWriterOrder
<1>1. Init => PerWriterOrder
  <2> SUFFICES ASSUME Init
               PROVE  PerWriterOrder
    OBVIOUS
  <2>1. Path = <<>> \o <<>> \o <<>> \o <<>> /\ <<>> \in Seq(Byte)
    BY DEF Init, Path
  <2>2. Path = <<>>
    BY <2>1, ConcatEmptySeq
  <2>3. Len(Path) = 0 /\ \A w \in Sender : written[w] = 0
    BY <2>2 DEF Init
  <2> QED
    BY <2>3 DEF PerWriterOrder
<1> QED
  BY <1>1, TypeCorrect, OrderStep, PTL DEF Spec
=============================================================================
