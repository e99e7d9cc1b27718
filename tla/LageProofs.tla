----------------------------- MODULE LageProofs -----------------------------
(***************************************************************************)
(* Theorems about Lage for packets and a FIFO of any size.                 *)
(***************************************************************************)
EXTENDS Lage, TLAPS

-----------------------------------------------------------------------------
(* Packets and units.                                                      *)

LEMMA Sizes == PacketSize \in Nat /\ PacketSize > 1 /\ FifoSize \in Nat
               /\ FifoSize > PacketSize
  BY LageAssumption

LEMMA WholeMore ==
    ASSUME NEW x \in Nat, Whole(x)
    PROVE  Whole(x + PacketSize)
<1>1. PICK n \in 0..x : x = n * PacketSize
  BY DEF Whole
<1>2. n + 1 \in 0..(x + PacketSize)
  BY Sizes
<1>3. (n + 1) * PacketSize = n * PacketSize + PacketSize
  BY Sizes
<1> QED
  BY <1>1, <1>2, <1>3, Sizes DEF Whole

LEMMA WholeLess ==
    ASSUME NEW x \in Nat, x >= PacketSize, Whole(x)
    PROVE  Whole(x - PacketSize)
<1>1. PICK n \in 0..x : x = n * PacketSize
  BY DEF Whole
<1>2. n # 0
  BY <1>1, Sizes
<1>3. (n - 1) * PacketSize = n * PacketSize - PacketSize
  BY Sizes
<1>4. n - 1 \in 0..(x - PacketSize)
  BY <1>1, <1>2, <1>3, Sizes
<1> QED
  BY <1>1, <1>3, <1>4, Sizes DEF Whole

LEMMA WholeZero == Whole(0)
  BY Sizes DEF Whole

LEMMA PacketsIn ==
    ASSUME NEW x \in Nat, x >= PacketSize
    PROVE  /\ x \div PacketSize \in 1..x
           /\ (x \div PacketSize) * PacketSize =< x
           /\ x < (x \div PacketSize) * PacketSize + PacketSize
  BY Sizes

LEMMA Product == ASSUME NEW n \in Nat PROVE n * PacketSize \in Nat
  BY Sizes

LEMMA OnePacket ==
    ASSUME NEW n \in Nat, n > 0
    PROVE  /\ n * PacketSize >= PacketSize
           /\ (n - 1) * PacketSize = n * PacketSize - PacketSize
           /\ n * PacketSize \in Nat /\ (n - 1) * PacketSize \in Nat
  BY Sizes

-----------------------------------------------------------------------------
(* Types.                                                                  *)

LEMMA TypedInit == Init => TypeOK
<1> SUFFICES ASSUME Init PROVE TypeOK
  OBVIOUS
<1>1. missed \in BOOLEAN
  BY DEF Init
<1>2. fill \in 0..FifoSize
  BY Sizes DEF Init
<1>3. edge \in BOOLEAN /\ mpuInterrupt \in BOOLEAN /\ garbage \in BOOLEAN
  BY DEF Init
<1>4. fifoCount \in 0..FifoSize /\ packets \in 0..FifoSize
      /\ got \in 0..PacketSize
  BY Sizes DEF Init
<1>5. /\ status \in SUBSET Bit /\ mpuIntStatus \in SUBSET Bit
      /\ pc = "sleep" /\ attitude = "none"
  BY DEF Init
<1> QED
  BY <1>1, <1>2, <1>3, <1>4, <1>5 DEF TypeOK

LEMMA TypedStep == TypeOK /\ [Next]_vars => TypeOK'
<1> SUFFICES ASSUME TypeOK, [Next]_vars
             PROVE  TypeOK'
  OBVIOUS
<1> USE DEF TypeOK
<1>1. CASE Packet
  <2>1. fill' \in 0..FifoSize
    BY <1>1, Sizes DEF Packet
  <2>2. status' \in SUBSET Bit
    BY <1>1 DEF Packet, Bit
  <2> QED
    BY <1>1, <2>1, <2>2 DEF Packet, reading
<1>2. CASE IsrHigh
  BY <1>2 DEF IsrHigh, sensor, reading
<1>3. CASE IsrLow
  BY <1>3 DEF IsrLow, sensor, reading
<1>4. CASE TakeInterrupt
  BY <1>4 DEF TakeInterrupt, sensor, reading
<1>5. CASE GetIntStatus
  BY <1>5 DEF GetIntStatus, interrupt
<1>6. CASE GetCount
  BY <1>6 DEF GetCount, sensor, interrupt
<1>7. CASE resetFIFO
  BY <1>7, Sizes DEF resetFIFO, interrupt, reading
<1>8. CASE WaitForPacket
  BY <1>8 DEF WaitForPacket, sensor, interrupt
<1>9. CASE StartReading
  <2>1. packets' \in 1..fifoCount
    BY <1>9, PacketsIn DEF StartReading
  <2>2. packets' \in 0..FifoSize /\ packets' > 0
    BY <2>1, Sizes
  <2>3. garbage' \in BOOLEAN /\ UNCHANGED <<edge, missed, mpuInterrupt>>
    BY <1>9 DEF StartReading, interrupt
  <2>4. got' \in 0..PacketSize
    BY <1>9, Sizes DEF StartReading
  <2> QED
    BY <1>9, <2>2, <2>3, <2>4 DEF StartReading, sensor
<1>10. CASE GetUnit
  <2>1. fill' \in 0..FifoSize /\ got' \in 0..PacketSize
    BY <1>10, Sizes DEF GetUnit
  <2>2. garbage' \in BOOLEAN
    BY <1>10 DEF GetUnit
  <2> QED
    BY <1>10, <2>1, <2>2 DEF GetUnit, interrupt
<1>11. CASE PacketRead
  <2>1. /\ packets' \in 0..FifoSize /\ got' \in 0..PacketSize
        /\ pc' = "read" => packets' > 0
    BY <1>11, Sizes DEF PacketRead
  <2>2. garbage' \in BOOLEAN
    BY <1>11 DEF PacketRead
  <2>3. pc' \in {"read", "decode"}
    BY <1>11 DEF PacketRead
  <2> QED
    BY <1>11, <2>1, <2>2, <2>3 DEF PacketRead, sensor, interrupt
<1>12. CASE Decode
  BY <1>12 DEF Decode, sensor, interrupt
<1>13. CASE UNCHANGED vars
  BY <1>13 DEF vars, sensor, interrupt, reading
<1> QED
  BY <1>1, <1>2, <1>3, <1>4, <1>5, <1>6, <1>7, <1>8, <1>9, <1>10, <1>11, <1>12,
     <1>13 DEF Next, update_IMU

\* Every variable keeps its type; no more packets are read than were counted.
THEOREM TypeCorrect == Spec => []TypeOK
  BY TypedInit, TypedStep, PTL DEF Spec

-----------------------------------------------------------------------------
(* No packet is forgotten.                                                 *)

Flagged == mpuInterrupt \/ edge \/ missed

\* A packet has come since the status was read.
Announced == Flagged /\ "dmp" \in status

\* Whatever is left in the FIFO at the end of the round is announced.
FetchInv ==
    /\ pc = "sleep" /\ fill >= PacketSize =>
          Announced \/ (missed /\ ~edge /\ ~mpuInterrupt)
    /\ pc = "status" /\ fill >= PacketSize => "dmp" \in status
    /\ pc = "count" /\ fill >= PacketSize =>
          Announced \/ "dmp" \in mpuIntStatus
    /\ pc = "wait" => Announced \/ fill = fifoCount
    /\ pc = "read" =>
          Announced \/ fill + got < packets * PacketSize + PacketSize
    /\ pc = "decode" => Announced \/ fill < PacketSize

LEMMA FetchInit == Init => FetchInv
<1> SUFFICES ASSUME Init PROVE FetchInv
  OBVIOUS
<1>1. fill >= PacketSize => fill > 0
  BY Sizes DEF Init
<1>2. fill > 0 => missed
  BY DEF Init
<1> QED
  BY <1>1, <1>2 DEF Init, FetchInv

LEMMA FetchStep == TypeOK /\ FetchInv /\ [Next]_vars => FetchInv'
<1> SUFFICES ASSUME TypeOK, FetchInv, [Next]_vars
             PROVE  FetchInv'
  OBVIOUS
<1>1. CASE Packet
  <2>1. Announced' /\ pc' = pc
    BY <1>1 DEF Packet, Announced, Flagged, Bit
  <2> QED
    BY <2>1 DEF FetchInv, Announced
<1>2. CASE IsrHigh
  <2>1. /\ UNCHANGED <<fill, status, pc, mpuIntStatus, fifoCount, packets, got>>
        /\ edge /\ Flagged' /\ Flagged
    BY <1>2 DEF IsrHigh, sensor, reading, Flagged
  <2> QED
    BY <2>1 DEF FetchInv, Announced
<1>3. CASE IsrLow
  <2>1. /\ UNCHANGED <<fill, status, pc, mpuIntStatus, fifoCount, packets, got>>
        /\ edge /\ Flagged' /\ Flagged
    BY <1>3 DEF IsrLow, sensor, reading, Flagged
  <2> QED
    BY <2>1 DEF FetchInv, Announced
<1>4. CASE TakeInterrupt
  <2>1. /\ pc = "sleep" /\ mpuInterrupt /\ pc' = "status"
        /\ UNCHANGED <<fill, status>>
    BY <1>4 DEF TakeInterrupt, sensor
  <2> QED
    BY <2>1 DEF FetchInv, Announced
<1>5. CASE GetIntStatus
  <2>1. pc = "status" /\ pc' = "count" /\ mpuIntStatus' = status /\ fill' = fill
    BY <1>5 DEF GetIntStatus
  <2> QED
    BY <2>1 DEF FetchInv
<1>6. CASE GetCount
  <2>1. /\ pc = "count" /\ fifoCount' = fill
        /\ pc' = IF Overflown(fill) THEN "reset"
                 ELSE IF "dmp" \in mpuIntStatus THEN "wait" ELSE "sleep"
        /\ UNCHANGED <<fill, status>>
    BY <1>6 DEF GetCount, sensor
  <2>2. Flagged' <=> Flagged
    BY <1>6 DEF GetCount, interrupt, Flagged
  <2>3. CASE pc' = "reset"
    BY <2>3 DEF FetchInv
  <2>4. CASE pc' = "wait"
    BY <2>1, <2>4 DEF FetchInv
  <2>5. CASE pc' = "sleep"
    BY <2>1, <2>2, <2>5 DEF FetchInv, Announced
  <2> QED
    BY <2>1, <2>3, <2>4, <2>5
<1>7. CASE resetFIFO
  BY <1>7, Sizes DEF resetFIFO, FetchInv
<1>8. CASE WaitForPacket
  BY <1>8 DEF WaitForPacket, sensor, FetchInv
<1>9. CASE StartReading
  <2>1. /\ pc = "wait" /\ fifoCount \in Nat /\ fifoCount >= PacketSize
        /\ packets' = fifoCount \div PacketSize /\ got' = 0 /\ pc' = "read"
        /\ UNCHANGED <<fill, status>>
    BY <1>9, Sizes DEF StartReading, sensor, TypeOK
  <2>2. Flagged' <=> Flagged
    BY <1>9 DEF StartReading, interrupt, Flagged
  <2>3. fifoCount < packets' * PacketSize + PacketSize
    BY <2>1, PacketsIn
  <2>4. Announced \/ fill = fifoCount
    BY <2>1 DEF FetchInv
  <2>5. Announced' \/ fill' + got' < packets' * PacketSize + PacketSize
    <3>1. CASE Announced
      BY <2>1, <2>2, <3>1 DEF Announced
    <3>2. CASE fill = fifoCount
      BY <2>1, <2>3, <3>2
    <3> QED
      BY <2>4, <3>1, <3>2
  <2> QED
    BY <2>1, <2>5 DEF FetchInv
<1>10. CASE GetUnit
  <2>1. /\ pc = "read" /\ pc' = "read" /\ UNCHANGED <<packets, status>>
        /\ got' = got + 1 /\ fill' = IF fill = 0 THEN 0 ELSE fill - 1
        /\ got < PacketSize /\ packets > 0
        /\ fill \in Nat /\ got \in Nat /\ packets \in Nat
    BY <1>10, Sizes DEF GetUnit, TypeOK
  <2>2. Flagged' <=> Flagged
    BY <1>10 DEF GetUnit, interrupt, Flagged
  <2>3. Announced \/ fill + got < packets * PacketSize + PacketSize
    BY <2>1 DEF FetchInv
  <2>4. PacketSize =< packets * PacketSize /\ packets * PacketSize \in Nat
    BY <2>1, OnePacket
  <2>5. fill + got < packets * PacketSize + PacketSize =>
           fill' + got' < packets' * PacketSize + PacketSize
    BY <2>1, <2>4, Sizes
  <2>6. Announced => Announced'
    BY <2>1, <2>2 DEF Announced
  <2> QED
    BY <2>1, <2>3, <2>5, <2>6 DEF FetchInv
<1>11. CASE PacketRead
  <2>1. /\ pc = "read" /\ got = PacketSize /\ packets' = packets - 1
        /\ packets \in Nat /\ packets > 0 /\ fill \in Nat
        /\ UNCHANGED <<fill, status>>
    BY <1>11, Sizes DEF PacketRead, sensor, TypeOK
  <2>2. Flagged' <=> Flagged
    BY <1>11 DEF PacketRead, interrupt, Flagged
  <2>3. Announced \/ fill + got < packets * PacketSize + PacketSize
    BY <2>1 DEF FetchInv
  <2>4. Announced => Announced'
    BY <2>1, <2>2 DEF Announced
  <2>5. CASE packets > 1
    <3>1. got' = 0 /\ pc' = "read"
      BY <1>11, <2>1, <2>5 DEF PacketRead
    <3>2. fill + got < packets * PacketSize + PacketSize =>
             fill' + got' < packets' * PacketSize + PacketSize
      BY <2>1, <3>1, OnePacket, Sizes
    <3> QED
      BY <2>3, <2>4, <3>1, <3>2 DEF FetchInv
  <2>6. CASE packets = 1
    <3>1. pc' = "decode"
      BY <1>11, <2>6 DEF PacketRead
    <3>2. fill + got < packets * PacketSize + PacketSize => fill' < PacketSize
      BY <2>1, <2>6, Sizes
    <3> QED
      BY <2>3, <2>4, <3>1, <3>2 DEF FetchInv
  <2> QED
    BY <2>1, <2>5, <2>6
<1>12. CASE Decode
  <2>1. /\ pc = "decode" /\ pc' = "sleep"
        /\ UNCHANGED <<fill, status, edge, missed, mpuInterrupt>>
    BY <1>12 DEF Decode, sensor, interrupt
  <2>2. fill \in Nat
    BY Sizes DEF TypeOK
  <2>3. fill >= PacketSize => Announced
    BY <2>1, <2>2, Sizes DEF FetchInv
  <2>4. Announced => Announced'
    BY <2>1 DEF Announced, Flagged
  <2> QED
    BY <2>1, <2>3, <2>4 DEF FetchInv
<1>13. CASE UNCHANGED vars
  BY <1>13 DEF vars, sensor, interrupt, reading, FetchInv, Announced, Flagged
<1> QED
  BY <1>1, <1>2, <1>3, <1>4, <1>5, <1>6, <1>7, <1>8, <1>9, <1>10, <1>11, <1>12,
     <1>13 DEF Next, update_IMU

\* A packet that lies in the FIFO while LageReadThread sleeps has an interrupt
\* that will have it fetched, wherever in update_IMU it came.
THEOREM NoPacketForgottenAlways == Spec => []NoPacketForgotten
<1>1. FetchInv => NoPacketForgotten
  BY DEF FetchInv, NoPacketForgotten, Announced, Flagged
<1> QED
  BY <1>1, TypedInit, FetchInit, TypedStep, FetchStep, PTL DEF Spec

-----------------------------------------------------------------------------
(* A misaligned FIFO is reported.                                          *)

Taken == IF pc = "read" THEN got ELSE 0

\* Without an overflow the packets counted are in the FIFO, from the start of
\* the first one on.
AlignInv ==
    /\ OverflowKnown \/ Whole(fill + Taken)
    /\ pc = "wait" => fifoCount =< fill
    /\ pc = "read" =>
          "overflow" \in status \/ packets * PacketSize =< fill + got
    /\ pc \in {"read", "decode"} /\ garbage => "overflow" \in status

LEMMA AlignInit == Init => AlignInv
<1> SUFFICES ASSUME Init PROVE AlignInv
  OBVIOUS
<1>1. Whole(0 + PacketSize)
  BY WholeZero, WholeMore
<1>2. Whole(fill + Taken)
  BY <1>1, WholeZero, Sizes DEF Init, Taken
<1> QED
  BY <1>2 DEF Init, AlignInv

\* What a step leaves alone keeps the invariant.
LEMMA AlignUntouched ==
    ASSUME AlignInv, UNCHANGED <<fill, status, packets, got, garbage>>,
           \/ UNCHANGED <<pc, mpuIntStatus, fifoCount>>
           \/ pc = "sleep" /\ pc' = "status"
           \/ pc = "decode" /\ pc' = "sleep"
    PROVE  AlignInv'
<1>1. CASE UNCHANGED <<pc, mpuIntStatus, fifoCount>>
  BY <1>1 DEF AlignInv, OverflowKnown, Taken, Whole
<1>2. CASE pc = "sleep" /\ pc' = "status"
  BY <1>2 DEF AlignInv, OverflowKnown, Taken, Whole
<1>3. CASE pc = "decode" /\ pc' = "sleep"
  BY <1>3 DEF AlignInv, OverflowKnown, Taken, Whole
<1> QED
  BY <1>1, <1>2, <1>3

LEMMA AlignStep == TypeOK /\ AlignInv /\ [Next]_vars => AlignInv'
<1> SUFFICES ASSUME TypeOK, AlignInv, [Next]_vars
             PROVE  AlignInv'
  OBVIOUS
<1>0. /\ fill \in Nat /\ got \in Nat /\ packets \in Nat /\ fifoCount \in Nat
      /\ fill =< FifoSize /\ fifoCount =< FifoSize /\ got =< PacketSize
      /\ Taken \in Nat
  BY Sizes DEF TypeOK, Taken
<1>1. CASE Packet
  <2>1. UNCHANGED <<pc, mpuIntStatus, fifoCount, packets, got, garbage>>
    BY <1>1 DEF Packet, reading
  <2>2. status \subseteq status'
    BY <1>1 DEF Packet
  <2>3. CASE fill + PacketSize =< FifoSize
    <3>1. fill' = fill + PacketSize
      BY <1>1, <2>3 DEF Packet
    <3>2. Whole(fill + Taken) => Whole(fill' + Taken')
      <4>1. Taken' = Taken
        BY <2>1 DEF Taken
      <4>2. Whole(fill + Taken) => Whole(fill + Taken + PacketSize)
        BY <1>0, WholeMore
      <4>3. fill' + Taken' = fill + Taken + PacketSize
        BY <1>0, <3>1, <4>1, Sizes
      <4> QED
        BY <4>2, <4>3
    <3>3. OverflowKnown => OverflowKnown'
      BY <2>1, <2>2 DEF OverflowKnown
    <3>4. Whole(fill + Taken)' <=> Whole(fill' + Taken')
      BY DEF Whole
    <3>5. pc = "wait" => fifoCount' =< fill'
      BY <1>0, <2>1, <3>1, Sizes DEF AlignInv
    <3>6. packets * PacketSize =< fill + got =>
             packets' * PacketSize =< fill' + got'
      <4>1. packets * PacketSize \in Nat
        BY <1>0, Sizes
      <4> QED
        BY <1>0, <2>1, <3>1, <4>1, Sizes
    <3> QED
      BY <2>1, <2>2, <3>2, <3>3, <3>4, <3>5, <3>6 DEF AlignInv
  <2>4. CASE ~(fill + PacketSize =< FifoSize)
    <3>1. fill' = FifoSize /\ "overflow" \in status'
      BY <1>1, <2>4 DEF Packet, Bit
    <3>2. fifoCount' =< fill'
      BY <1>0, <2>1, <3>1
    <3> QED
      BY <3>1, <3>2 DEF AlignInv, OverflowKnown
  <2> QED
    BY <2>3, <2>4
<1>2. CASE IsrHigh
  BY <1>2, AlignUntouched DEF IsrHigh, sensor, reading
<1>3. CASE IsrLow
  BY <1>3, AlignUntouched DEF IsrLow, sensor, reading
<1>4. CASE TakeInterrupt
  BY <1>4, AlignUntouched DEF TakeInterrupt, sensor, reading
<1>5. CASE GetIntStatus
  <2>1. /\ pc = "status" /\ pc' = "count" /\ mpuIntStatus' = status
        /\ fill' = fill
    BY <1>5 DEF GetIntStatus
  <2>2. OverflowKnown => OverflowKnown'
    BY <2>1 DEF OverflowKnown
  <2>3. Whole(fill + Taken) => Whole(fill + Taken)'
    BY <2>1 DEF Whole, Taken
  <2> QED
    BY <2>1, <2>2, <2>3 DEF AlignInv
<1>6. CASE GetCount
  <2>1. /\ pc = "count" /\ fifoCount' = fill
        /\ pc' = IF Overflown(fill) THEN "reset"
                 ELSE IF "dmp" \in mpuIntStatus THEN "wait" ELSE "sleep"
        /\ UNCHANGED <<fill, status, mpuIntStatus>>
    BY <1>6 DEF GetCount, sensor
  <2>2. OverflowKnown => OverflowKnown'
    BY <2>1 DEF OverflowKnown, Overflown
  <2>3. pc' \in {"reset", "wait", "sleep"}
    BY <2>1
  <2>4. Whole(fill + Taken) => Whole(fill + Taken)'
    BY <2>1, <2>3 DEF Whole, Taken
  <2>5. fifoCount' =< fill'
    BY <1>0, <2>1
  <2> QED
    BY <2>2, <2>3, <2>4, <2>5 DEF AlignInv
<1>7. CASE resetFIFO
  <2>1. fill' = 0 /\ pc' = "sleep"
    BY <1>7 DEF resetFIFO
  <2>2. Whole(fill' + Taken')
    BY <2>1, WholeZero DEF Taken
  <2>3. Whole(fill + Taken)'
    BY <2>2 DEF Whole
  <2> QED
    BY <2>1, <2>3 DEF AlignInv
<1>8. CASE WaitForPacket
  <2>1. /\ pc = "wait" /\ fifoCount' = fill
        /\ UNCHANGED <<fill, status, pc, mpuIntStatus>>
    BY <1>8 DEF WaitForPacket, sensor
  <2>2. Whole(fill + Taken) => Whole(fill + Taken)'
    BY <2>1 DEF Whole, Taken
  <2>3. OverflowKnown => OverflowKnown'
    BY <2>1 DEF OverflowKnown
  <2>4. fifoCount' =< fill'
    BY <1>0, <2>1
  <2> QED
    BY <2>1, <2>2, <2>3, <2>4 DEF AlignInv
<1>9. CASE StartReading
  <2>1. /\ pc = "wait" /\ fifoCount >= PacketSize /\ pc' = "read"
        /\ packets' = fifoCount \div PacketSize /\ got' = 0
        /\ garbage' = FALSE
        /\ UNCHANGED <<fill, status, mpuIntStatus>>
    BY <1>9 DEF StartReading, sensor
  <2>2. packets' * PacketSize =< fifoCount /\ packets' \in Nat
    BY <1>0, <2>1, PacketsIn
  <2>3. packets' * PacketSize =< fill' + got'
    <3>1. PICK n \in Nat : n = packets'
      BY <2>2
    <3>2. fifoCount =< fill
      BY <2>1 DEF AlignInv
    <3>3. n * PacketSize \in Nat /\ n * PacketSize =< fifoCount
      BY <2>2, <3>1, Product
    <3>4. n * PacketSize =< fill
      BY <1>0, <3>2, <3>3
    <3> QED
      BY <1>0, <2>1, <3>1, <3>4
  <2>4. Whole(fill + Taken) => Whole(fill + Taken)'
    BY <2>1 DEF Whole, Taken
  <2>5. OverflowKnown => OverflowKnown'
    BY <2>1 DEF OverflowKnown
  <2> QED
    BY <2>1, <2>3, <2>4, <2>5 DEF AlignInv
<1>10. CASE GetUnit
  <2>1. /\ pc = "read" /\ pc' = "read" /\ got < PacketSize /\ packets > 0
        /\ fill' = (IF fill = 0 THEN 0 ELSE fill - 1) /\ got' = got + 1
        /\ UNCHANGED <<status, packets, mpuIntStatus>>
    BY <1>10 DEF GetUnit, TypeOK
  <2>2. garbage' = (garbage \/ fill = 0 \/ ~Whole(fill + got))
    BY <1>10 DEF GetUnit
  <2>3. CASE "overflow" \in status
    BY <2>1, <2>3 DEF AlignInv, OverflowKnown
  <2>4. CASE "overflow" \notin status
    <3>1. Whole(fill + got) /\ packets * PacketSize =< fill + got /\ ~garbage
      BY <2>1, <2>4 DEF AlignInv, OverflowKnown, Taken
    <3>2. PacketSize =< packets * PacketSize /\ packets * PacketSize \in Nat
      BY <1>0, <2>1, OnePacket
    <3>3. fill > 0
      BY <1>0, <2>1, <3>1, <3>2, Sizes
    <3>4. fill' + got' = fill + got
      BY <1>0, <2>1, <3>3
    <3>5. ~garbage'
      <4>1. fill # 0
        BY <3>3
      <4> QED
        BY <2>2, <3>1, <4>1
    <3>6. Whole(fill' + got')
      BY <3>1, <3>4
    <3>7. Whole(fill + Taken)'
      BY <2>1, <3>6 DEF Whole, Taken
    <3>8. packets' * PacketSize =< fill' + got'
      BY <2>1, <3>1, <3>4
    <3> QED
      BY <2>1, <3>5, <3>7, <3>8 DEF AlignInv
  <2> QED
    BY <2>3, <2>4
<1>11. CASE PacketRead
  <2>1. /\ pc = "read" /\ got = PacketSize /\ packets > 0
        /\ packets' = packets - 1
        /\ UNCHANGED <<fill, status, mpuIntStatus>>
    BY <1>11 DEF PacketRead, sensor, TypeOK
  <2>2. CASE "overflow" \in status
    <3>1. pc' \in {"read", "decode"}
      BY <1>11 DEF PacketRead
    <3> QED
      BY <2>1, <2>2, <3>1 DEF AlignInv, OverflowKnown
  <2>3. CASE "overflow" \notin status
    <3>1. Whole(fill + got) /\ packets * PacketSize =< fill + got /\ ~garbage
      BY <2>1, <2>3 DEF AlignInv, OverflowKnown, Taken
    <3>2. Whole(fill)
      <4>1. fill + got \in Nat /\ fill + got >= PacketSize
            /\ fill + got - PacketSize = fill
        BY <1>0, <2>1, Sizes
      <4>2. PICK x \in Nat : x = fill + got
        BY <4>1
      <4>3. Whole(x - PacketSize)
        BY <3>1, <4>1, <4>2, WholeLess
      <4>4. x - PacketSize = fill
        BY <1>0, <2>1, <4>2, Sizes
      <4> QED
        BY <4>3, <4>4, Zenon
    <3>3. packets' * PacketSize =< fill
      BY <1>0, <2>1, <3>1, OnePacket, Sizes
    <3>4. \/ pc' = "read" /\ got' = 0 /\ garbage' = FALSE
          \/ pc' = "decode" /\ UNCHANGED <<got, garbage>>
      BY <1>11 DEF PacketRead
    <3>5. fill' + Taken' = fill
      BY <1>0, <2>1, <3>4 DEF Taken
    <3>6. Whole(fill' + Taken')
      BY <3>2, <3>5
    <3>7. Whole(fill + Taken)'
      BY <3>6 DEF Whole
    <3>8. ~garbage'
      BY <3>1, <3>4
    <3>9. pc' = "read" => packets' * PacketSize =< fill' + got'
      BY <1>0, <2>1, <3>3, <3>4
    <3> QED
      BY <3>4, <3>7, <3>8, <3>9 DEF AlignInv
  <2> QED
    BY <2>2, <2>3
<1>12. CASE Decode
  <2>1. /\ pc = "decode" /\ pc' = "sleep"
        /\ UNCHANGED <<fill, status, packets, got, garbage>>
    BY <1>12 DEF Decode, sensor
  <2> QED
    BY <2>1, AlignUntouched
<1>13. CASE UNCHANGED vars
  BY <1>13, AlignUntouched DEF vars, sensor, reading
<1> QED
  BY <1>1, <1>2, <1>3, <1>4, <1>5, <1>6, <1>7, <1>8, <1>9, <1>10, <1>11, <1>12,
     <1>13 DEF Next, update_IMU

\* For packets and a FIFO of any size, wherever an overflow falls: garbage is
\* decoded only in the round of the overflow, and then the FIFO is reset.
THEOREM MisalignedIsReportedAlways == Spec => []MisalignedIsReported
<1>1. AlignInv => MisalignedIsReported
  BY DEF AlignInv, MisalignedIsReported, Misaligned, Taken
<1> QED
  BY <1>1, TypedInit, AlignInit, TypedStep, AlignStep, PTL DEF Spec
=============================================================================
