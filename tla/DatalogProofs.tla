--------------------------- MODULE DatalogProofs ---------------------------
(***************************************************************************)
(* Theorems about Datalog for any ring, parameters, names and errors.      *)
(***************************************************************************)
EXTENDS Datalog, TLAPS

-----------------------------------------------------------------------------
(* Whole laps of the ring.                                                 *)

Lap(x) == \E k \in Nat : x = k * RingSize

LEMMA RingSizeNat == RingSize \in Nat /\ RingSize > 1
  BY DatalogAssumption

LEMMA AdvanceIs ==
    ASSUME NEW p \in Place
    PROVE  Advance(p) = IF p + 1 < RingSize THEN p + 1 ELSE 0
<1>1. CASE p + 1 < RingSize
  BY <1>1, RingSizeNat DEF Advance, Place
<1>2. CASE p + 1 = RingSize
  <2>1. (p + 1) % RingSize = 0
    BY <1>2, RingSizeNat DEF Place
  <2> QED
    BY <1>2, <2>1, RingSizeNat DEF Advance
<1> QED
  BY <1>1, <1>2, RingSizeNat DEF Place

LEMMA LapNat == ASSUME NEW x, Lap(x) PROVE x \in Nat
  BY RingSizeNat DEF Lap

LEMMA LapZero == Lap(0)
  BY RingSizeNat DEF Lap

LEMMA LapSum ==
    ASSUME NEW x, NEW y, Lap(x), Lap(y)
    PROVE  Lap(x + y)
<1>1. PICK i \in Nat : x = i * RingSize
  BY DEF Lap
<1>2. PICK j \in Nat : y = j * RingSize
  BY DEF Lap
<1>3. (i + j) * RingSize = i * RingSize + j * RingSize
  BY RingSizeNat
<1> QED
  BY <1>1, <1>2, <1>3 DEF Lap

LEMMA LapMore ==
    ASSUME NEW x, Lap(x)
    PROVE  Lap(x + RingSize)
<1>1. RingSize = 1 * RingSize
  BY RingSizeNat
<1>2. Lap(RingSize)
  BY <1>1 DEF Lap
<1> QED
  BY <1>2, LapSum

LEMMA LapDifference ==
    ASSUME NEW x, NEW y, Lap(x), Lap(y), x <= y
    PROVE  Lap(y - x)
<1>1. PICK i \in Nat : x = i * RingSize
  BY DEF Lap
<1>2. PICK j \in Nat : y = j * RingSize
  BY DEF Lap
<1>3. i <= j
  BY <1>1, <1>2, RingSizeNat
<1>4. (j - i) * RingSize = j * RingSize - i * RingSize
  BY RingSizeNat
<1>5. j - i \in Nat
  BY <1>3
<1> QED
  BY <1>1, <1>2, <1>4, <1>5 DEF Lap

\* Two laps that differ are a ring apart.
LEMMA LapsApart ==
    ASSUME NEW x, NEW y, Lap(x), Lap(y), x < y
    PROVE  x + RingSize <= y
<1>1. PICK i \in Nat : x = i * RingSize
  BY DEF Lap
<1>2. PICK j \in Nat : y = j * RingSize
  BY DEF Lap
<1>3. i < j
  <2> SUFFICES ASSUME j <= i
               PROVE  FALSE
    OBVIOUS
  <2>1. j * RingSize <= i * RingSize
    BY RingSizeNat
  <2> QED
    BY <1>1, <1>2, <2>1, RingSizeNat
<1>4. (i + 1) * RingSize <= j * RingSize
  BY <1>3, RingSizeNat
<1>5. (i + 1) * RingSize = i * RingSize + RingSize
  BY RingSizeNat
<1> QED
  BY <1>1, <1>2, <1>4, <1>5

-----------------------------------------------------------------------------
(* Types.                                                                  *)

\* What the print thread has taken was written before, and the numbers in the
\* ring are below the next one.
Numbered ==
    /\ \A p \in Place : regelung_databuffer[p] < written
    /\ following <= written
    /\ printAt \in {"taking", "print"} => taken.time < written
    /\ printAt = "print" => taken.data < written

LEMMA Names0 ==
    ASSUME TypeOK
    PROVE  /\ 0 \in 0..ParamCount
           /\ fileName \in files => fileName + 1 \in 0..Names
           /\ fileName < Names => fileName \in 0..(Names - 1)
           /\ line < ParamCount => line \in Index /\ line + 1 \in 0..ParamCount
           /\ errors < MaxErrors => errors + 1 \in 0..MaxErrors
           /\ sets < MaxSets => sets + 1 \in 0..MaxSets
           /\ written < MaxRecords => written + 1 \in 0..MaxRecords
  BY DatalogAssumption DEF TypeOK, Index

LEMMA TypedInit == Init => TypeOK /\ Numbered
<1> SUFFICES ASSUME Init
             PROVE  TypeOK /\ Numbered
  OBVIOUS
<1> USE DatalogAssumption DEF Init
<1>1. 0 \in Place /\ 0 \in 0..Names /\ 0 \in 0..ParamCount /\ 0 \in 0..MaxErrors
      /\ 0 \in 0..MaxRecords /\ 0 \in 0..MaxSets /\ Unwritten < 0
  BY DEF Place, Unwritten
<1>2. header \in [Index -> Value]
  OBVIOUS
<1>3. /\ regelung_databuffer \in [Place -> Number]
      /\ taken \in [time : Number, data : Number]
  BY <1>1 DEF Number
<1>4. TypeOK
  BY <1>1, <1>2, <1>3 DEF TypeOK
<1>5. Numbered
  BY <1>1 DEF Numbered
<1> QED
  BY <1>4, <1>5

\* RegelungSyncthread leaves the ring and its reader alone.
LEMMA TypedSync ==
    ASSUME TypeOK, SyncNext
    PROVE  TypeOK' /\ UNCHANGED <<reader, ring>>
<1> USE DEF TypeOK, reader, ring, radio, spi, file
<1>0. collided \in BOOLEAN => (Enter("sync") => collided' \in BOOLEAN)
  BY DEF Enter
<1>1. CASE CloseLog
  BY <1>0, <1>1, Names0 DEF CloseLog, SyncBack
<1>2. CASE CloseReturns
  BY <1>0, <1>2, Names0 DEF CloseReturns, SyncBack
<1>3. CASE Pause
  BY <1>0, <1>3, Names0 DEF Pause, SyncBack
<1>4. CASE OpenLog
  BY <1>0, <1>4, Names0 DEF OpenLog, SyncBack
<1>5. CASE OpenExists
  BY <1>0, <1>5, Names0 DEF OpenExists, SyncBack, NextName
<1>6. CASE OpenReturns
  BY <1>0, <1>6, Names0 DEF OpenReturns, SyncBack
<1>7. CASE OpenFails
  BY <1>0, <1>7, Names0 DEF OpenFails, SyncBack, Fails
<1>8. CASE NoName
  BY <1>0, <1>8, Names0 DEF NoName, SyncBack
<1>9. CASE ParamsLoaded
  BY <1>0, <1>9, Names0 DEF ParamsLoaded, SyncBack
<1>10. CASE PrintParam
  BY <1>0, <1>10, Names0 DEF PrintParam, SyncBack
<1>11. CASE PrintParamReturns
  BY <1>0, <1>11, Names0 DEF PrintParamReturns, SyncBack
<1>12. CASE FirstSync
  BY <1>0, <1>12, Names0 DEF FirstSync, SyncBack
<1>13. CASE FirstSyncReturns
  BY <1>0, <1>13, Names0 DEF FirstSyncReturns, SyncBack
<1>14. CASE FirstSyncFails
  BY <1>0, <1>14, Names0 DEF FirstSyncFails, SyncBack, Fails
<1>15. CASE LogOpened
  BY <1>0, <1>15, Names0 DEF LogOpened, SyncBack
<1>16. CASE SyncLog
  BY <1>0, <1>16, Names0 DEF SyncLog, SyncBack
<1>17. CASE SyncReturns
  BY <1>0, <1>17, Names0 DEF SyncReturns, SyncBack
<1>18. CASE SyncReported
  BY <1>0, <1>18, Names0 DEF SyncReported, SyncBack
<1> QED
  BY <1>1, <1>2, <1>3, <1>4, <1>5, <1>6, <1>7, <1>8, <1>9, <1>10, <1>11, <1>12, <1>13, <1>14, <1>15, <1>16, <1>17, <1>18 DEF SyncNext

LEMMA AdvancePlace == ASSUME NEW p \in Place PROVE Advance(p) \in Place
<1>1. 0 \in Place
  BY RingSizeNat DEF Place
<1>2. p + 1 < RingSize => p + 1 \in Place
  BY RingSizeNat DEF Place
<1> QED
  BY <1>1, <1>2, AdvanceIs

\* The steps that touch neither the ring nor its reader.
Elsewhere ==
    \/ SyncNext \/ SDMountThread \/ TransferDone \/ Answered
    \/ \E t \in Thread : Transfer(t)
    \/ \E k \in Index, v \in Value : SetParam(k, v)
    \/ UNCHANGED vars

LEMMA TypedElsewhere ==
    ASSUME TypeOK, Elsewhere
    PROVE  TypeOK' /\ UNCHANGED <<reader, ring>>
<1>1. CASE SyncNext
  BY <1>1, TypedSync
<1> USE DEF TypeOK, reader, ring, radio, spi, file
<1>2. CASE SDMountThread
  BY <1>2 DEF SDMountThread
<1>3. CASE TransferDone
  BY <1>3 DEF TransferDone
<1>4. CASE Answered
  BY <1>4 DEF Answered
<1>5. ASSUME NEW t \in Thread, Transfer(t)
      PROVE  TypeOK' /\ UNCHANGED <<reader, ring>>
  BY <1>5 DEF Transfer
<1>6. ASSUME NEW k \in Index, NEW v \in Value, SetParam(k, v)
      PROVE  TypeOK' /\ UNCHANGED <<reader, ring>>
  BY <1>6, Names0 DEF SetParam
<1>7. CASE UNCHANGED vars
  BY <1>7 DEF vars
<1> QED
  BY <1>1, <1>2, <1>3, <1>4, <1>5, <1>6, <1>7 DEF Elsewhere

LEMMA TypedStep ==
    ASSUME TypeOK, Numbered, [Next]_vars
    PROVE  TypeOK' /\ Numbered'
<1>0. written \in Nat /\ \A n \in Number : n \in Int
  BY DatalogAssumption DEF TypeOK, Number, Unwritten
<1>1. CASE Elsewhere
  <2>1. TypeOK' /\ UNCHANGED <<reader, ring>>
    BY <1>1, TypedElsewhere
  <2> QED
    BY <2>1 DEF Numbered, reader, ring
<1>2. CASE datalog_regelung
  <2>1. written \in Number /\ written' = written + 1 /\ written' \in 0..MaxRecords
    BY <1>2, Names0 DEF datalog_regelung, TypeOK, Number
  <2>2. regelung_databuffer' \in [Place -> Number] /\ writecounter' \in Place
    BY <1>2, <2>1, AdvancePlace DEF datalog_regelung, TypeOK
  <2>3. TypeOK'
    BY <1>2, <2>1, <2>2 DEF datalog_regelung, TypeOK, reader, radio, spi, file
  <2>4. \A p \in Place : regelung_databuffer'[p] < written'
    <3> SUFFICES ASSUME NEW p \in Place
                 PROVE  regelung_databuffer'[p] < written'
      OBVIOUS
    <3>1. regelung_databuffer[p] \in Int /\ regelung_databuffer[p] < written
      BY <1>0 DEF TypeOK, Numbered
    <3>2. regelung_databuffer'[p] \in {regelung_databuffer[p], written}
      BY <1>2 DEF datalog_regelung, TypeOK
    <3> QED
      BY <1>0, <2>1, <3>1, <3>2
  <2>5. following <= written'
    BY <1>0, <2>1 DEF TypeOK, Numbered
  <2>6. taken.time \in Int /\ taken.data \in Int
    BY <1>0 DEF TypeOK
  <2>7. /\ printAt \in {"taking", "print"} => taken.time < written'
        /\ printAt = "print" => taken.data < written'
    BY <1>0, <2>1, <2>6 DEF Numbered
  <2> QED
    BY <1>2, <2>3, <2>4, <2>5, <2>7 DEF datalog_regelung, Numbered, reader
<1>3. CASE ReadyToPrint
  BY <1>3 DEF ReadyToPrint, TypeOK, Numbered, ring, radio, spi, file
<1>4. CASE TakeTime
  <2>1. regelung_databuffer[readcounter] \in Number
        /\ regelung_databuffer[readcounter] < written
    BY DEF TypeOK, Numbered
  <2>2. taken' \in [time : Number, data : Number]
        /\ taken'.time = regelung_databuffer[readcounter]
    BY <1>4, <2>1 DEF TakeTime, TypeOK
  <2> QED
    BY <1>4, <2>1, <2>2 DEF TakeTime, TypeOK, Numbered, ring, radio, spi, file
<1>5. CASE TakeData
  <2>1. regelung_databuffer[readcounter] \in Number
        /\ regelung_databuffer[readcounter] < written
    BY DEF TypeOK, Numbered
  <2>2. taken' \in [time : Number, data : Number] /\ taken'.time = taken.time
        /\ taken'.data = regelung_databuffer[readcounter]
    BY <1>5, <2>1 DEF TakeData, TypeOK
  <2>3. taken.time < written
    BY <1>5 DEF TakeData, Numbered
  <2>4. collided' \in BOOLEAN
    BY <1>5 DEF TakeData, Enter, TypeOK
  <2> QED
    BY <1>5, <2>1, <2>2, <2>3, <2>4
    DEF TakeData, TypeOK, Numbered, ring, radio, spi, file
<1>6. CASE Printed
  <2>1. taken.data \in Number /\ taken.data < written
    BY <1>6 DEF Printed, Numbered, TypeOK
  <2>2. taken.data + 1 \in 0..MaxRecords /\ taken.data + 1 <= written
    BY <1>0, <2>1, DatalogAssumption DEF Number, Unwritten, TypeOK
  <2>3. readcounter' \in Place
    BY <1>6, AdvancePlace DEF Printed, TypeOK
  <2>4. printAt' = "sleep" /\ following' = taken.data + 1
        /\ UNCHANGED <<ready, opened, syncing, request, syncAt, file, taken,
                       ring, radio, spi, collided>>
    BY <1>6 DEF Printed
  <2>5. TypeOK'
    BY <2>2, <2>3, <2>4 DEF TypeOK, ring, radio, spi, file
  <2> QED
    BY <2>2, <2>4, <2>5 DEF Numbered, ring
<1> QED
  BY <1>1, <1>2, <1>3, <1>4, <1>5, <1>6 DEF Next, Elsewhere

\* Every variable keeps its type: the counters stay within the ring and the
\* first line within its parameters.
THEOREM TypeCorrect == Spec => []TypeOK
<1> QED
  BY TypedInit, TypedStep, PTL DEF Spec

-----------------------------------------------------------------------------
(* The log is in order.                                                    *)

\* The numbers at which the laps of the writer and of the reader began.
WriterLap == written - writecounter
ReaderLap == following - readcounter

\* The places before writecounter hold records of this lap, the others those
\* of the lap before, if there was one; number n - RingSize is Unwritten or
\* below if there was none.
Holds(p) ==
    IF p < writecounter THEN regelung_databuffer[p] = WriterLap + p
    ELSE WriterLap # 0 => regelung_databuffer[p] = WriterLap - RingSize + p

\* A number the print thread may take for the record after the last.
Takes(n) == following <= n /\ Lap(n - following)

RingInv ==
    /\ Lap(WriterLap) /\ Lap(ReaderLap)
    /\ \A p \in Place : Holds(p)
    /\ printAt \in {"chprintf", "taking"} => following < written
    /\ printAt \in {"taking", "print"} => Takes(taken.time)
    /\ printAt = "print" => Takes(taken.data)

\* As long as there is a record to come, the place at readcounter holds it or
\* one whole laps later.
LEMMA NextInPlace ==
    ASSUME TypeOK, RingInv, following < written
    PROVE  Takes(regelung_databuffer[readcounter])
<1> DEFINE n == regelung_databuffer[readcounter]
<1>1. /\ written \in Nat /\ following \in Nat
      /\ readcounter \in Nat /\ readcounter < RingSize
      /\ writecounter \in Nat /\ writecounter < RingSize
  BY RingSizeNat, DatalogAssumption DEF TypeOK, Place
<1>2. Lap(WriterLap) /\ Lap(ReaderLap) /\ WriterLap \in Nat /\ ReaderLap \in Nat
  BY LapNat DEF RingInv
<1>3. written = WriterLap + writecounter /\ following = ReaderLap + readcounter
  BY <1>1 DEF WriterLap, ReaderLap
<1>4. ReaderLap <= WriterLap
  <2> SUFFICES ASSUME WriterLap < ReaderLap
               PROVE  FALSE
    BY <1>2
  <2>1. WriterLap + RingSize <= ReaderLap
    BY <1>2, LapsApart
  <2> QED
    BY <1>1, <1>2, <1>3, <2>1, RingSizeNat
<1>5. CASE readcounter < writecounter
  <2>1. n = WriterLap + readcounter
    BY <1>5 DEF RingInv, Holds, TypeOK
  <2>2. n - following = WriterLap - ReaderLap
    BY <1>1, <1>2, <1>3, <2>1
  <2>3. Lap(n - following)
    BY <1>2, <1>4, <2>2, LapDifference
  <2> QED
    BY <1>1, <1>2, <1>3, <1>4, <2>1, <2>3 DEF Takes
<1>6. CASE readcounter >= writecounter
  <2>1. ReaderLap < WriterLap
    BY <1>1, <1>2, <1>3, <1>4, <1>6
  <2>2. ReaderLap + RingSize <= WriterLap
    BY <1>2, <2>1, LapsApart
  <2>3. n = WriterLap - RingSize + readcounter
    BY <1>1, <1>2, <1>6, <2>1 DEF RingInv, Holds, TypeOK
  <2>4. Lap(ReaderLap + RingSize)
    BY <1>2, LapMore
  <2>5. Lap(WriterLap - (ReaderLap + RingSize))
    BY <1>2, <2>2, <2>4, LapDifference
  <2>6. n - following = WriterLap - (ReaderLap + RingSize)
    BY <1>1, <1>2, <1>3, <2>3, RingSizeNat
  <2> QED
    BY <1>1, <1>2, <1>3, <2>2, <2>3, <2>5, <2>6, RingSizeNat DEF Takes
<1> QED
  BY <1>1, <1>5, <1>6

\* The reader sees equal counters when it has printed everything, or is behind
\* by whole rings: different ones always mean that there is a record to come.
LEMMA UnreadMeansMore ==
    ASSUME TypeOK, Numbered, RingInv, Unread
    PROVE  following < written
<1>1. following <= written /\ written \in Nat /\ following \in Nat
  BY DatalogAssumption DEF TypeOK, Numbered
<1> SUFFICES ASSUME following = written
             PROVE  FALSE
  BY <1>1
<1>2. /\ readcounter \in Nat /\ readcounter < RingSize
      /\ writecounter \in Nat /\ writecounter < RingSize
  BY RingSizeNat DEF TypeOK, Place
<1>3. Lap(WriterLap) /\ Lap(ReaderLap) /\ WriterLap \in Nat /\ ReaderLap \in Nat
  BY LapNat DEF RingInv
<1>4. WriterLap + writecounter = ReaderLap + readcounter
  BY <1>1, <1>2 DEF WriterLap, ReaderLap
<1>5. WriterLap < ReaderLap => WriterLap + RingSize <= ReaderLap
  BY <1>3, LapsApart
<1>6. ReaderLap < WriterLap => ReaderLap + RingSize <= WriterLap
  BY <1>3, LapsApart
<1>7. WriterLap = ReaderLap
  BY <1>2, <1>3, <1>4, <1>5, <1>6, RingSizeNat
<1> QED
  BY <1>2, <1>3, <1>4, <1>7 DEF Unread

\* A record more, in the same lap or as the first of the next.
LEMMA WriterStep ==
    ASSUME TypeOK, RingInv, datalog_regelung
    PROVE  Lap(WriterLap') /\ \A p \in Place : Holds(p)'
<1>1. /\ writecounter \in Nat /\ writecounter < RingSize /\ written \in Nat
      /\ writecounter \in Place
  BY RingSizeNat, DatalogAssumption DEF TypeOK, Place
<1>2. /\ regelung_databuffer' =
            [regelung_databuffer EXCEPT ![writecounter] = written]
      /\ writecounter' = IF writecounter + 1 < RingSize
                         THEN writecounter + 1 ELSE 0
      /\ written' = written + 1
  BY <1>1, AdvanceIs DEF datalog_regelung
<1>3. Lap(WriterLap) /\ WriterLap \in Nat /\ written = WriterLap + writecounter
  BY <1>1, LapNat DEF RingInv, WriterLap
<1>4. \A p \in Place : regelung_databuffer'[p] =
          IF p = writecounter THEN written ELSE regelung_databuffer[p]
  BY <1>2 DEF TypeOK
<1>5. \A p \in Place : p \in Nat /\ p < RingSize
  BY RingSizeNat DEF Place
<1>6. CASE writecounter + 1 < RingSize
  <2>1. WriterLap' = WriterLap /\ writecounter' = writecounter + 1
    BY <1>1, <1>2, <1>6 DEF WriterLap
  <2>2. ASSUME NEW p \in Place
        PROVE  Holds(p)'
    <3>1. CASE p < writecounter
      <4>1. p < writecounter' /\ p # writecounter
        BY <1>1, <1>5, <2>1, <3>1
      <4>2. regelung_databuffer'[p] = WriterLap + p
        BY <1>4, <3>1, <4>1 DEF RingInv, Holds
      <4> QED
        BY <2>1, <4>1, <4>2 DEF Holds
    <3>2. CASE p = writecounter
      BY <1>1, <1>3, <1>4, <1>5, <2>1, <3>2 DEF Holds
    <3>3. CASE p > writecounter
      <4>1. ~(p < writecounter') /\ ~(p < writecounter) /\ p # writecounter
        BY <1>1, <1>5, <2>1, <3>3
      <4> QED
        BY <1>4, <2>1, <4>1 DEF RingInv, Holds
    <3> QED
      BY <1>1, <1>5, <3>1, <3>2, <3>3
  <2> QED
    BY <1>3, <2>1, <2>2
<1>7. CASE writecounter + 1 = RingSize
  <2>1. WriterLap' = WriterLap + RingSize /\ writecounter' = 0
    BY <1>1, <1>2, <1>3, <1>7, RingSizeNat DEF WriterLap
  <2>2. Lap(WriterLap')
    BY <1>3, <2>1, LapMore
  <2>3. ASSUME NEW p \in Place
        PROVE  Holds(p)'
    <3>1. regelung_databuffer'[p] = WriterLap + p
      <4>1. CASE p < writecounter
        BY <1>4, <4>1, <1>1 DEF RingInv, Holds
      <4>2. CASE p = writecounter
        BY <1>1, <1>3, <1>4, <4>2
      <4> QED
        BY <1>1, <1>5, <1>7, <4>1, <4>2
    <3>2. WriterLap' - RingSize + p = WriterLap + p
      BY <1>3, <1>5, <2>1, RingSizeNat
    <3> QED
      BY <1>5, <2>1, <3>1, <3>2 DEF Holds
  <2> QED
    BY <2>2, <2>3
<1> QED
  BY <1>1, <1>6, <1>7, RingSizeNat

\* The reader goes on to the place after the record it has printed.
LEMMA ReaderStep ==
    ASSUME TypeOK, Numbered, RingInv, Printed
    PROVE  Lap(ReaderLap')
<1>1. /\ readcounter \in Nat /\ readcounter < RingSize /\ following \in Nat
      /\ readcounter \in Place
  BY RingSizeNat, DatalogAssumption DEF TypeOK, Place
<1>2. taken.data \in Int /\ Lap(taken.data - following) /\ Lap(ReaderLap)
  BY DatalogAssumption DEF Printed, RingInv, Takes, TypeOK, Number, Unwritten
<1>3. ReaderLap \in Nat /\ ReaderLap = following - readcounter
  BY <1>2, LapNat DEF ReaderLap
<1>4. following' = taken.data + 1
      /\ readcounter' = IF readcounter + 1 < RingSize
                        THEN readcounter + 1 ELSE 0
  BY <1>1, AdvanceIs DEF Printed
<1>5. Lap((taken.data - following) + ReaderLap)
  BY <1>2, LapSum
<1>6. CASE readcounter + 1 < RingSize
  <2>1. ReaderLap' = (taken.data - following) + ReaderLap
    BY <1>1, <1>2, <1>3, <1>4, <1>6 DEF ReaderLap
  <2> QED
    BY <1>5, <2>1
<1>7. CASE readcounter + 1 = RingSize
  <2>1. ReaderLap' = (taken.data - following) + ReaderLap + RingSize
    BY <1>1, <1>2, <1>3, <1>4, <1>7, RingSizeNat DEF ReaderLap
  <2>2. Lap((taken.data - following) + ReaderLap + RingSize)
    BY <1>5, LapMore
  <2> QED
    BY <2>1, <2>2
<1> QED
  BY <1>1, <1>6, <1>7, RingSizeNat

LEMMA RingStep ==
    ASSUME TypeOK, Numbered, RingInv, [Next]_vars
    PROVE  RingInv'
<1>1. CASE Elsewhere
  <2>1. UNCHANGED <<printAt, readcounter, taken, following,
                    regelung_databuffer, writecounter, written>>
    BY <1>1, TypedElsewhere DEF reader, ring
  <2> QED
    BY <2>1 DEF RingInv, Holds, Takes, WriterLap, ReaderLap
<1>2. CASE datalog_regelung
  <2>1. Lap(WriterLap') /\ \A p \in Place : Holds(p)'
    BY <1>2, WriterStep
  <2>2. UNCHANGED <<printAt, readcounter, taken, following>>
    BY <1>2 DEF datalog_regelung, reader
  <2>3. following < written => following < written'
    BY <1>2, DatalogAssumption DEF datalog_regelung, TypeOK
  <2> QED
    BY <2>1, <2>2, <2>3 DEF RingInv, Takes, ReaderLap
<1>3. CASE ReadyToPrint
  <2>1. following < written
    BY <1>3, UnreadMeansMore DEF ReadyToPrint
  <2>2. /\ printAt' = "chprintf"
        /\ UNCHANGED <<readcounter, taken, following, regelung_databuffer,
                       writecounter, written>>
    BY <1>3 DEF ReadyToPrint, ring
  <2> QED
    BY <2>1, <2>2 DEF RingInv, Holds, WriterLap, ReaderLap
<1>4. CASE TakeTime
  <2>1. following < written
    BY <1>4 DEF TakeTime, RingInv
  <2>2. Takes(regelung_databuffer[readcounter])
    BY <2>1, NextInPlace
  <2>3. /\ printAt' = "taking"
        /\ taken'.time = regelung_databuffer[readcounter]
        /\ UNCHANGED <<readcounter, following, regelung_databuffer,
                       writecounter, written>>
    BY <1>4 DEF TakeTime, ring, TypeOK
  <2> QED
    BY <2>1, <2>2, <2>3 DEF RingInv, Holds, Takes, WriterLap, ReaderLap
<1>5. CASE TakeData
  <2>1. following < written /\ Takes(taken.time)
    BY <1>5 DEF TakeData, RingInv
  <2>2. Takes(regelung_databuffer[readcounter])
    BY <2>1, NextInPlace
  <2>3. /\ printAt' = "print"
        /\ taken'.time = taken.time
        /\ taken'.data = regelung_databuffer[readcounter]
        /\ UNCHANGED <<readcounter, following, regelung_databuffer,
                       writecounter, written>>
    BY <1>5 DEF TakeData, ring, TypeOK
  <2> QED
    BY <2>1, <2>2, <2>3 DEF RingInv, Holds, Takes, WriterLap, ReaderLap
<1>6. CASE Printed
  <2>1. Lap(ReaderLap')
    BY <1>6, ReaderStep
  <2>2. /\ printAt' = "sleep"
        /\ UNCHANGED <<regelung_databuffer, writecounter, written>>
    BY <1>6 DEF Printed, ring
  <2> QED
    BY <2>1, <2>2 DEF RingInv, Holds, WriterLap
<1> QED
  BY <1>1, <1>2, <1>3, <1>4, <1>5, <1>6 DEF Next, Elsewhere

LEMMA InOrder == TypeOK /\ Numbered /\ RingInv => LossInWholeRings
<1> SUFFICES ASSUME TypeOK, Numbered, RingInv, printAt = "print"
             PROVE  /\ \E laps \in 0..MaxRecords :
                          taken.time = following + laps * RingSize
                    /\ taken.time # following => written > following + RingSize
  BY DEF LossInWholeRings
<1>1. /\ taken.time < written /\ written <= MaxRecords /\ written \in Nat
      /\ following \in Nat /\ MaxRecords \in Nat /\ taken.time \in Int
  BY DatalogAssumption DEF TypeOK, Numbered, Number, Unwritten
<1>2. PICK laps \in Nat : taken.time - following = laps * RingSize
  BY DEF RingInv, Takes, Lap
<1>3. laps <= laps * RingSize
  BY RingSizeNat
<1>4. laps * RingSize \in Nat
  BY RingSizeNat
<1>5. taken.time = following + laps * RingSize
  BY <1>1, <1>2, <1>4
<1>6. laps \in 0..MaxRecords
  BY <1>1, <1>3, <1>4, <1>5
<1>7. laps = 0 \/ RingSize <= laps * RingSize
  BY RingSizeNat
<1>8. taken.time # following => written > following + RingSize
  <2>1. laps = 0 => laps * RingSize = 0
    BY RingSizeNat
  <2> QED
    BY <1>1, <1>4, <1>5, <1>7, <2>1, RingSizeNat
<1> QED
  BY <1>5, <1>6, <1>8

LEMMA RingInit == Init => RingInv
<1> SUFFICES ASSUME Init
             PROVE  RingInv
  OBVIOUS
<1>1. WriterLap = 0 /\ ReaderLap = 0 /\ printAt = "sleep"
  BY DEF Init, WriterLap, ReaderLap
<1>2. \A p \in Place : ~(p < writecounter)
  BY RingSizeNat DEF Init, Place
<1> QED
  BY <1>1, <1>2, LapZero DEF RingInv, Holds

\* The log is in order and has no record twice; what is missing are whole
\* rings.  The argument: a place holds the record due or one whole laps later,
\* and the counters differ only when there is a record due.
THEOREM LogInOrder == Spec => []LossInWholeRings
<1> QED
  BY TypedInit, RingInit, TypedStep, RingStep, InOrder, PTL DEF Spec

-----------------------------------------------------------------------------
(* The first line has the parameters in use.                               *)

\* What is printed of the first line.
Begun ==
    CASE syncAt \in {"line", "print"} -> 0..(line - 1)
      [] syncAt \in {"first", "message"} \/ opened -> Index
      [] OTHER -> {}

\* What is printed stays current until a request for a new log is on its way,
\* also while the line is printed and before the file is in use.
HeaderInv ==
    /\ opened => syncAt \in {"loop", "sync", "report"}
    /\ ~request /\ radioAt = "wait" =>
          \A i \in Begun : i \in Index => header[i] = param[i]

LEMMA HeaderSync ==
    ASSUME TypeOK, HeaderInv, SyncNext
    PROVE  HeaderInv'
<1> USE DEF HeaderInv, Begun, SyncBack, file, radio
<1>1. CASE CloseLog
  BY <1>1 DEF CloseLog
<1>2. CASE CloseReturns
  BY <1>2 DEF CloseReturns
<1>3. CASE Pause
  BY <1>3 DEF Pause
<1>4. CASE OpenLog
  BY <1>4 DEF OpenLog
<1>5. CASE OpenExists
  BY <1>5 DEF OpenExists
<1>6. CASE OpenReturns
  BY <1>6 DEF OpenReturns
<1>7. CASE OpenFails
  BY <1>7 DEF OpenFails, Fails
<1>8. CASE NoName
  BY <1>8 DEF NoName
<1>9. CASE ParamsLoaded
  <2>1. syncAt' = "line" /\ line' = 0 /\ syncAt = "await"
        /\ UNCHANGED opened
    BY <1>9 DEF ParamsLoaded
  <2>2. Begun' = {}
    BY <2>1
  <2> QED
    BY <2>1, <2>2
<1>10. CASE PrintParam
  <2>1. /\ syncAt = "line" /\ syncAt' = "print" /\ line < ParamCount
        /\ line' = line + 1 /\ header' = [header EXCEPT ![line] = param[line]]
        /\ UNCHANGED <<opened, request, param, radioAt>>
    BY <1>10 DEF PrintParam
  <2>2. line \in Nat /\ line \in Index /\ ~opened
    BY <2>1, DatalogAssumption DEF TypeOK, Index
  <2>3. ASSUME ~request, radioAt = "wait", NEW i \in 0..(line' - 1), i \in Index
        PROVE  header'[i] = param[i]
    <3>1. i = line \/ i \in 0..(line - 1)
      BY <2>1, <2>2, <2>3
    <3>2. i # line => header'[i] = header[i]
      BY <2>1, <2>3 DEF TypeOK
    <3>3. header'[line] = param[line]
      BY <2>1, <2>2 DEF TypeOK
    <3> QED
      BY <2>1, <2>3, <3>1, <3>2, <3>3
  <2> QED
    BY <2>1, <2>2, <2>3
<1>11. CASE PrintParamReturns
  BY <1>11 DEF PrintParamReturns
<1>12. CASE FirstSync
  <2>1. line = ParamCount /\ 0..(line - 1) = Index
    BY <1>12 DEF FirstSync, Index
  <2> QED
    BY <1>12, <2>1 DEF FirstSync
<1>13. CASE FirstSyncReturns
  BY <1>13 DEF FirstSyncReturns
<1>14. CASE FirstSyncFails
  BY <1>14 DEF FirstSyncFails, Fails
<1>15. CASE LogOpened
  BY <1>15 DEF LogOpened
<1>16. CASE SyncLog
  BY <1>16 DEF SyncLog
<1>17. CASE SyncReturns
  BY <1>17 DEF SyncReturns
<1>18. CASE SyncReported
  BY <1>18 DEF SyncReported
<1> QED
  BY <1>1, <1>2, <1>3, <1>4, <1>5, <1>6, <1>7, <1>8, <1>9, <1>10, <1>11, <1>12, <1>13, <1>14, <1>15, <1>16, <1>17, <1>18 DEF SyncNext

LEMMA HeaderStep ==
    ASSUME TypeOK, HeaderInv, [Next]_vars
    PROVE  HeaderInv'
<1>1. CASE SyncNext
  BY <1>1, HeaderSync
<1> USE DEF HeaderInv, Begun, file, radio
<1>2. CASE ReadyToPrint
  BY <1>2 DEF ReadyToPrint
<1>3. CASE TakeTime
  BY <1>3 DEF TakeTime
<1>4. CASE TakeData
  BY <1>4 DEF TakeData
<1>5. CASE Printed
  BY <1>5 DEF Printed
<1>6. CASE datalog_regelung
  BY <1>6 DEF datalog_regelung
<1>7. CASE SDMountThread
  BY <1>7 DEF SDMountThread
<1>8. CASE TransferDone
  BY <1>8 DEF TransferDone
<1>9. ASSUME NEW t \in Thread, Transfer(t)
      PROVE  HeaderInv'
  BY <1>9 DEF Transfer
<1>10. ASSUME NEW k \in Index, NEW v \in Value, SetParam(k, v)
       PROVE  HeaderInv'
  BY <1>10 DEF SetParam
<1>11. CASE Answered
  BY <1>11 DEF Answered
<1>12. CASE UNCHANGED vars
  BY <1>12 DEF vars
<1> QED
  BY <1>1, <1>2, <1>3, <1>4, <1>5, <1>6, <1>7, <1>8, <1>9, <1>10, <1>11, <1>12
  DEF Next

\* A log in use begins with the parameters in use, unless a new one is asked
\* for: no request is lost.
THEOREM HeaderCurrentAlways == Spec => []HeaderCurrent
<1>1. Init => HeaderInv
  BY DEF Init, HeaderInv, Begun
<1>2. TypeOK /\ HeaderInv => HeaderCurrent
  <2> SUFFICES ASSUME TypeOK, HeaderInv, opened, ~request, radioAt = "wait"
               PROVE  header = param
    BY DEF HeaderCurrent
  <2>1. Begun = Index
    BY DEF Begun, HeaderInv
  <2>2. \A i \in Index : header[i] = param[i]
    BY <2>1 DEF HeaderInv
  <2> QED
    BY <2>2 DEF TypeOK
<1> QED
  BY <1>1, <1>2, TypedInit, TypedStep, HeaderStep, PTL DEF Spec
=============================================================================
