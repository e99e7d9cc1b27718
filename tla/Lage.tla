-------------------------------- MODULE Lage --------------------------------
(***************************************************************************)
(* The attitude (Quad/Lage.cpp): LageReadThread calls update_IMU, which    *)
(* fetches the packets of the motion processor (DMP) from the FIFO of the  *)
(* MPU6050 over I2C when mpu_6050_interrupt has told it to, and decodes    *)
(* the last one.                                                           *)
(*                                                                         *)
(* The sensor goes on by itself: a packet may be added before and after    *)
(* every transfer and, while a packet is being read, between its bytes.    *)
(* When the FIFO is full it loses its oldest bytes.  How long the thread   *)
(* is kept from running is open: Regelungsthread and ThreadRadio have a    *)
(* higher priority, and the CPU stands still while a flash page is erased. *)
(* Transfers succeed (the driver ignores their results).  Bytes are taken  *)
(* in units of which PacketSize make a packet.                             *)
(*                                                                         *)
(* Definitions named Bad... are plausible mistakes in the definition that  *)
(* follows them; no behaviour uses them.                                   *)
(***************************************************************************)
EXTENDS Integers

CONSTANTS
    PacketSize,     \* packetSize: 42 bytes
    FifoSize        \* 1024 bytes, not a whole number of packets

ASSUME LageAssumption ==
    /\ PacketSize \in Nat /\ PacketSize > 1
    /\ FifoSize \in Nat /\ FifoSize > PacketSize

Bit == {"overflow", "dmp"}      \* 0x10 and 0x02 of INT_STATUS

\* x units are a number of packets.
Whole(x) == \E n \in 0..x : x = n * PacketSize

VARIABLES
    fill,           \* units in the FIFO; its end is the end of a packet
    status,         \* INT_STATUS, which reading clears
    edge,           \* an edge of the interrupt line the CPU has not served
    missed,         \* the last interrupt found the line low again
    mpuInterrupt,
    pc,             \* what LageReadThread does next
    mpuIntStatus, fifoCount,
    packets,        \* passes left in the loop over the packets
    got,            \* units of the packet read so far
    garbage,        \* fifoBuffer is not a packet from its start to its end
    attitude        \* ypr and gyro_rate_float: "none", "packet" or "garbage"

sensor == <<fill, status>>
interrupt == <<edge, missed, mpuInterrupt>>
reading == <<mpuIntStatus, fifoCount, packets, got, garbage>>
vars == <<sensor, interrupt, pc, reading, attitude>>

\* setup_IMU enables the motion processor before it clears its status, and the
\* interrupt only later.
Init ==
    /\ fill \in {0, PacketSize}
    /\ status = {}
    /\ edge = FALSE
    /\ missed = (fill > 0)
    /\ mpuInterrupt = FALSE
    /\ pc = "sleep"
    /\ mpuIntStatus = {} /\ fifoCount = 0 /\ packets = 0
    /\ got = 0 /\ garbage = FALSE
    /\ attitude = "none"

-----------------------------------------------------------------------------
(* The MPU6050 and the interrupt.                                          *)

Packet ==
    /\ IF fill + PacketSize <= FifoSize
       THEN fill' = fill + PacketSize /\ status' = status \cup {"dmp"}
       ELSE fill' = FifoSize /\ status' = status \cup Bit
    /\ edge' = TRUE
    /\ UNCHANGED <<missed, mpuInterrupt, pc, reading, attitude>>

\* mpu_6050_interrupt
IsrHigh ==
    /\ edge
    /\ mpuInterrupt' = TRUE
    /\ edge' = FALSE /\ missed' = FALSE
    /\ UNCHANGED <<sensor, pc, reading, attitude>>

\* The pulse of 50 us was over before the handler looked at the line.
IsrLow ==
    /\ edge
    /\ edge' = FALSE /\ missed' = TRUE
    /\ UNCHANGED <<sensor, mpuInterrupt, pc, reading, attitude>>

-----------------------------------------------------------------------------
(* update_IMU                                                              *)

\* After the sleep of a millisecond; without the flag update_IMU does nothing.
TakeInterrupt ==
    /\ pc = "sleep" /\ mpuInterrupt
    /\ mpuInterrupt' = FALSE
    /\ pc' = "status"
    /\ UNCHANGED <<sensor, edge, missed, reading, attitude>>

GetIntStatus ==
    /\ pc = "status"
    /\ mpuIntStatus' = status
    /\ status' = {}
    /\ pc' = "count"
    /\ UNCHANGED <<fill, interrupt, fifoCount, packets, got, garbage, attitude>>

BadOverflown(count) == count = FifoSize
Overflown(count) == "overflow" \in mpuIntStatus \/ count = FifoSize

\* getFIFOCount, and the choice between resetFIFO, the packets, and nothing.
GetCount ==
    /\ pc = "count"
    /\ fifoCount' = fill
    /\ pc' = IF Overflown(fill) THEN "reset"
             ELSE IF "dmp" \in mpuIntStatus THEN "wait" ELSE "sleep"
    /\ UNCHANGED <<sensor, interrupt, mpuIntStatus, packets, got, garbage,
                   attitude>>

resetFIFO ==
    /\ pc = "reset"
    /\ fill' = 0
    /\ pc' = "sleep"
    /\ UNCHANGED <<status, interrupt, reading, attitude>>

\* The packet that was announced may have been read in the round before.
WaitForPacket ==
    /\ pc = "wait" /\ fifoCount < PacketSize
    /\ fifoCount' = fill
    /\ UNCHANGED <<sensor, interrupt, pc, mpuIntStatus, packets, got, garbage,
                   attitude>>

StartReading ==
    /\ pc = "wait" /\ fifoCount >= PacketSize
    /\ packets' = fifoCount \div PacketSize
    /\ got' = 0 /\ garbage' = FALSE
    /\ pc' = "read"
    /\ UNCHANGED <<sensor, interrupt, mpuIntStatus, fifoCount, attitude>>

\* getFIFOBytes; an empty FIFO gives anything.
GetUnit ==
    /\ pc = "read" /\ got < PacketSize
    /\ garbage' = (garbage \/ fill = 0 \/ ~Whole(fill + got))
    /\ fill' = IF fill = 0 THEN 0 ELSE fill - 1
    /\ got' = got + 1
    /\ UNCHANGED <<status, interrupt, pc, mpuIntStatus, fifoCount, packets,
                   attitude>>

\* The loop goes on while i <= fifoCount / packetSize.
BadPacketRead ==
    /\ pc = "read" /\ got = PacketSize
    /\ packets' = packets - 1
    /\ IF packets > 0
       THEN got' = 0 /\ garbage' = FALSE /\ UNCHANGED pc
       ELSE pc' = "decode" /\ UNCHANGED <<got, garbage>>
    /\ UNCHANGED <<sensor, interrupt, mpuIntStatus, fifoCount, attitude>>

\* The end of getFIFOBytes and of one pass of the loop.
PacketRead ==
    /\ pc = "read" /\ got = PacketSize
    /\ packets' = packets - 1
    /\ IF packets > 1
       THEN got' = 0 /\ garbage' = FALSE /\ UNCHANGED pc
       ELSE pc' = "decode" /\ UNCHANGED <<got, garbage>>
    /\ UNCHANGED <<sensor, interrupt, mpuIntStatus, fifoCount, attitude>>

\* The flag is cleared after the packets instead of before them.
BadDecode ==
    /\ pc = "decode"
    /\ attitude' = IF garbage THEN "garbage" ELSE "packet"
    /\ fifoCount' = fill
    /\ mpuInterrupt' = FALSE
    /\ pc' = "sleep"
    /\ UNCHANGED <<sensor, edge, missed, mpuIntStatus, packets, got, garbage>>

\* dmpGetQuaternion to dmpGetGyro, and a last getFIFOCount.
Decode ==
    /\ pc = "decode"
    /\ attitude' = IF garbage THEN "garbage" ELSE "packet"
    /\ fifoCount' = fill
    /\ pc' = "sleep"
    /\ UNCHANGED <<sensor, interrupt, mpuIntStatus, packets, got, garbage>>

update_IMU ==
    \/ TakeInterrupt \/ GetIntStatus \/ GetCount \/ resetFIFO \/ WaitForPacket
    \/ StartReading \/ GetUnit \/ PacketRead \/ Decode

Next == Packet \/ IsrHigh \/ IsrLow \/ update_IMU

Spec == Init /\ [][Next]_vars

\* The sensor goes on, the thread gets its turn, and not every pulse is missed.
FairSpec ==
    Spec /\ WF_vars(Packet) /\ WF_vars(update_IMU) /\ SF_vars(IsrHigh)

-----------------------------------------------------------------------------
(* Properties.                                                             *)

TypeOK ==
    /\ fill \in 0..FifoSize
    /\ status \in SUBSET Bit
    /\ edge \in BOOLEAN /\ missed \in BOOLEAN /\ mpuInterrupt \in BOOLEAN
    /\ pc \in {"sleep", "status", "count", "reset", "wait", "read", "decode"}
    /\ mpuIntStatus \in SUBSET Bit
    /\ fifoCount \in 0..FifoSize
    /\ packets \in 0..FifoSize
    /\ pc = "read" => packets > 0
    /\ got \in 0..PacketSize
    /\ garbage \in BOOLEAN
    /\ attitude \in {"none", "packet", "garbage"}

\* A complete packet in the FIFO has an interrupt that will have it fetched,
\* although it may have come anywhere in the middle of update_IMU, unless the
\* handler came too late to see it.
NoPacketForgotten ==
    pc = "sleep" /\ fill >= PacketSize => mpuInterrupt \/ edge \/ missed

\* The FIFO begins inside a packet, not counting the one being read.
Misaligned == ~Whole(fill + (IF pc = "read" THEN got ELSE 0))

OverflowKnown ==
    \/ "overflow" \in status
    \/ pc = "count" /\ "overflow" \in mpuIntStatus
    \/ pc = "reset"

\* Once the bytes that are read do not begin with a packet, an overflow is
\* reported that leads to resetFIFO: update_IMU decodes garbage in the round
\* in which the overflow comes and never in a second one.
MisalignedIsReported ==
    /\ Misaligned => OverflowKnown
    /\ pc \in {"read", "decode"} /\ garbage => "overflow" \in status

\* After an overflow the FIFO is in step again some time.
Resynchronises == Misaligned ~> ~Misaligned
=============================================================================
