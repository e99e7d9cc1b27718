------------------------------- MODULE Serial -------------------------------
(***************************************************************************)
(* The telemetry link: the serial driver SD2 (os/hal/src/serial.c and      *)
(* platforms/STM32/serial_lld.c), its two byte queues (chqueues.c), the    *)
(* threads that send through it, and the receiving loop of ThreadRadio     *)
(* (GCS.cpp) with the event that wakes it.                                 *)
(*                                                                         *)
(* A step is what runs without another thread or interrupt getting in      *)
(* between: one pass of the interrupt handler, one section between         *)
(* chSysLock and chSysUnlock, one action of the USART.  Thread priorities  *)
(* are left out, so that the model has every order the scheduler allows    *)
(* and some it does not.  A byte is known by its sender and its number.    *)
(*                                                                         *)
(* Definitions named Bad... are plausible mistakes in the definition that  *)
(* follows them; no behaviour uses them.                                   *)
(***************************************************************************)
EXTENDS Naturals, Sequences, FiniteSets

CONSTANTS
    Writer,         \* the threads that send on their own account
    Radio,          \* ThreadRadio, which also sends acknowledgements
    FrameLen,       \* bytes in one sdWrite
    Frames,         \* bound on the frames a thread sends
    InSize,         \* SERIAL_BUFFERS_SIZE, of the input queue
    OutSize,        \* SERIAL_BUFFERS_SIZE, of the output queue
    Bytes           \* bound on the bytes the ground station sends

Sender == Writer \cup {Radio}
Limit == Frames * FrameLen
Byte == [from : Sender, nr : 1..Limit]
Flag == {"IO_INPUT_AVAILABLE", "IO_OUTPUT_EMPTY", "IO_TRANSMISSION_END",
         "SD_OVERRUN_ERROR"}

ASSUME SerialAssumption ==
    /\ FrameLen \in Nat \ {0} /\ Frames \in Nat /\ Bytes \in Nat
    /\ InSize \in Nat \ {0} /\ OutSize \in Nat \ {0}
    /\ IsFiniteSet(Writer) /\ Radio \notin Writer

VARIABLES
    cr1,        \* which of TXEIE, TCIE are set (RXNEIE always is)
    dr,         \* the transmit data register, empty or one byte
    shift,      \* the transmit shift register, empty or one byte
    tc,         \* status bit TC: transmission complete
    rdr,        \* the receive data register, empty or one byte's number
    ore,        \* status bit ORE: a received byte was overwritten
    oqueue,     \* output queue
    waiting,    \* threads asleep in it, longest first
    left,       \* per thread: bytes its sdWrite has yet to queue
    written,    \* per thread: bytes queued so far
    iqueue,     \* input queue
    flags,      \* SD2.flags
    epending,   \* ThreadRadio's pending event
    pc,         \* where ThreadRadio is
    arrived,    \* bytes the ground station has sent
    got,        \* bytes ThreadRadio has fetched, in order
    sent,       \* bytes on the wire, in order
    overrun,    \* whether SD_OVERRUN_ERROR was ever raised
    hurried     \* whether a byte ever came before the last one was fetched

usart == <<cr1, dr, shift, tc, rdr, ore>>
output == <<oqueue, waiting, left, written, sent>>
input == <<iqueue, arrived, got, overrun, hurried>>
events == <<flags, epending>>
vars == <<usart, output, input, events, pc>>

\* usart_init; the queues are empty, no flag is set, all threads outside.
Init ==
    /\ cr1 = {} /\ dr = <<>> /\ shift = <<>> /\ tc = FALSE
    /\ rdr = <<>> /\ ore = FALSE
    /\ oqueue = <<>> /\ waiting = <<>> /\ iqueue = <<>>
    /\ left = [w \in Sender |-> 0]
    /\ written = [w \in Sender |-> 0]
    /\ flags = {} /\ epending = FALSE /\ pc = "wait"
    /\ arrived = 0 /\ got = <<>> /\ sent = <<>> /\ overrun = FALSE
    /\ hurried = FALSE

-----------------------------------------------------------------------------
(* The USART: what it does by itself.                                      *)

\* A byte leaves the shift register, which takes the next at once; when
\* there is none, transmission is complete.
ShiftOut ==
    /\ shift # <<>>
    /\ sent' = sent \o shift
    /\ shift' = dr
    /\ dr' = <<>>
    /\ tc' = (tc \/ dr = <<>>)
    /\ UNCHANGED <<cr1, rdr, ore, oqueue, waiting, left, written, input,
                   events, pc>>

ShiftLoad ==
    /\ shift = <<>> /\ dr # <<>>
    /\ shift' = dr
    /\ dr' = <<>>
    /\ UNCHANGED <<cr1, tc, rdr, ore, output, input, events, pc>>

\* A byte arrives.  One that finds the data register full is lost and ORE is
\* set.
ByteArrives ==
    /\ arrived < Bytes
    /\ arrived' = arrived + 1
    /\ IF rdr = <<>> THEN rdr' = <<arrived + 1>> /\ UNCHANGED ore
                     ELSE ore' = TRUE /\ UNCHANGED rdr
    /\ hurried' = (hurried \/ rdr # <<>> \/ iqueue # <<>>)
    /\ UNCHANGED <<cr1, dr, shift, tc, output, iqueue, got, overrun, events,
                   pc>>

-----------------------------------------------------------------------------
(* serve_interrupt: one pass of the handler, on one reading of CR1 and SR. *)

\* set_error, and the error case of sdIncomingDataI.
BadOverrunSeen == ore
OverrunSeen == ore \/ (rdr # <<>> /\ Len(iqueue) = InSize)

\* sdIncomingDataI: the event "is only generated when the input queue becomes
\* non-empty".
BadFirstByte == rdr # <<>> /\ iqueue = <<>> /\ flags = {}
FirstByte == rdr # <<>> /\ iqueue = <<>>

\* chIQPutI
BadIncoming == iqueue \o rdr
Incoming == IF Len(iqueue) = InSize THEN iqueue ELSE iqueue \o rdr

\* "Transmission buffer empty": a byte is wanted, and there is one or none.
BadWanted == "TXEIE" \in cr1
Wanted == "TXEIE" \in cr1 /\ dr = <<>>
Fed == Wanted /\ oqueue # <<>>
RanDry == Wanted /\ oqueue = <<>>

\* The handler leaves in CR1 what its last branch wrote; the branch for the
\* end of the transmission starts from the value read on entry again.
BadNextCR1 ==
    IF tc THEN cr1 \ {"TCIE", "TXEIE"}
    ELSE IF RanDry THEN (cr1 \ {"TXEIE"}) \cup {"TCIE"} ELSE cr1
NextCR1 ==
    IF tc THEN cr1 \ {"TCIE"}
    ELSE IF RanDry THEN (cr1 \ {"TXEIE"}) \cup {"TCIE"} ELSE cr1

Raised ==
    {f \in Flag :
        \/ f = "SD_OVERRUN_ERROR" /\ OverrunSeen
        \/ f = "IO_INPUT_AVAILABLE" /\ FirstByte
        \/ f = "IO_OUTPUT_EMPTY" /\ RanDry
        \/ f = "IO_TRANSMISSION_END" /\ tc}

\* chOQGetI: a byte that leaves the queue lets the first sleeper go.
BadStillWaiting == waiting
BadWakeIfFull ==
    IF Fed /\ waiting # <<>> /\ Len(oqueue) = OutSize THEN Tail(waiting)
                                                     ELSE waiting
StillWaiting == IF Fed /\ waiting # <<>> THEN Tail(waiting) ELSE waiting

\* chIOAddFlagsI also signals the event to ThreadRadio.
Signalled == epending \/ Raised # {}

serve_interrupt ==
    /\ \/ rdr # <<>> \/ ore
       \/ Wanted
       \/ "TCIE" \in cr1 /\ tc
    /\ cr1' = NextCR1
    /\ tc' = FALSE
    /\ ore' = FALSE
    /\ rdr' = <<>>
    /\ iqueue' = Incoming
    /\ overrun' = (overrun \/ OverrunSeen)
    /\ IF Fed THEN dr' = <<Head(oqueue)>> /\ oqueue' = Tail(oqueue)
              ELSE UNCHANGED <<dr, oqueue>>
    /\ waiting' = StillWaiting
    /\ flags' = flags \cup Raised
    /\ epending' = Signalled
    /\ UNCHANGED <<shift, left, written, arrived, got, hurried, sent, pc>>

-----------------------------------------------------------------------------
(* Sending: chOQWriteTimeout, and chprintf's chOQPutTimeout byte by byte.  *)

Asleep(w) == \E i \in 1..Len(waiting) : waiting[i] = w
\* Inside the call and not asleep in it.
Awake(w) == left[w] > 0 /\ ~Asleep(w)

\* A thread calls sdWrite with its next frame.
sdWrite(w) ==
    /\ w \in Writer
    /\ left[w] = 0
    /\ written[w] + FrameLen <= Limit
    /\ left' = [left EXCEPT ![w] = FrameLen]
    /\ UNCHANGED <<usart, oqueue, waiting, written, sent, input, events, pc>>

\* The driver's notify2, called after each byte.
BadNotify == cr1 \cup (IF Len(oqueue) + 1 = OutSize THEN {"TXEIE"} ELSE {})
Notify == cr1 \cup {"TXEIE"}

\* One turn of the loop: a byte is queued, the transmitter interrupt enabled,
\* the lock given up; after the last byte the call returns.
Put(w) ==
    /\ Awake(w)
    /\ Len(oqueue) < OutSize
    /\ oqueue' = Append(oqueue, [from |-> w, nr |-> written[w] + 1])
    /\ written' = [written EXCEPT ![w] = @ + 1]
    /\ left' = [left EXCEPT ![w] = @ - 1]
    /\ cr1' = Notify
    /\ pc' = IF w = Radio /\ left[w] = 1 THEN "wait" ELSE pc
    /\ UNCHANGED <<dr, shift, tc, rdr, ore, waiting, sent, input, events>>

\* The queue is full: qwait puts the thread to sleep at the end of the line.
Sleep(w) ==
    /\ Awake(w)
    /\ Len(oqueue) = OutSize
    /\ waiting' = Append(waiting, w)
    /\ UNCHANGED <<usart, oqueue, left, written, sent, input, events, pc>>

-----------------------------------------------------------------------------
(* Receiving: the loop of ThreadRadio.                                     *)

\* chEvtWaitOneTimeout: asleep while no event is pending.
BadEventWait ==
    /\ pc = "wait"
    /\ epending
    /\ epending' = FALSE
    /\ flags' = {}
    /\ pc' = "flags"
    /\ UNCHANGED <<usart, output, input>>
EventWait ==
    /\ pc = "wait"
    /\ epending
    /\ epending' = FALSE
    /\ pc' = "flags"
    /\ UNCHANGED <<usart, output, input, flags>>

\* chIOGetAndClearFlags, and the test of IO_INPUT_AVAILABLE.
BadGetFlags ==
    /\ pc = "flags"
    /\ flags' = {}
    /\ pc' = "get"
    /\ UNCHANGED <<usart, output, input, epending>>
GetFlags ==
    /\ pc = "flags"
    /\ flags' = {}
    /\ pc' = IF "IO_INPUT_AVAILABLE" \in flags THEN "get" ELSE "wait"
    /\ UNCHANGED <<usart, output, input, epending>>

\* With TIME_IMMEDIATE; 0 stands for Q_TIMEOUT, the answer of an empty queue.
chIQGetTimeout == IF iqueue = <<>> THEN 0 ELSE Head(iqueue)

\* One byte is fetched, or an error code the code would parse as a byte.  One
\* that completes a PARAM_SET is answered by a frame.
GetByte ==
    /\ pc = "get"
    /\ got' = Append(got, chIQGetTimeout)
    /\ iqueue' = IF iqueue = <<>> THEN <<>> ELSE Tail(iqueue)
    /\ \/ pc' = "wait" /\ UNCHANGED left
       \/ /\ written[Radio] + FrameLen <= Limit
          /\ pc' = "reply"
          /\ left' = [left EXCEPT ![Radio] = FrameLen]
    /\ UNCHANGED <<usart, oqueue, waiting, written, sent, arrived, overrun,
                   hurried, events>>

Next ==
    \/ ShiftOut \/ ShiftLoad \/ ByteArrives \/ serve_interrupt
    \/ \E w \in Sender : sdWrite(w) \/ Put(w) \/ Sleep(w)
    \/ EventWait \/ GetFlags \/ GetByte

Spec == Init /\ [][Next]_vars

\* The transmitter shifts, the interrupt is served, and every ready thread
\* gets to run; the ground station and the senders owe nothing.
Fairness ==
    /\ WF_vars(ShiftOut) /\ WF_vars(ShiftLoad) /\ WF_vars(serve_interrupt)
    /\ \A w \in Sender : WF_vars(Put(w)) /\ WF_vars(Sleep(w))
    /\ WF_vars(EventWait) /\ WF_vars(GetFlags) /\ WF_vars(GetByte)

FairSpec == Spec /\ Fairness

-----------------------------------------------------------------------------
(* Properties.                                                             *)

TypeOK ==
    /\ cr1 \subseteq {"TXEIE", "TCIE"}
    /\ dr \in Seq(Byte) /\ Len(dr) <= 1
    /\ shift \in Seq(Byte) /\ Len(shift) <= 1
    /\ tc \in BOOLEAN /\ ore \in BOOLEAN
    /\ rdr \in Seq(1..Bytes) /\ Len(rdr) <= 1
    /\ oqueue \in Seq(Byte) /\ Len(oqueue) <= OutSize
    /\ waiting \in Seq(Sender)
    /\ left \in [Sender -> 0..FrameLen]
    /\ written \in [Sender -> Nat]
    /\ \A w \in Sender : written[w] + left[w] <= Limit
    /\ iqueue \in Seq(1..Bytes) /\ Len(iqueue) <= InSize
    /\ flags \subseteq Flag
    /\ epending \in BOOLEAN /\ overrun \in BOOLEAN /\ hurried \in BOOLEAN
    /\ pc \in {"wait", "flags", "get", "reply"}
    /\ pc = "reply" <=> left[Radio] > 0
    /\ arrived \in 0..Bytes
    /\ got \in Seq(0..Bytes)
    /\ sent \in Seq(Byte)

\* The transmitter interrupt is enabled whenever the output queue holds a
\* byte, although the handler writes CR1 twice from a value read on entry:
\* no byte is left behind until another thread happens to write.
TransmitArmed == oqueue # <<>> => "TXEIE" \in cr1

\* While a thread sleeps for room in the output queue, every free place has
\* an awake thread in sdWrite to fill it: a wake-up for room is never lost,
\* although each byte sent wakes one thread only and a thread that was never
\* asleep may take the place first.
NoLostWakeup ==
    waiting # <<>> =>
        OutSize - Len(oqueue)
            <= Cardinality({w \in Sender : Awake(w)})

\* ThreadRadio fetches a byte only when there is one: IO_INPUT_AVAILABLE, and
\* the test it leads to, never outlive the byte they announced, so that the
\* parser is not fed the error code of an empty queue.
NoPhantomByte ==
    "IO_INPUT_AVAILABLE" \in flags \/ pc = "get" => iqueue # <<>>

\* Of each thread, exactly the bytes it has queued are on the wire or on
\* their way to it, once and in order.
Path == sent \o shift \o dr \o oqueue
PerWriterOrder ==
    /\ \A i \in 1..Len(Path) : Path[i].nr <= written[Path[i].from]
    /\ \A w \in Sender : \A n \in 1..written[w] :
          \E i \in 1..Len(Path) : Path[i] = [from |-> w, nr |-> n]
    /\ \A i, j \in 1..Len(Path) :
          i < j /\ Path[i].from = Path[j].from => Path[i].nr < Path[j].nr

\* Bytes are fetched in the order they came, none twice; one that is missing
\* was reported as an overrun.
InputIntact ==
    LET in == got \o iqueue \o rdr IN
    /\ \A i \in 1..(Len(in) - 1) : in[i] < in[i + 1]
    /\ Len(in) < arrived => ore \/ overrun

\* ThreadRadio does not sleep while the input queue holds a byte (chioch.h:256:
\* "Data available in the input queue.").
RadioNeverDeaf == pc = "wait" /\ ~epending => iqueue = <<>>

\* It does not as long as each byte has been fetched before the next comes:
\* one event for the first byte in an empty queue and one byte fetched for
\* each event are then enough.
RadioAwake == ~hurried => RadioNeverDeaf

\* Every call of sdWrite returns, whatever the other threads send.
SdWriteReturns == \A w \in Sender : left[w] > 0 ~> left[w] = 0

\* The last byte of every frame reaches the wire, and by PerWriterOrder all
\* others before it.
EverythingSent ==
    \A w \in Sender : \A f \in 1..Frames :
        written[w] >= f * FrameLen ~>
            \E i \in 1..Len(sent) : sent[i] = [from |-> w, nr |-> f * FrameLen]

\* Every byte of a ground station that does not hurry is fetched.
EveryByteFetched ==
    \A n \in 1..Bytes :
        arrived >= n ~> hurried \/ \E i \in 1..Len(got) : got[i] = n

=============================================================================
