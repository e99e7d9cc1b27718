------------------------------ MODULE Datalog ------------------------------
(***************************************************************************)
(* The flight log of Regelung.cpp.  Regelungsthread puts a record into a   *)
(* ring in each of its periods, RegelungPrintthread prints the ring into   *)
(* the open file, RegelungSyncthread opens, syncs and closes files, and    *)
(* ThreadRadio asks for a new file, whose first line has the parameters,   *)
(* when it has changed one.                                                *)
(*                                                                         *)
(* Both log threads call FatFs (ffconf.h: _FS_REENTRANT 0), which moves    *)
(* blocks through the one SPI driver; a transfer puts its thread to sleep. *)
(* The steps are what a thread does between two calls that may block or,   *)
(* for the print thread, which has the lowest priority, between two        *)
(* accesses to the ring.                                                   *)
(*                                                                         *)
(* Definitions named Bad... are plausible mistakes in the definition that  *)
(* follows them; no behaviour uses them.                                   *)
(***************************************************************************)
EXTENDS Integers

CONSTANTS
    RingSize,       \* records in regelung_databuffer
    ParamCount,     \* ONBOARD_PARAM_COUNT
    Value,          \* values of a parameter; 0 is one that prints as 0
    Names,          \* file names before fileName[3] leaves the digits
    MaxRecords,     \* bound on the records
    MaxSets,        \* bound on the parameters set
    MaxErrors       \* bound on the errors that f_open and the first f_sync return

Thread == {"sync", "print"}
None == "none"
Index == 0..(ParamCount - 1)
Place == 0..(RingSize - 1)
Unwritten == -1
Number == 0..MaxRecords \cup {Unwritten}

ASSUME DatalogAssumption ==
    /\ RingSize \in Nat \ {0, 1}
    /\ ParamCount \in Nat \ {0}
    /\ 0 \in Value
    /\ Names \in Nat /\ MaxRecords \in Nat /\ MaxSets \in Nat
    /\ MaxErrors \in Nat

VARIABLES
    ready,          \* Datalogger_ready_flag
    opened,         \* datalog_regelung_opened
    syncing,        \* datalog_regelung_syncing
    request,        \* request_new_sd_log
    syncAt,         \* where RegelungSyncthread is
    fileName,       \* the number in fileName
    files,          \* names on the card
    header,         \* parameters in the first line of the file
    line,           \* parameters printed into it so far
    errors,         \* errors, up to the bound
    printAt,        \* where RegelungPrintthread is
    readcounter,
    taken,          \* the record it prints: whose time, whose data
    following,      \* the number after that of the last record printed
    regelung_databuffer,    \* the number of the record in each place
    writecounter,
    written,        \* records in all
    param,          \* global_data.param
    radioAt,        \* ThreadRadio: waiting, or answering PARAM_SET
    sets,           \* parameters set, up to the bound
    spiThread,      \* SPID1.thread: who is woken after the transfer
    asleep,         \* threads asleep in _spi_wait_s
    collided        \* both threads have been inside FatFs at once

file == <<fileName, files, header, line, errors>>
reader == <<printAt, readcounter, taken, following>>
ring == <<regelung_databuffer, writecounter, written>>
radio == <<param, radioAt, sets>>
spi == <<spiThread, asleep>>
vars == <<ready, opened, syncing, request, syncAt, file, reader, ring,
          radio, spi, collided>>

Init ==
    /\ ready = FALSE /\ opened = FALSE /\ syncing = FALSE /\ request = FALSE
    /\ syncAt = "loop"
    /\ fileName = 0
    /\ files \in SUBSET (0..(Names - 1))
    /\ header = [i \in Index |-> 0]
    /\ line = 0
    /\ errors = 0
    /\ printAt = "sleep"
    /\ readcounter = 0
    /\ taken = [time |-> 0, data |-> 0]
    /\ following = 0
    /\ regelung_databuffer = [p \in Place |-> Unwritten]
    /\ writecounter = 0
    /\ written = 0
    /\ param \in [Index -> Value]
    /\ radioAt = "wait"
    /\ sets = 0
    /\ spiThread = None /\ asleep = {}
    /\ collided = FALSE

-----------------------------------------------------------------------------
(* FatFs and the SPI driver below it.                                      *)

InFat(t) ==
    IF t = "print" THEN printAt = "print"
    ELSE syncAt \in {"close", "open", "print", "first", "sync"}

\* A call of FatFs by t; the other thread may be in one.
Enter(t) == collided' = (collided \/ \E u \in Thread \ {t} : InFat(u))

\* A call makes any number of transfers; each overwrites SPID1.thread.
Transfer(t) ==
    /\ InFat(t) /\ t \notin asleep
    /\ spiThread' = t
    /\ asleep' = asleep \cup {t}
    /\ UNCHANGED <<ready, opened, syncing, request, syncAt, file, reader,
                   ring, radio, collided>>

\* The interrupt at the end of a transfer, _spi_wakeup_isr.
TransferDone ==
    /\ spiThread # None
    /\ spiThread' = None
    /\ asleep' = asleep \ {spiThread}
    /\ UNCHANGED <<ready, opened, syncing, request, syncAt, file, reader,
                   ring, radio, collided>>

-----------------------------------------------------------------------------
(* Datalogger.cpp: SDMountThread, once, if there is a card.                *)

SDMountThread ==
    /\ ~ready
    /\ ready' = TRUE
    /\ UNCHANGED <<opened, syncing, request, syncAt, file, reader, ring,
                   radio, spi, collided>>

-----------------------------------------------------------------------------
(* RegelungSyncthread; asleep or at the top of its loop when at "loop".    *)

\* The calls of FatFs come back to the thread, unless it sleeps for good.
SyncBack(call) == syncAt = call /\ "sync" \notin asleep

CloseLog ==
    /\ syncAt = "loop" /\ ready /\ opened /\ request
    /\ opened' = FALSE
    /\ syncAt' = "close"
    /\ Enter("sync")
    /\ UNCHANGED <<ready, syncing, request, file, reader, ring, radio, spi>>

CloseReturns ==
    /\ SyncBack("close")
    /\ syncAt' = "loop"
    /\ UNCHANGED <<ready, opened, syncing, request, file, reader, ring,
                   radio, spi, collided>>

Pause ==
    /\ syncAt = "loop" /\ ready /\ ~opened
    /\ syncAt' = "pause"
    /\ UNCHANGED <<ready, opened, syncing, request, file, reader, ring,
                   radio, spi, collided>>

\* After 100 ms; a request that came so far is served by this file.
OpenLog ==
    /\ syncAt = "pause"
    /\ request' = FALSE
    /\ syncAt' = "open"
    /\ Enter("sync")
    /\ UNCHANGED <<ready, opened, syncing, file, reader, ring, radio, spi>>

Fails ==
    /\ errors < MaxErrors
    /\ errors' = errors + 1
    /\ syncAt' = "loop"

\* FR_EXIST: the next name.
BadNextName == fileName \in files /\ UNCHANGED <<fileName, files>>
NextName ==
    /\ fileName \in files
    /\ fileName' = fileName + 1
    /\ UNCHANGED files

OpenExists ==
    /\ SyncBack("open")
    /\ NextName
    /\ syncAt' = "loop"
    /\ UNCHANGED <<ready, opened, syncing, request, header, line, errors,
                   reader, ring, radio, spi, collided>>

\* FR_OK
OpenReturns ==
    /\ SyncBack("open")
    /\ fileName < Names /\ fileName \notin files
    /\ files' = files \cup {fileName}
    /\ syncAt' = "await"
    /\ UNCHANGED <<ready, opened, syncing, request, fileName, header, line,
                   errors, reader, ring, radio, spi, collided>>

\* An error of the card, with the name on it or not.
OpenFails ==
    /\ SyncBack("open")
    /\ fileName < Names /\ fileName \notin files
    /\ files' \in {files, files \cup {fileName}}
    /\ Fails
    /\ UNCHANGED <<ready, opened, syncing, request, fileName, header, line,
                   reader, ring, radio, spi, collided>>

\* FR_INVALID_NAME: after Reg99.TXT comes Reg:0.TXT.
NoName ==
    /\ SyncBack("open")
    /\ fileName = Names
    /\ syncAt' = "loop"
    /\ UNCHANGED <<ready, opened, syncing, request, file, reader, ring,
                   radio, spi, collided>>

\* The first parameter no longer prints as 0; the first line is begun.
ParamsLoaded ==
    /\ syncAt = "await"
    /\ param[0] # 0
    /\ line' = 0
    /\ syncAt' = "line"
    /\ UNCHANGED <<ready, opened, syncing, request, fileName, files, header,
                   errors, reader, ring, radio, spi, collided>>

\* f_printf of one parameter, then of the column names and f_sync.
PrintParam ==
    /\ syncAt = "line"
    /\ line < ParamCount
    /\ header' = [header EXCEPT ![line] = param[line]]
    /\ line' = line + 1
    /\ syncAt' = "print"
    /\ Enter("sync")
    /\ UNCHANGED <<ready, opened, syncing, request, fileName, files, errors,
                   reader, ring, radio, spi>>

PrintParamReturns ==
    /\ SyncBack("print")
    /\ syncAt' = "line"
    /\ UNCHANGED <<ready, opened, syncing, request, file, reader, ring,
                   radio, spi, collided>>

FirstSync ==
    /\ syncAt = "line"
    /\ line = ParamCount
    /\ syncAt' = "first"
    /\ Enter("sync")
    /\ UNCHANGED <<ready, opened, syncing, request, file, reader, ring,
                   radio, spi>>

FirstSyncReturns ==
    /\ SyncBack("first")
    /\ syncAt' = "message"
    /\ UNCHANGED <<ready, opened, syncing, request, file, reader, ring,
                   radio, spi, collided>>

FirstSyncFails ==
    /\ SyncBack("first")
    /\ Fails
    /\ UNCHANGED <<ready, opened, syncing, request, fileName, files, header,
                   line, reader, ring, radio, spi, collided>>

\* After chprintf and 10 ms.
BadLogOpened ==
    /\ syncAt = "message"
    /\ opened' = TRUE /\ request' = FALSE
    /\ syncAt' = "loop"
    /\ UNCHANGED <<ready, syncing, file, reader, ring, radio, spi, collided>>
LogOpened ==
    /\ syncAt = "message"
    /\ opened' = TRUE
    /\ syncAt' = "loop"
    /\ UNCHANGED <<ready, syncing, request, file, reader, ring, radio, spi,
                   collided>>

SyncLog ==
    /\ syncAt = "loop" /\ ready /\ opened /\ ~request
    /\ syncing' = TRUE
    /\ syncAt' = "sync"
    /\ Enter("sync")
    /\ UNCHANGED <<ready, opened, request, file, reader, ring, radio, spi>>

\* With or without an error, which is only reported.
SyncReturns ==
    /\ SyncBack("sync")
    /\ syncAt' = "report"
    /\ UNCHANGED <<ready, opened, syncing, request, file, reader, ring,
                   radio, spi, collided>>

SyncReported ==
    /\ syncAt = "report"
    /\ syncing' = FALSE
    /\ syncAt' = "loop"
    /\ UNCHANGED <<ready, opened, request, file, reader, ring, radio, spi,
                   collided>>

-----------------------------------------------------------------------------
(* The ring.                                                               *)

BadAdvance(place) == (place + 1) % (RingSize + 1)
Advance(place) == (place + 1) % RingSize

\* From Regelungsthread, which none of the other threads interrupts.
datalog_regelung ==
    /\ written < MaxRecords
    /\ regelung_databuffer' = [regelung_databuffer EXCEPT ![writecounter] = written]
    /\ writecounter' = Advance(writecounter)
    /\ written' = written + 1
    /\ UNCHANGED <<ready, opened, syncing, request, syncAt, file, reader, radio,
                   spi, collided>>

\* RegelungPrintthread: the condition, then chprintf, which may block.
BadUnread == TRUE
Unread == readcounter # writecounter

ReadyToPrint ==
    /\ printAt = "sleep"
    /\ Unread /\ ready /\ opened /\ ~syncing
    /\ printAt' = "chprintf"
    /\ UNCHANGED <<ready, opened, syncing, request, syncAt, file, readcounter,
                   taken, following, ring, radio, spi, collided>>

TakeTime ==
    /\ printAt = "chprintf"
    /\ taken' = [taken EXCEPT !.time = regelung_databuffer[readcounter]]
    /\ printAt' = "taking"
    /\ UNCHANGED <<ready, opened, syncing, request, syncAt, file, readcounter,
                   following, ring, radio, spi, collided>>

\* The last argument is fetched, f_printf is called.
TakeData ==
    /\ printAt = "taking"
    /\ taken' = [taken EXCEPT !.data = regelung_databuffer[readcounter]]
    /\ printAt' = "print"
    /\ Enter("print")
    /\ UNCHANGED <<ready, opened, syncing, request, syncAt, file, readcounter,
                   following, ring, radio, spi>>

\* With or without an error, which is ignored.
Printed ==
    /\ printAt = "print" /\ "print" \notin asleep
    /\ readcounter' = Advance(readcounter)
    /\ following' = taken.data + 1
    /\ printAt' = "sleep"
    /\ UNCHANGED <<ready, opened, syncing, request, syncAt, file, taken, ring,
                   radio, spi, collided>>

-----------------------------------------------------------------------------
(* ThreadRadio, GCS.cpp: PARAM_SET, then the answer, then the request.     *)

SetParam(k, v) ==
    /\ radioAt = "wait" /\ sets < MaxSets
    /\ param' = [param EXCEPT ![k] = v]
    /\ radioAt' = "answer"
    /\ sets' = sets + 1
    /\ UNCHANGED <<ready, opened, syncing, request, syncAt, file, reader,
                   ring, spi, collided>>

Answered ==
    /\ radioAt = "answer"
    /\ request' = TRUE
    /\ radioAt' = "wait"
    /\ UNCHANGED <<ready, opened, syncing, syncAt, file, reader, ring, param,
                   sets, spi, collided>>

-----------------------------------------------------------------------------
SyncNext ==
    \/ CloseLog \/ CloseReturns \/ Pause \/ OpenLog
    \/ OpenExists \/ OpenReturns \/ OpenFails \/ NoName
    \/ ParamsLoaded \/ PrintParam \/ PrintParamReturns
    \/ FirstSync \/ FirstSyncReturns \/ FirstSyncFails \/ LogOpened
    \/ SyncLog \/ SyncReturns \/ SyncReported

Next ==
    \/ SyncNext
    \/ ReadyToPrint \/ TakeTime \/ TakeData \/ Printed
    \/ datalog_regelung \/ SDMountThread \/ TransferDone
    \/ \E t \in Thread : Transfer(t)
    \/ \E k \in Index, v \in Value : SetParam(k, v)
    \/ Answered

Spec == Init /\ [][Next]_vars

\* A call of FatFs makes finitely many transfers, each of which comes to its
\* end: it returns, if its thread is woken each time.
FairSpec ==
    /\ Spec
    /\ WF_vars(TransferDone) /\ WF_vars(Answered)
    /\ SF_vars(SyncNext) /\ SF_vars(Printed)

-----------------------------------------------------------------------------
(* Properties.                                                             *)

TypeOK ==
    /\ ready \in BOOLEAN /\ opened \in BOOLEAN /\ syncing \in BOOLEAN
    /\ request \in BOOLEAN /\ collided \in BOOLEAN
    /\ syncAt \in {"loop", "close", "pause", "open", "await", "line", "print",
                   "first", "message", "sync", "report"}
    /\ fileName \in 0..Names
    /\ files \subseteq 0..(Names - 1)
    /\ header \in [Index -> Value]
    /\ line \in 0..ParamCount
    /\ errors \in 0..MaxErrors
    /\ printAt \in {"sleep", "chprintf", "taking", "print"}
    /\ readcounter \in Place
    /\ taken \in [time : Number, data : Number]
    /\ following \in 0..MaxRecords
    /\ regelung_databuffer \in [Place -> Number]
    /\ writecounter \in Place
    /\ written \in 0..MaxRecords
    /\ param \in [Index -> Value]
    /\ radioAt \in {"wait", "answer"}
    /\ sets \in 0..MaxSets
    /\ spiThread \in Thread \cup {None}
    /\ asleep \subseteq Thread

\* The log is in order and has no record twice, although the writer never
\* looks at readcounter and may pass the reader any number of times, also
\* while the reader waits in chprintf: what is lost are whole rings, and only
\* after the writer was more than a ring ahead.
LossInWholeRings ==
    printAt = "print" =>
        /\ \E laps \in 0..MaxRecords :
              taken.time = following + laps * RingSize
        /\ taken.time # following => written > following + RingSize

\* Unless a new log is asked for, or is about to be, the first line of the log
\* in use has the parameters in use: a request is not lost, whenever it comes
\* while a file is closed, opened or begun.
HeaderCurrent ==
    opened /\ ~request /\ radioAt = "wait" => header = param

\* While a thread waits in _spi_wait_s, the driver knows whom to wake (spi.h:240
\* asserts that nobody "already waiting" is replaced).
NobodyForgotten == asleep \subseteq {spiThread}

\* A request for a new log leads to a new log, if the card is mounted, a name
\* is left, the first parameter is not 0 for good, and the log threads have
\* not met inside FatFs.
RequestServed ==
    [](request /\ ready =>
        <>((opened /\ ~request) \/ collided \/ fileName = Names
           \/ [](param[0] = 0)))
=============================================================================
