------------------------------- MODULE Eeprom -------------------------------
(***************************************************************************)
(* The EEPROM emulation of Quad/Flash_driver (eeprom.cpp, Flash.cpp): two  *)
(* flash sectors, a status half-word at the head of each, and after it     *)
(* records of four bytes, data half-word first, virtual address second.    *)
(*                                                                         *)
(* A step is one flash operation (a half-word programmed, a sector erased) *)
(* together with the reads that lead to it; power may be lost between any  *)
(* two of them, and any of them may report a flash error.  One call runs   *)
(* at a time: what the RC interrupt does to a call that is under way is    *)
(* not part of this module.                                                *)
(*                                                                         *)
(* Definitions named Bad... are plausible mistakes in the definition that  *)
(* follows them; they are used by no behaviour and show which property     *)
(* would notice the mistake.                                               *)
(***************************************************************************)
EXTENDS Naturals, FiniteSets

CONSTANTS
    Slots,              \* records a page holds: PAGE_SIZE / 4 - 1
    Addr,               \* virtual addresses in use
    VirtAddVarTab,      \* the table of virtual addresses, indexed from 0
    NB_OF_VAR,          \* how many of its entries the driver carries over
    Data,               \* half-words a variable may hold
    Blank,              \* 0xFFFF, an erased half-word
    Version,            \* eeprom_data_structure_version
    OldVersion,         \* a structure version of an earlier firmware
    StackGarbage,       \* what setup_FLASH's uninitialised local may hold
    NotFound,           \* EE_ReadVariable returns 1
    NO_VALID_PAGE,      \* the routines' answer when no page is valid
    FaultsPossible,     \* whether a flash operation may report an error
    MaxPowerLosses      \* bound on the power losses of a behaviour

Page == {0, 1}
Slot == 1..Slots
\* Page status half-words (eeprom.h:68-70); Other is any further value.
ERASED == "ERASED"
RECEIVE_DATA == "RECEIVE_DATA"
VALID_PAGE == "VALID_PAGE"
Other == "Other"
Header == {ERASED, RECEIVE_DATA, VALID_PAGE, Other}

VersionAddr == VirtAddVarTab[0]
Word == [data : Data \cup {Blank}, addr : Addr \cup {Blank}]
BlankWord == [data |-> Blank, addr |-> Blank]

ASSUME SizeAssumption ==
    /\ Slots \in Nat \ {0}
    /\ NB_OF_VAR \in Nat \ {0}
    /\ MaxPowerLosses \in Nat
    /\ FaultsPossible \in BOOLEAN

\* "Virtual address defined by the user: 0xFFFF value is prohibited"; the
\* entries of the table are distinct.
ASSUME AddrAssumption ==
    /\ Blank \notin Addr
    /\ NotFound \notin Data \cup {Blank}
    /\ NO_VALID_PAGE \notin Data \cup {Blank, NotFound, 0, 1}
    /\ VirtAddVarTab \in [0..(NB_OF_VAR - 1) -> Addr]
    /\ \A i, j \in 0..(NB_OF_VAR - 1) :
          VirtAddVarTab[i] = VirtAddVarTab[j] => i = j

\* The value that stands for "not found" is no call of EE_WriteVariable.
ASSUME RequestAssumption ==
    NotFound \notin [addr : Addr, data : Data, done : BOOLEAN]

ASSUME VersionAssumption ==
    /\ {Version, OldVersion} \subseteq Data
    /\ Version # OldVersion
    /\ StackGarbage \subseteq Data

VARIABLES
    hdr,            \* the status half-word of each page
    slot,           \* the records of each page
    flashError,     \* an error flag of FLASH->SR is set: nothing clears it
    stage,          \* where setup_FLASH is, or that the firmware runs
    routine,        \* the driver routine that is executing
    pc,             \* the next flash operation, or the place between them
    cur,            \* the variable being written: [addr, data]
    dst,            \* the record it is written to: [page, slot]
    new,            \* the page that is, or is to be, the valid one
    varIdx,         \* VarIdx of the transfer loops
    call,           \* the arguments of EE_WriteVariable
    status,         \* the last EE_WriteVariable returned FLASH_COMPLETE
    promised,       \* history: the values each variable may read back
    powerLosses     \* history: bounded by MaxPowerLosses

flash == <<hdr, slot>>
locals == <<cur, dst, new, varIdx, call>>
history == <<promised, powerLosses>>
control == <<stage, routine, pc>>
vars == <<flash, flashError, control, locals, status, history>>

FlashOps == {"ProgramData", "ProgramAddr", "MarkReceive", "MarkValid",
             "EraseOld", "FormatErase0", "FormatValid0", "FormatErase1"}
Places == {"Off", "Init", "Copy", "CheckVersion", "Write", "Idle"}
Stage == {"Off", "EE_Init", "EE_Format", "WriteVersion", "Running"}
Routine == {"None", "EE_Init", "EE_Format", "EE_WriteVariable",
            "EE_PageTransfer"}

TypeOK ==
    /\ hdr \in [Page -> Header]
    /\ slot \in [Page -> [Slot -> Word]]
    /\ flashError \in BOOLEAN
    /\ stage \in Stage
    /\ routine \in Routine
    /\ pc \in FlashOps \cup Places
    /\ cur \in [addr : Addr, data : Data \cup {Blank}]
    /\ dst \in [page : Page, slot : Slot]
    /\ new \in Page
    /\ varIdx \in 0..NB_OF_VAR
    /\ call \in [addr : Addr, data : Data]
    /\ status \in BOOLEAN
    /\ promised \in [Addr -> SUBSET (Data \cup {NotFound})]
    /\ powerLosses \in 0..MaxPowerLosses

-----------------------------------------------------------------------------
(* Reading the pages.                                                      *)

\* EE_FindValidPage(READ_FROM_VALID_PAGE)
ReadPage ==
    IF hdr[0] = VALID_PAGE THEN 0
    ELSE IF hdr[1] = VALID_PAGE THEN 1
    ELSE NO_VALID_PAGE

\* EE_FindValidPage(WRITE_IN_VALID_PAGE)
WritePage ==
    IF hdr[1] = VALID_PAGE
    THEN IF hdr[0] = RECEIVE_DATA THEN 0 ELSE 1
    ELSE IF hdr[0] = VALID_PAGE
         THEN IF hdr[1] = RECEIVE_DATA THEN 1 ELSE 0
         ELSE NO_VALID_PAGE

RecordsOf(p, a) == {s \in Slot : slot[p][s].addr = a}

\* The scan of EE_ReadVariable goes from the page's end towards its head.
Lookup(p, a) ==
    IF RecordsOf(p, a) = {} THEN NotFound
    ELSE LET last == CHOOSE s \in RecordsOf(p, a) :
                        \A t \in RecordsOf(p, a) : t <= s
         IN  slot[p][last].data

EE_ReadVariable(a) ==
    IF ReadPage = NO_VALID_PAGE THEN NO_VALID_PAGE ELSE Lookup(ReadPage, a)

FreeSlots(p) == {s \in Slot : slot[p][s] = BlankWord}

-----------------------------------------------------------------------------
(* Control: calls, returns and power.                                      *)

NoCall == [addr |-> VersionAddr, data |-> Version]
ForgetLocals ==
    /\ cur' = NoCall
    /\ dst' = [page |-> 0, slot |-> 1]
    /\ new' = 0
    /\ varIdx' = 0
    /\ call' = NoCall

\* EE_WriteVariable has been called and has not returned.
Writing == routine \in {"EE_WriteVariable", "EE_PageTransfer"}

\* The routine returns to its caller; ok stands for FLASH_COMPLETE.
\* setup_FLASH looks at none of the results.
Return(ok) ==
    /\ stage' = IF stage = "EE_Format" THEN "WriteVersion"
                ELSE IF stage = "WriteVersion" THEN "Running" ELSE stage
    /\ pc' = IF stage = "EE_Init" THEN "CheckVersion"
             ELSE IF stage = "EE_Format" THEN "Write" ELSE "Idle"
    /\ routine' = IF stage = "EE_Format" THEN "EE_WriteVariable" ELSE "None"
    /\ status' = IF Writing THEN ok ELSE status
    /\ promised' = IF stage = "EE_Format"
                   THEN [promised EXCEPT ![VersionAddr] = @ \cup {Version}]
                   ELSE IF Writing /\ ok
                        THEN [promised EXCEPT ![call.addr] = {call.data}]
                        ELSE promised
    /\ ForgetLocals

\* Reset: main calls setup_FLASH, which calls EE_Init (main.cpp, Flash.cpp).
PowerOn ==
    /\ pc = "Off"
    /\ pc' = "Init"
    /\ stage' = "EE_Init"
    /\ routine' = "EE_Init"
    /\ UNCHANGED <<flash, flashError, locals, status, history>>

\* Power is lost between two flash operations: the sectors keep what they
\* hold, everything else is gone.
PowerLoss ==
    /\ pc # "Off"
    /\ powerLosses < MaxPowerLosses
    /\ powerLosses' = powerLosses + 1
    /\ pc' = "Off"
    /\ stage' = "Off"
    /\ routine' = "None"
    /\ flashError' = FALSE
    /\ status' = FALSE
    /\ ForgetLocals
    /\ UNCHANGED <<flash, promised>>

\* An error is retried until it goes away.
BadFlashFails ==
    /\ pc \in FlashOps
    /\ flashError \/ FaultsPossible
    /\ flashError' = TRUE
    /\ UNCHANGED <<flash, control, locals, status, history>>

\* FLASH_WaitForLastOperation sees an error flag, new or left from before:
\* the operation is refused and the routine gives up.
FlashFails ==
    /\ pc \in FlashOps
    /\ flashError \/ FaultsPossible
    /\ flashError' = TRUE
    /\ Return(FALSE)
    /\ UNCHANGED <<flash, powerLosses>>

-----------------------------------------------------------------------------
(* Flash operations.                                                       *)

\* Programming only clears bits: VALID_PAGE is 0x0000, ERASED is 0xFFFF.
Burn(old, value) == IF old = ERASED \/ value = VALID_PAGE THEN value ELSE old

ProgramHeader(p, value) ==
    /\ hdr' = [hdr EXCEPT ![p] = Burn(@, value)]
    /\ UNCHANGED slot

FLASH_EraseSector(p) ==
    /\ hdr' = [hdr EXCEPT ![p] = ERASED]
    /\ slot' = [slot EXCEPT ![p] = [s \in Slot |-> BlankWord]]

At(place) == pc = place /\ UNCHANGED <<flashError, powerLosses>>

\* An operation starts only when no error flag is set.
FlashOp(op) == At(op) /\ ~flashError
Goto(place) ==
    /\ pc' = place
    /\ UNCHANGED <<stage, routine, status, promised>>

-----------------------------------------------------------------------------
(* EE_Init: bring the pages to one valid and one erased page.              *)

\* The case "erased, receive" is forgotten.
BadRepairByErase(p) ==
    /\ hdr[1 - p] = ERASED
    /\ hdr[p] = VALID_PAGE

\* The pages after a power loss that EE_Init repairs; p is to be the valid one.
\* Page 0 VALID_PAGE next to a page 1 of no known status counts as page 1
\* receiving (the else of eeprom.cpp:203).
RepairByErase(p) ==
    /\ hdr[1 - p] = ERASED
    /\ hdr[p] \in {VALID_PAGE, RECEIVE_DATA}
RepairByCopy(p) ==
    /\ hdr[1 - p] = VALID_PAGE
    /\ hdr[p] = RECEIVE_DATA \/ (p = 1 /\ hdr[p] = Other)

InitErase(p) ==
    /\ At("Init")
    /\ RepairByErase(p)
    /\ new' = p
    /\ Goto("EraseOld")
    /\ UNCHANGED <<flash, cur, dst, varIdx, call>>

InitCopy(p) ==
    /\ At("Init")
    /\ RepairByCopy(p)
    /\ new' = p
    /\ Goto("Copy")
    /\ UNCHANGED <<flash, cur, dst, varIdx, call>>

\* First access, two valid pages, or a status that is none of the three.
InitFormat ==
    /\ At("Init")
    /\ \A p \in Page : ~RepairByErase(p) /\ ~RepairByCopy(p)
    /\ Goto("FormatErase0")
    /\ UNCHANGED <<flash, locals>>

\* EE_Format: erase page 0, mark it valid, erase page 1.
FormatErase0 ==
    /\ FlashOp("FormatErase0")
    /\ FLASH_EraseSector(0)
    /\ Goto("FormatValid0")
    /\ UNCHANGED locals

FormatValid0 ==
    /\ FlashOp("FormatValid0")
    /\ ProgramHeader(0, VALID_PAGE)
    /\ Goto("FormatErase1")
    /\ UNCHANGED locals

FormatErase1 ==
    /\ FlashOp("FormatErase1")
    /\ FLASH_EraseSector(1)
    /\ Return(TRUE)

\* Any structure version is accepted.
BadCheckVersion ==
    /\ At("CheckVersion")
    /\ stage' = "Running"
    /\ routine' = "None"
    /\ pc' = "Idle"
    /\ UNCHANGED <<flash, locals, status, promised>>

\* The rest of setup_FLASH: tmp is uninitialised when the version is not
\* found, and a wrong one makes it format the pages.
CheckVersion ==
    /\ At("CheckVersion")
    /\ \E tmp \in IF EE_ReadVariable(VersionAddr) \in {NotFound, NO_VALID_PAGE}
                  THEN StackGarbage ELSE {EE_ReadVariable(VersionAddr)} :
          IF tmp = Version
          THEN /\ stage' = "Running"
               /\ routine' = "None"
               /\ pc' = "Idle"
          ELSE /\ stage' = "EE_Format"
               /\ routine' = "EE_Format"
               /\ pc' = "FormatErase0"
    /\ UNCHANGED <<flash, locals, status, promised>>

-----------------------------------------------------------------------------
(* EE_WriteVariable, EE_VerifyPageFullWriteVariable and EE_PageTransfer.   *)

\* The firmware writes a variable; the version is setup_FLASH's alone.
EE_WriteVariable(a, d) ==
    /\ At("Idle")
    /\ a # VersionAddr
    /\ call' = [addr |-> a, data |-> d]
    /\ pc' = "Write"
    /\ routine' = "EE_WriteVariable"
    /\ promised' = [promised EXCEPT ![a] = @ \cup {d}]
    /\ UNCHANGED <<flash, stage, status, cur, dst, new, varIdx>>

\* The page that takes writes exists and has a blank word.
Room == WritePage # NO_VALID_PAGE /\ FreeSlots(WritePage) # {}

\* EE_VerifyPageFullWriteVariable(a, d) finds the first blank word of the
\* page that takes writes and is about to program it.
StartRecord(a, d) ==
    /\ Room
    /\ cur' = [addr |-> a, data |-> d]
    /\ \E s \in FreeSlots(WritePage) :
          /\ \A t \in FreeSlots(WritePage) : s <= t
          /\ dst' = [page |-> WritePage, slot |-> s]
    /\ Goto("ProgramData")

WriteRecord ==
    /\ At("Write")
    /\ StartRecord(call.addr, call.data)
    /\ UNCHANGED <<flash, new, varIdx, call>>

\* The page is full: EE_PageTransfer picks the other page.
StartTransfer ==
    /\ At("Write")
    /\ routine = "EE_WriteVariable"
    /\ WritePage # NO_VALID_PAGE
    /\ ~Room
    /\ new' = 1 - ReadPage
    /\ routine' = "EE_PageTransfer"
    /\ pc' = "MarkReceive"
    /\ UNCHANGED <<flash, stage, status, promised, cur, dst, varIdx, call>>

\* NO_VALID_PAGE, or the page that receives has no room either.
WriteFails ==
    /\ At("Write")
    /\ ~Room
    /\ WritePage = NO_VALID_PAGE \/ routine = "EE_PageTransfer"
    /\ Return(FALSE)
    /\ UNCHANGED flash

MarkReceive ==
    /\ FlashOp("MarkReceive")
    /\ ProgramHeader(new, RECEIVE_DATA)
    /\ Goto("Write")
    /\ UNCHANGED locals

\* The data half-word goes first, the virtual address second.
ProgramData ==
    /\ FlashOp("ProgramData")
    /\ slot' = [slot EXCEPT ![dst.page][dst.slot] =
                [data |-> cur.data, addr |-> @.addr]]
    /\ Goto("ProgramAddr")
    /\ UNCHANGED <<hdr, locals>>

ProgramAddr ==
    /\ FlashOp("ProgramAddr")
    /\ slot' = [slot EXCEPT ![dst.page][dst.slot] =
                [data |-> @.data, addr |-> cur.addr]]
    /\ \/ /\ routine = "EE_WriteVariable"
          /\ Return(TRUE)
       \/ /\ routine # "EE_WriteVariable"
          /\ Goto("Copy")
          /\ UNCHANGED locals
    /\ UNCHANGED hdr

\* The first record of the new page is copied over by the old value.
BadLeftOut(a) == EE_ReadVariable(a) = NotFound

\* The transfer loops leave out the variable that the new page's first record
\* already holds, and variables that are not found.
LeftOut(a) ==
    \/ a = (IF routine = "EE_PageTransfer" THEN call.addr ELSE slot[new][1].addr)
    \/ EE_ReadVariable(a) = NotFound
ToCopy == {i \in varIdx..(NB_OF_VAR - 1) : ~LeftOut(VirtAddVarTab[i])}

\* The loop counts in twos.
BadCopyVariable(i) ==
    /\ At("Copy")
    /\ i \in ToCopy
    /\ \A j \in ToCopy : i <= j
    /\ StartRecord(VirtAddVarTab[i], EE_ReadVariable(VirtAddVarTab[i]))
    /\ varIdx' = i + 2
    /\ UNCHANGED <<flash, new, call>>

\* The next variable of the table that is to be carried over.
CopyVariable(i) ==
    /\ At("Copy")
    /\ i \in ToCopy
    /\ \A j \in ToCopy : i <= j
    /\ StartRecord(VirtAddVarTab[i], EE_ReadVariable(VirtAddVarTab[i]))
    /\ varIdx' = i + 1
    /\ UNCHANGED <<flash, new, call>>

\* A full page ends the loop as if everything had been copied.
BadCopyFails ==
    /\ At("Copy")
    /\ ToCopy # {}
    /\ ~Room
    /\ Goto("MarkValid")
    /\ UNCHANGED <<flash, locals>>

\* PAGE_FULL or NO_VALID_PAGE inside the loop ends the routine.
CopyFails ==
    /\ At("Copy")
    /\ ToCopy # {}
    /\ ~Room
    /\ Return(FALSE)
    /\ UNCHANGED flash

\* The transfer marks the new page valid first, like EE_Init.
BadCopyDone ==
    /\ At("Copy")
    /\ ToCopy = {}
    /\ Goto("MarkValid")
    /\ UNCHANGED <<flash, locals>>

\* EE_PageTransfer erases the old page before it marks the new one valid,
\* EE_Init does it the other way round.
CopyDone ==
    /\ At("Copy")
    /\ ToCopy = {}
    /\ Goto(IF routine = "EE_PageTransfer" THEN "EraseOld" ELSE "MarkValid")
    /\ UNCHANGED <<flash, locals>>

\* The page is not marked valid after the old one is erased.
BadEraseOld ==
    /\ FlashOp("EraseOld")
    /\ FLASH_EraseSector(1 - new)
    /\ Return(TRUE)

EraseOld ==
    /\ FlashOp("EraseOld")
    /\ FLASH_EraseSector(1 - new)
    /\ \/ /\ hdr[new] = VALID_PAGE
          /\ Return(TRUE)
       \/ /\ hdr[new] # VALID_PAGE
          /\ Goto("MarkValid")
          /\ UNCHANGED locals

MarkValid ==
    /\ FlashOp("MarkValid")
    /\ ProgramHeader(new, VALID_PAGE)
    /\ \/ /\ hdr[1 - new] = ERASED
          /\ Return(TRUE)
       \/ /\ hdr[1 - new] # ERASED
          /\ Goto("EraseOld")
          /\ UNCHANGED locals

-----------------------------------------------------------------------------
\* Sectors as they come: erased, left by something else than this driver, or
\* written by a firmware with another structure version.
Fresh == [s \in Slot |-> BlankWord]
Init ==
    /\ \/ /\ hdr \in [Page -> {ERASED, Other}]
          /\ \E w \in [data : Data, addr : Addr \ {VersionAddr}] :
                slot = [p \in Page |->
                          IF hdr[p] = Other THEN [Fresh EXCEPT ![1] = w]
                          ELSE Fresh]
       \/ \E p \in Page, a \in Addr \ {VersionAddr}, d \in Data :
             /\ Slots > 1
             /\ hdr = [q \in Page |-> IF q = p THEN VALID_PAGE ELSE ERASED]
             /\ slot = [q \in Page |->
                          IF q = p
                          THEN [Fresh EXCEPT
                                  ![1] = [addr |-> VersionAddr,
                                          data |-> OldVersion],
                                  ![2] = [addr |-> a, data |-> d]]
                          ELSE Fresh]
    /\ flashError = FALSE
    /\ stage = "Off"
    /\ routine = "None"
    /\ pc = "Off"
    /\ cur = NoCall
    /\ dst = [page |-> 0, slot |-> 1]
    /\ new = 0
    /\ varIdx = 0
    /\ call = NoCall
    /\ status = FALSE
    /\ promised = [a \in Addr |-> {NotFound}]
    /\ powerLosses = 0

EE_Init ==
    \/ \E p \in Page : InitErase(p) \/ InitCopy(p)
    \/ InitFormat

EE_Format == FormatErase0 \/ FormatValid0 \/ FormatErase1

EE_VerifyPageFullWriteVariable ==
    WriteRecord \/ ProgramData \/ ProgramAddr \/ WriteFails

EE_PageTransfer ==
    \/ StartTransfer \/ MarkReceive
    \/ \E i \in 0..(NB_OF_VAR - 1) : CopyVariable(i)
    \/ CopyFails \/ CopyDone \/ EraseOld \/ MarkValid

\* What the driver does once it has been entered.
Driver ==
    \/ EE_Init \/ EE_Format \/ CheckVersion
    \/ EE_VerifyPageFullWriteVariable \/ EE_PageTransfer \/ FlashFails

Next ==
    \/ PowerOn
    \/ PowerLoss
    \/ Driver
    \/ \E a \in Addr, d \in Data : EE_WriteVariable(a, d)

Spec == Init /\ [][Next]_vars

\* The core executes what it has started; nobody owes the firmware a call.
FairSpec == Spec /\ WF_vars(PowerOn) /\ WF_vars(Driver)

-----------------------------------------------------------------------------
(* Properties.                                                             *)

\* A value whose write was acknowledged is what EE_ReadVariable returns, until
\* the next write of that variable: across page transfers, power losses and
\* the repair by EE_Init ("Restore the pages to a known good state in case of
\* page's status corruption after a power loss", eeprom.cpp:48).  A write that
\* was cut short may have happened or not.  With a flash error pending the
\* driver may have no valid page until the next reset, but never a wrong value.
AckedReadable ==
    pc = "Idle" =>
        \A a \in Addr : NotFound \notin promised[a] =>
            \/ EE_ReadVariable(a) \in promised[a]
            \/ flashError /\ EE_ReadVariable(a) = NO_VALID_PAGE

\* A variable never reads back a value nobody wrote with this structure
\* version, whatever the sectors held before and however EE_Init and EE_Format
\* were interrupted, unless the flash refuses to be formatted.
NothingInvented ==
    pc = "Idle" /\ ~flashError =>
        \A a \in Addr : EE_ReadVariable(a) \in promised[a]

\* Whenever a caller may use the driver and the flash works, exactly one page
\* is valid: EE_ReadVariable and EE_WriteVariable never return NO_VALID_PAGE
\* and never find two pages to choose from.
OneValidPage ==
    pc = "Idle" /\ ~flashError => \E p \in Page :
        hdr[p] = VALID_PAGE /\ hdr[1 - p] # VALID_PAGE

\* What EE_Init would make of the pages if power were lost now, as long as it
\* runs to its end.
Recovered(a) ==
    CASE hdr[0] = VALID_PAGE /\ hdr[1] = VALID_PAGE ->
             IF pc = "EraseOld" THEN Lookup(new, a) ELSE NotFound
      [] hdr[0] = VALID_PAGE /\ hdr[1] # VALID_PAGE ->
             IF hdr[1] = RECEIVE_DATA /\ slot[1][1].addr = a
             THEN slot[1][1].data ELSE Lookup(0, a)
      [] hdr[1] = VALID_PAGE /\ hdr[0] # VALID_PAGE ->
             IF hdr[0] = RECEIVE_DATA /\ slot[0][1].addr = a
             THEN slot[0][1].data ELSE Lookup(1, a)
      [] hdr[0] = RECEIVE_DATA /\ hdr[1] = ERASED -> Lookup(0, a)
      [] hdr[1] = RECEIVE_DATA /\ hdr[0] = ERASED -> Lookup(1, a)
      [] OTHER -> NotFound
Content == [a \in Addr |-> Recovered(a)]

\* The pages as they are when EE_Init has marked the new page valid and has
\* not yet erased the old one (eeprom.cpp:138-145 and 229-236).
TwoValidPages == \A p \in Page : hdr[p] = VALID_PAGE

\* The content of the right structure version changes in two ways only: by the
\* record of the variable being written, or because two pages are left valid,
\* by a power loss or a failing erase.  No other instant of a write, a transfer,
\* a format or a repair can be interrupted to any effect, however often.
ContentChangesByWrite ==
    [][Recovered(VersionAddr) = Version /\ Content' # Content =>
         \/ /\ Writing
            /\ Content' = [Content EXCEPT ![call.addr] = call.data]
         \/ TwoValidPages /\ (pc' = "Off" \/ flashError')
         \/ TwoValidPages' /\ pc = "FormatValid0"]_vars

\* The driver always comes back to its caller: transfer loops, repair and
\* format end, also when the flash refuses every operation.
DriverReturns == []<>(pc = "Idle")

\* The record of the call is in flash although the transfer is not over.
Recorded ==
    /\ routine = "EE_PageTransfer"
    /\ pc \notin {"MarkReceive", "Write"}
    /\ pc \in {"ProgramData", "ProgramAddr"} => varIdx > 0

Store == INSTANCE EepromStore WITH
    NoRequest <- NotFound,
    store <- Content,
    request <- IF Writing
               THEN [addr |-> call.addr, data |-> call.data, done |-> Recorded]
               ELSE NotFound

\* The driver is an implementation of the atomic store.
ImplementsStore == Store!Spec
=============================================================================
