---------------------------- MODULE EepromProofs ----------------------------
(***************************************************************************)
(* Theorems about Eeprom for any number of records, addresses and values,  *)
(* with and without flash errors: what may be found after any number of    *)
(* power losses, what an acknowledged write is worth, and that the driver  *)
(* implements the atomic store of EepromStore.                             *)
(***************************************************************************)
EXTENDS Eeprom, WellFoundedInduction, TLAPS

\* The backward scan of EE_ReadVariable has a first hit if it has any.
LEMMA LargestSlot ==
    ASSUME NEW S \in SUBSET Slot, S # {}
    PROVE  \E s \in S : \A t \in S : t <= s
<1> DEFINE T == {n \in Nat : Slots - n \in S}
<1>1. PICK s0 \in S : TRUE
  OBVIOUS
<1>2. Slots \in Nat /\ s0 \in 1..Slots
  BY <1>1, SizeAssumption DEF Slot
<1>3. Slots - s0 \in T
  BY <1>2
<1>4. T \subseteq Nat /\ T # {}
  BY <1>3
<1> HIDE DEF T
<1>5. PICK m \in T : \A n \in T : ~(<<n, m>> \in OpToRel(<, Nat))
  BY <1>4, NatLessThanWellFounded, WFMin
<1>6. \A n \in T : ~(n < m)
  BY <1>4, <1>5 DEF OpToRel
<1>7. m \in Nat /\ Slots - m \in S
  BY <1>5 DEF T
<1>8. ASSUME NEW t \in S
      PROVE  t <= Slots - m
  <2>1. t \in 1..Slots
    BY DEF Slot
  <2>2. Slots - t \in Nat /\ Slots - (Slots - t) = t
    BY <2>1, <1>2
  <2>3. Slots - t \in T
    BY <2>2 DEF T
  <2>4. ~(Slots - t < m)
    BY <2>3, <1>6
  <2> QED
    BY <2>1, <2>4, <1>2, <1>7
<1> QED
  BY <1>7, <1>8

\* A variable that is found reads back a half-word.
LEMMA LookupType ==
    ASSUME TypeOK, NEW p \in Page, NEW a
    PROVE  Lookup(p, a) \in Data \cup {Blank, NotFound}
<1>1. CASE RecordsOf(p, a) = {}
  BY <1>1 DEF Lookup
<1>2. CASE RecordsOf(p, a) # {}
  <2> DEFINE last == CHOOSE s \in RecordsOf(p, a) :
                        \A t \in RecordsOf(p, a) : t <= s
  <2>1. \E s \in RecordsOf(p, a) : \A t \in RecordsOf(p, a) : t <= s
    BY <1>2, LargestSlot DEF RecordsOf
  <2>2. last \in RecordsOf(p, a)
    BY <2>1
  <2>3. last \in Slot
    BY <2>2 DEF RecordsOf
  <2>4. slot[p][last].data \in Data \cup {Blank}
    BY <2>3 DEF TypeOK, Word
  <2> QED
    BY <1>2, <2>4 DEF Lookup
<1> QED
  BY <1>1, <1>2

LEMMA TableType == /\ VersionAddr \in Addr
                   /\ Version \in Data
                   /\ NoCall \in [addr : Addr, data : Data]
                   /\ [page |-> 0, slot |-> 1] \in [page : Page, slot : Slot]
                   /\ 0 \in 0..NB_OF_VAR
  BY SizeAssumption, AddrAssumption, VersionAssumption
  DEF VersionAddr, NoCall, Page, Slot

LEMMA ForgetLocalsType ==
    ASSUME ForgetLocals
    PROVE  /\ cur' \in [addr : Addr, data : Data \cup {Blank}]
           /\ dst' \in [page : Page, slot : Slot]
           /\ new' \in Page
           /\ varIdx' \in 0..NB_OF_VAR
           /\ call' \in [addr : Addr, data : Data]
  BY TableType DEF ForgetLocals, NoCall, Page

LEMMA ReturnType ==
    ASSUME TypeOK, NEW ok \in BOOLEAN, Return(ok)
    PROVE  /\ stage' \in Stage
           /\ routine' \in Routine
           /\ pc' \in FlashOps \cup Places
           /\ status' \in BOOLEAN
           /\ promised' \in [Addr -> SUBSET (Data \cup {NotFound})]
           /\ cur' \in [addr : Addr, data : Data \cup {Blank}]
           /\ dst' \in [page : Page, slot : Slot]
           /\ new' \in Page
           /\ varIdx' \in 0..NB_OF_VAR
           /\ call' \in [addr : Addr, data : Data]
<1>1. ForgetLocals
  BY DEF Return
<1>2. stage' \in Stage /\ pc' \in FlashOps \cup Places
  BY DEF Return, TypeOK, Stage, Places
<1>3. routine' \in Routine /\ status' \in BOOLEAN
  BY DEF Return, TypeOK, Routine
<1>4. promised' \in [Addr -> SUBSET (Data \cup {NotFound})]
  <2>1. call.addr \in Addr /\ call.data \in Data
    BY DEF TypeOK
  <2> QED
    BY <2>1, TableType DEF Return, TypeOK
<1> QED
  BY <1>1, <1>2, <1>3, <1>4, ForgetLocalsType

-----------------------------------------------------------------------------
(* Type correctness.                                                       *)

LEMMA InitType == Init => TypeOK
<1> SUFFICES ASSUME Init PROVE TypeOK
  OBVIOUS
<1>1. hdr \in [Page -> Header]
  BY DEF Init, Header
<1>2. slot \in [Page -> [Slot -> Word]]
  <2>1. Fresh \in [Slot -> Word]
    BY DEF Fresh, Word, BlankWord
  <2>2. CASE \E w \in [data : Data, addr : Addr \ {VersionAddr}] :
               slot = [p \in Page |->
                         IF hdr[p] = Other THEN [Fresh EXCEPT ![1] = w]
                         ELSE Fresh]
    <3>1. PICK w \in [data : Data, addr : Addr \ {VersionAddr}] :
               slot = [p \in Page |->
                         IF hdr[p] = Other THEN [Fresh EXCEPT ![1] = w]
                         ELSE Fresh]
      BY <2>2
    <3>2. w \in Word
      BY DEF Word
    <3> QED
      BY <2>1, <3>1, <3>2
  <2>3. CASE \E p \in Page, a \in Addr \ {VersionAddr}, d \in Data :
               slot = [q \in Page |->
                         IF q = p
                         THEN [Fresh EXCEPT
                                 ![1] = [addr |-> VersionAddr,
                                         data |-> OldVersion],
                                 ![2] = [addr |-> a, data |-> d]]
                         ELSE Fresh]
    <3>1. PICK p \in Page, a \in Addr \ {VersionAddr}, d \in Data :
               slot = [q \in Page |->
                         IF q = p
                         THEN [Fresh EXCEPT
                                 ![1] = [addr |-> VersionAddr,
                                         data |-> OldVersion],
                                 ![2] = [addr |-> a, data |-> d]]
                         ELSE Fresh]
      BY <2>3
    <3>2. /\ [addr |-> VersionAddr, data |-> OldVersion] \in Word
          /\ [addr |-> a, data |-> d] \in Word
      BY TableType, VersionAssumption DEF Word
    <3> QED
      BY <2>1, <3>1, <3>2
  <2> QED
    BY <2>2, <2>3 DEF Init
<1>3. promised \in [Addr -> SUBSET (Data \cup {NotFound})]
  BY DEF Init
<1>4. powerLosses \in 0..MaxPowerLosses
  BY SizeAssumption DEF Init
<1>5. /\ cur \in [addr : Addr, data : Data \cup {Blank}]
      /\ dst \in [page : Page, slot : Slot]
      /\ new \in Page
      /\ varIdx \in 0..NB_OF_VAR
      /\ call \in [addr : Addr, data : Data]
  BY TableType DEF Init, NoCall, Page
<1> QED
  BY <1>1, <1>2, <1>3, <1>4, <1>5 DEF Init, TypeOK, Stage, Routine, Places

\* The pages an operation may choose are pages.
LEMMA PageType ==
    /\ WritePage \in Page \cup {NO_VALID_PAGE}
    /\ ReadPage \in Page \cup {NO_VALID_PAGE}
    /\ WritePage = NO_VALID_PAGE <=> ReadPage = NO_VALID_PAGE
    /\ NO_VALID_PAGE \notin Page
    /\ \A p \in Page : 1 - p \in Page
  BY AddrAssumption DEF WritePage, ReadPage, Page

LEMMA EraseType ==
    ASSUME TypeOK, NEW p \in Page, FLASH_EraseSector(p)
    PROVE  hdr' \in [Page -> Header] /\ slot' \in [Page -> [Slot -> Word]]
<1>1. [s \in Slot |-> BlankWord] \in [Slot -> Word]
  BY DEF BlankWord, Word
<1> QED
  BY <1>1 DEF FLASH_EraseSector, TypeOK, Header

LEMMA HeaderType ==
    ASSUME TypeOK, NEW p \in Page, NEW v \in Header, ProgramHeader(p, v)
    PROVE  hdr' \in [Page -> Header] /\ slot' \in [Page -> [Slot -> Word]]
  BY DEF ProgramHeader, Burn, TypeOK

LEMMA StartRecordType ==
    ASSUME TypeOK, NEW a \in Addr, NEW d \in Data \cup {Blank},
           StartRecord(a, d)
    PROVE  /\ cur' \in [addr : Addr, data : Data \cup {Blank}]
           /\ dst' \in [page : Page, slot : Slot]
           /\ Goto("ProgramData")
<1>1. WritePage \in Page
  BY PageType DEF StartRecord, Room
<1>2. FreeSlots(WritePage) \subseteq Slot
  BY DEF FreeSlots
<1> QED
  BY <1>1, <1>2 DEF StartRecord

\* Every step of the driver and of its callers keeps the types.
LEMMA StepType == TypeOK /\ [Next]_vars => TypeOK'
<1> SUFFICES ASSUME TypeOK, [Next]_vars PROVE TypeOK'
  OBVIOUS
<1> USE DEF At, FlashOp, Goto
<1>1. CASE PowerOn
  BY <1>1 DEF PowerOn, TypeOK, Stage, Routine, Places, flash, locals, history
<1>2. CASE PowerLoss
  <2>1. powerLosses' \in 0..MaxPowerLosses
    BY <1>2, SizeAssumption DEF PowerLoss, TypeOK
  <2>2. ForgetLocals
    BY <1>2 DEF PowerLoss
  <2> QED
    BY <1>2, <2>1, <2>2, ForgetLocalsType
    DEF PowerLoss, TypeOK, Stage, Routine, Places, flash
<1>3. CASE FlashFails
  BY <1>3, ReturnType DEF FlashFails, TypeOK, flash
<1>4. ASSUME NEW p \in Page, InitErase(p)
      PROVE  TypeOK'
  BY <1>4 DEF InitErase, TypeOK, FlashOps, flash
<1>5. ASSUME NEW p \in Page, InitCopy(p)
      PROVE  TypeOK'
  BY <1>5 DEF InitCopy, TypeOK, Places, flash
<1>6. CASE InitFormat
  BY <1>6 DEF InitFormat, TypeOK, FlashOps, flash, locals
<1>7. CASE FormatErase0
  BY <1>7, EraseType DEF FormatErase0, TypeOK, FlashOps, Page, locals
<1>8. CASE FormatValid0
  BY <1>8, HeaderType DEF FormatValid0, TypeOK, FlashOps, Page, Header, locals
<1>9. CASE FormatErase1
  <2>1. hdr' \in [Page -> Header] /\ slot' \in [Page -> [Slot -> Word]]
    BY <1>9, EraseType DEF FormatErase1, Page
  <2>2. Return(TRUE)
    BY <1>9 DEF FormatErase1
  <2> QED
    BY <1>9, <2>1, <2>2, ReturnType DEF FormatErase1, TypeOK
<1>10. CASE CheckVersion
  BY <1>10
  DEF CheckVersion, TypeOK, FlashOps, Places, Stage, Routine, flash, locals
<1>11. ASSUME NEW a \in Addr, NEW d \in Data, EE_WriteVariable(a, d)
       PROVE  TypeOK'
  BY <1>11 DEF EE_WriteVariable, TypeOK, Places, Routine, flash
<1>12. CASE WriteRecord
  <2>1. call.addr \in Addr /\ call.data \in Data
    BY DEF TypeOK
  <2>2. StartRecord(call.addr, call.data)
    BY <1>12 DEF WriteRecord
  <2> QED
    BY <1>12, <2>1, <2>2, StartRecordType DEF WriteRecord, TypeOK, FlashOps, flash
<1>13. CASE StartTransfer
  <2>1. ReadPage \in Page
    BY <1>13, PageType DEF StartTransfer
  <2>2. new' \in Page
    BY <1>13, <2>1, PageType DEF StartTransfer
  <2> QED
    BY <1>13, <2>2 DEF StartTransfer, TypeOK, FlashOps, Routine, flash
<1>14. CASE WriteFails
  BY <1>14, ReturnType DEF WriteFails, TypeOK, flash
<1>15. CASE MarkReceive
  <2>1. hdr' \in [Page -> Header] /\ slot' \in [Page -> [Slot -> Word]]
    BY <1>15, HeaderType DEF MarkReceive, TypeOK, Header
  <2> QED
    BY <1>15, <2>1 DEF MarkReceive, TypeOK, Places, locals
<1>16. CASE ProgramData
  <2>0. [data |-> cur.data, addr |-> slot[dst.page][dst.slot].addr] \in Word
    BY DEF TypeOK, Word
  <2>1. slot' \in [Page -> [Slot -> Word]]
    BY <1>16, <2>0 DEF ProgramData, TypeOK
  <2> QED
    BY <1>16, <2>1 DEF ProgramData, TypeOK, FlashOps, locals
<1>17. CASE ProgramAddr
  <2>0. [data |-> slot[dst.page][dst.slot].data, addr |-> cur.addr] \in Word
    BY DEF TypeOK, Word
  <2>1. slot' \in [Page -> [Slot -> Word]]
    BY <1>17, <2>0 DEF ProgramAddr, TypeOK
  <2>2. CASE Return(TRUE)
    BY <1>17, <2>1, <2>2, ReturnType DEF ProgramAddr, TypeOK
  <2>3. CASE Goto("Copy") /\ UNCHANGED locals
    BY <1>17, <2>1, <2>3 DEF ProgramAddr, TypeOK, Places, locals
  <2> QED
    BY <1>17, <2>2, <2>3 DEF ProgramAddr
<1>18. ASSUME NEW i \in 0..(NB_OF_VAR - 1), CopyVariable(i)
       PROVE  TypeOK'
  <2> DEFINE a == VirtAddVarTab[i]
             d == EE_ReadVariable(a)
  <2>1. a \in Addr
    BY AddrAssumption
  <2>2. WritePage # NO_VALID_PAGE
    BY <1>18 DEF CopyVariable, StartRecord, Room
  <2>3. ReadPage \in Page
    BY <2>2, PageType
  <2>4. d # NotFound
    BY <1>18 DEF CopyVariable, ToCopy, LeftOut
  <2>5. d \in Data \cup {Blank}
    BY <2>3, <2>4, LookupType, PageType DEF EE_ReadVariable
  <2>6. StartRecord(a, d)
    BY <1>18 DEF CopyVariable
  <2>7. varIdx' \in 0..NB_OF_VAR
    BY <1>18, SizeAssumption DEF CopyVariable
  <2> HIDE DEF a, d
  <2> QED
    BY <1>18, <2>1, <2>5, <2>6, <2>7, StartRecordType
    DEF CopyVariable, TypeOK, FlashOps, flash
<1>19. CASE CopyFails
  BY <1>19, ReturnType DEF CopyFails, TypeOK, flash
<1>20. CASE CopyDone
  BY <1>20 DEF CopyDone, TypeOK, FlashOps, flash, locals
<1>21. CASE EraseOld
  <2>1. hdr' \in [Page -> Header] /\ slot' \in [Page -> [Slot -> Word]]
    BY <1>21, EraseType, PageType DEF EraseOld, TypeOK
  <2>2. CASE Return(TRUE)
    BY <1>21, <2>1, <2>2, ReturnType DEF EraseOld, TypeOK
  <2>3. CASE Goto("MarkValid") /\ UNCHANGED locals
    BY <1>21, <2>1, <2>3 DEF EraseOld, TypeOK, FlashOps, locals
  <2> QED
    BY <1>21, <2>2, <2>3 DEF EraseOld
<1>22. CASE MarkValid
  <2>1. hdr' \in [Page -> Header] /\ slot' \in [Page -> [Slot -> Word]]
    BY <1>22, HeaderType DEF MarkValid, TypeOK, Header
  <2>2. CASE Return(TRUE)
    BY <1>22, <2>1, <2>2, ReturnType DEF MarkValid, TypeOK
  <2>3. CASE Goto("EraseOld") /\ UNCHANGED locals
    BY <1>22, <2>1, <2>3 DEF MarkValid, TypeOK, FlashOps, locals
  <2> QED
    BY <1>22, <2>2, <2>3 DEF MarkValid
<1>23. CASE UNCHANGED vars
  BY <1>23 DEF TypeOK, vars, flash, control, locals, history
<1> QED
  BY <1>1, <1>2, <1>3, <1>4, <1>5, <1>6, <1>7, <1>8, <1>9, <1>10, <1>11,
     <1>12, <1>13, <1>14, <1>15, <1>16, <1>17, <1>18, <1>19, <1>20, <1>21,
     <1>22, <1>23
  DEF Next, Driver, EE_Init, EE_Format, EE_VerifyPageFullWriteVariable,
      EE_PageTransfer

\* The driver's state stays within its types, whatever the flash does.
THEOREM TypeCorrect == Spec => []TypeOK
<1>1. Init => TypeOK
  BY InitType
<1>2. TypeOK /\ [Next]_vars => TypeOK'
  BY StepType
<1> QED
  BY <1>1, <1>2, PTL DEF Spec

-----------------------------------------------------------------------------
(* One valid page.                                                         *)

ExactlyOneValid ==
    \E p \in Page : hdr[p] = VALID_PAGE /\ hdr[1 - p] # VALID_PAGE

\* The page that receives is not valid yet and the one it is filled from is.
Receiving == hdr[1 - new] = VALID_PAGE /\ hdr[new] # VALID_PAGE

\* Which routine may be at which place.
RoutineInv ==
    /\ pc = "Init" => routine = "EE_Init"
    /\ pc = "MarkReceive" => routine = "EE_PageTransfer"
    /\ pc = "Copy" => routine \in {"EE_Init", "EE_PageTransfer"}
    /\ pc = "Write" => Writing
    /\ pc \in {"ProgramData", "ProgramAddr"} => Writing \/ routine = "EE_Init"

\* What the headers are at that place, unless a flash operation has failed.
\* At MarkValid and EraseOld nothing is needed: each of them looks at the
\* other page before it returns.
HeaderInv ==
    /\ pc \in {"CheckVersion", "Idle"} => ExactlyOneValid
    /\ pc \in {"Write", "ProgramData", "ProgramAddr"}
          /\ routine = "EE_WriteVariable" => ExactlyOneValid
    /\ pc \in {"MarkReceive", "Write", "ProgramData", "ProgramAddr", "Copy"}
          /\ routine \in {"EE_Init", "EE_PageTransfer"} => Receiving
    /\ pc = "FormatErase1" => hdr[0] = VALID_PAGE

IInv == TypeOK /\ RoutineInv /\ (~flashError => HeaderInv)

\* A routine that returns leaves behind what its caller relies on.
LEMMA ReturnInv ==
    ASSUME TypeOK', NEW ok \in BOOLEAN, Return(ok),
           ~flashError' => ExactlyOneValid'
    PROVE  IInv'
<1>1. RoutineInv'
  BY DEF Return, RoutineInv, Writing
<1>2. ~flashError' => HeaderInv'
  BY DEF Return, HeaderInv
<1> QED
  BY <1>1, <1>2 DEF IInv

\* Erasing and marking act on one page and leave the other one alone.
LEMMA EraseEffect ==
    ASSUME TypeOK, NEW p \in Page, FLASH_EraseSector(p)
    PROVE  hdr'[p] = ERASED /\ hdr'[1 - p] = hdr[1 - p]
  BY DEF FLASH_EraseSector, TypeOK, Page

LEMMA MarkValidEffect ==
    ASSUME TypeOK, NEW p \in Page, ProgramHeader(p, VALID_PAGE)
    PROVE  hdr'[p] = VALID_PAGE /\ hdr'[1 - p] = hdr[1 - p]
  BY DEF ProgramHeader, Burn, TypeOK, Page

LEMMA MarkReceiveEffect ==
    ASSUME TypeOK, NEW p \in Page, ProgramHeader(p, RECEIVE_DATA)
    PROVE  /\ hdr'[p] = VALID_PAGE => hdr[p] = VALID_PAGE
           /\ hdr'[1 - p] = hdr[1 - p]
  BY DEF ProgramHeader, Burn, TypeOK, Page, RECEIVE_DATA, VALID_PAGE

LEMMA StatusesDiffer ==
    /\ ERASED # VALID_PAGE
    /\ RECEIVE_DATA # VALID_PAGE
    /\ Other # VALID_PAGE
  BY DEF ERASED, VALID_PAGE, RECEIVE_DATA, Other

\* Receiving is one valid page, seen from the page that receives.
LEMMA ReceivingIsOne ==
    ASSUME TypeOK, Receiving
    PROVE  ExactlyOneValid
<1>1. 1 - new \in Page /\ 1 - (1 - new) = new
  BY DEF TypeOK, Page
<1> QED
  BY <1>1 DEF Receiving, ExactlyOneValid

LEMMA StepIInv == IInv /\ [Next]_vars => IInv'
<1> SUFFICES ASSUME IInv, [Next]_vars PROVE IInv'
  OBVIOUS
<1> USE DEF At, FlashOp, Goto
<1>0. TypeOK /\ TypeOK'
  BY StepType DEF IInv
<1>1. CASE PowerOn
  BY <1>0, <1>1 DEF PowerOn, IInv, RoutineInv, HeaderInv, Writing
<1>2. CASE PowerLoss
  BY <1>0, <1>2 DEF PowerLoss, IInv, RoutineInv, HeaderInv, Writing
<1>3. CASE FlashFails
  <2>1. Return(FALSE) /\ flashError'
    BY <1>3 DEF FlashFails
  <2> QED
    BY <1>0, <2>1, ReturnInv
<1>4. ASSUME NEW p \in Page, InitErase(p)
      PROVE  IInv'
  BY <1>0, <1>4 DEF InitErase, IInv, RoutineInv, HeaderInv, Writing
<1>5. ASSUME NEW p \in Page, InitCopy(p)
      PROVE  IInv'
  <2>1. Receiving'
    BY <1>5, StatusesDiffer DEF InitCopy, RepairByCopy, Receiving, flash
  <2>2. RoutineInv'
    BY <1>5 DEF InitCopy, IInv, RoutineInv, Writing
  <2>3. HeaderInv'
    BY <1>5, <2>1 DEF InitCopy, HeaderInv, IInv, RoutineInv
  <2> QED
    BY <1>0, <2>2, <2>3 DEF IInv
<1>6. CASE InitFormat
  BY <1>0, <1>6 DEF InitFormat, IInv, RoutineInv, HeaderInv, Writing
<1>7. CASE FormatErase0
  BY <1>0, <1>7 DEF FormatErase0, IInv, RoutineInv, HeaderInv, Writing
<1>8. CASE FormatValid0
  <2>1. hdr'[0] = VALID_PAGE
    BY <1>0, <1>8, MarkValidEffect DEF FormatValid0, Page
  <2> QED
    BY <1>0, <1>8, <2>1 DEF FormatValid0, IInv, RoutineInv, HeaderInv, Writing
<1>9. CASE FormatErase1
  <2>1. ~flashError /\ hdr[0] = VALID_PAGE
    BY <1>9 DEF FormatErase1, IInv, HeaderInv
  <2>2. hdr'[0] = VALID_PAGE /\ hdr'[1 - 0] = ERASED
    BY <1>0, <1>9, <2>1, EraseEffect DEF FormatErase1, Page
  <2>3. ExactlyOneValid'
    BY <2>2, StatusesDiffer DEF ExactlyOneValid, Page
  <2> QED
    BY <1>0, <1>9, <2>3, ReturnInv DEF FormatErase1
<1>10. CASE CheckVersion
  <2>1. ~flashError => ExactlyOneValid
    BY <1>10 DEF CheckVersion, IInv, HeaderInv
  <2>2. ~flashError' => ExactlyOneValid'
    BY <1>10, <2>1 DEF CheckVersion, ExactlyOneValid, flash
  <2> QED
    BY <1>0, <1>10, <2>2
    DEF CheckVersion, IInv, RoutineInv, HeaderInv, Writing
<1>11. ASSUME NEW a \in Addr, NEW d \in Data, EE_WriteVariable(a, d)
       PROVE  IInv'
  <2>1. ~flashError' => ExactlyOneValid'
    BY <1>11 DEF EE_WriteVariable, IInv, HeaderInv, ExactlyOneValid, flash
  <2> QED
    BY <1>0, <1>11, <2>1
    DEF EE_WriteVariable, IInv, RoutineInv, HeaderInv, Writing
<1>12. CASE WriteRecord
  <2>1. pc = "Write" /\ pc' = "ProgramData" /\ routine' = routine
        /\ hdr' = hdr /\ new' = new /\ flashError' = flashError
    BY <1>12 DEF WriteRecord, StartRecord, flash
  <2> QED
    BY <1>0, <2>1
    DEF IInv, RoutineInv, HeaderInv, Writing, Receiving, ExactlyOneValid
<1>13. CASE StartTransfer
  <2>1. ~flashError => ExactlyOneValid
    BY <1>13 DEF StartTransfer, IInv, HeaderInv
  <2>2. ~flashError => Receiving'
    BY <1>0, <1>13, <2>1
    DEF StartTransfer, ExactlyOneValid, Receiving, ReadPage, Page, flash
  <2> QED
    BY <1>0, <1>13, <2>2 DEF StartTransfer, IInv, RoutineInv, HeaderInv, Writing
<1>14. CASE WriteFails
  <2>1. ~flashError => ExactlyOneValid
    BY <1>0, <1>14, ReceivingIsOne
    DEF WriteFails, IInv, RoutineInv, HeaderInv, Writing
  <2>2. ~flashError' => ExactlyOneValid'
    BY <1>14, <2>1 DEF WriteFails, ExactlyOneValid, flash
  <2> QED
    BY <1>0, <1>14, <2>2, ReturnInv DEF WriteFails
<1>15. CASE MarkReceive
  <2>1. ~flashError /\ routine = "EE_PageTransfer" /\ Receiving
    BY <1>15 DEF MarkReceive, IInv, RoutineInv, HeaderInv
  <2>2. Receiving'
    BY <1>0, <1>15, <2>1, MarkReceiveEffect
    DEF MarkReceive, Receiving, TypeOK, locals
  <2> QED
    BY <1>0, <1>15, <2>1, <2>2
    DEF MarkReceive, IInv, RoutineInv, HeaderInv, Writing
<1>16. CASE ProgramData
  <2>1. pc = "ProgramData" /\ pc' = "ProgramAddr" /\ routine' = routine
        /\ hdr' = hdr /\ new' = new /\ flashError' = flashError
    BY <1>16 DEF ProgramData, locals
  <2> QED
    BY <1>0, <2>1
    DEF IInv, RoutineInv, HeaderInv, Writing, Receiving, ExactlyOneValid
<1>17. CASE ProgramAddr
  <2>1. CASE routine = "EE_WriteVariable" /\ Return(TRUE)
    <3>1. ExactlyOneValid'
      BY <1>17, <2>1 DEF ProgramAddr, IInv, HeaderInv, ExactlyOneValid
    <3> QED
      BY <1>0, <2>1, <3>1, ReturnInv
  <2>2. CASE routine # "EE_WriteVariable" /\ Goto("Copy") /\ UNCHANGED locals
    <3>1. routine \in {"EE_Init", "EE_PageTransfer"}
      BY <1>17, <2>2 DEF ProgramAddr, IInv, RoutineInv, Writing
    <3>2. Receiving
      BY <1>17, <3>1 DEF ProgramAddr, IInv, HeaderInv
    <3>3. Receiving'
      BY <1>17, <2>2, <3>2 DEF ProgramAddr, Receiving, locals
    <3> QED
      BY <1>0, <1>17, <2>2, <3>1, <3>3
      DEF IInv, RoutineInv, HeaderInv, Writing
  <2> QED
    BY <1>17, <2>1, <2>2 DEF ProgramAddr
<1>18. ASSUME NEW i \in 0..(NB_OF_VAR - 1), CopyVariable(i)
       PROVE  IInv'
  <2>1. pc = "Copy" /\ pc' = "ProgramData" /\ routine' = routine
        /\ hdr' = hdr /\ new' = new /\ flashError' = flashError
    BY <1>18 DEF CopyVariable, StartRecord, flash
  <2> QED
    BY <1>0, <2>1
    DEF IInv, RoutineInv, HeaderInv, Writing, Receiving, ExactlyOneValid
<1>19. CASE CopyFails
  <2>1. ~flashError => ExactlyOneValid
    BY <1>0, <1>19, ReceivingIsOne DEF CopyFails, IInv, RoutineInv, HeaderInv
  <2>2. ~flashError' => ExactlyOneValid'
    BY <1>19, <2>1 DEF CopyFails, ExactlyOneValid, flash
  <2> QED
    BY <1>0, <1>19, <2>2, ReturnInv DEF CopyFails
<1>20. CASE CopyDone
  BY <1>0, <1>20 DEF CopyDone, IInv, RoutineInv, HeaderInv, Writing
<1>21. CASE EraseOld
  <2>1. new \in Page /\ 1 - new \in Page /\ 1 - (1 - new) = new
    BY <1>0 DEF TypeOK, Page
  <2>2. hdr'[1 - new] = ERASED /\ hdr'[new] = hdr[new]
    BY <1>0, <1>21, <2>1, EraseEffect DEF EraseOld
  <2>3. CASE hdr[new] = VALID_PAGE /\ Return(TRUE)
    <3>1. ExactlyOneValid'
      BY <2>1, <2>2, <2>3, StatusesDiffer DEF ExactlyOneValid
    <3> QED
      BY <1>0, <2>3, <3>1, ReturnInv
  <2>4. CASE hdr[new] # VALID_PAGE /\ Goto("MarkValid") /\ UNCHANGED locals
    BY <1>0, <2>4 DEF IInv, RoutineInv, HeaderInv, Writing
  <2> QED
    BY <1>21, <2>3, <2>4 DEF EraseOld
<1>22. CASE MarkValid
  <2>1. new \in Page /\ 1 - new \in Page
    BY <1>0 DEF TypeOK, Page
  <2>2. hdr'[new] = VALID_PAGE /\ hdr'[1 - new] = hdr[1 - new]
    BY <1>0, <1>22, <2>1, MarkValidEffect DEF MarkValid
  <2>3. CASE hdr[1 - new] = ERASED /\ Return(TRUE)
    <3>1. ExactlyOneValid'
      BY <2>1, <2>2, <2>3, StatusesDiffer DEF ExactlyOneValid
    <3> QED
      BY <1>0, <2>3, <3>1, ReturnInv
  <2>4. CASE hdr[1 - new] # ERASED /\ Goto("EraseOld") /\ UNCHANGED locals
    BY <1>0, <2>4 DEF IInv, RoutineInv, HeaderInv, Writing
  <2> QED
    BY <1>22, <2>3, <2>4 DEF MarkValid
<1>23. CASE UNCHANGED vars
  <2>1. pc' = pc /\ routine' = routine /\ hdr' = hdr /\ new' = new
        /\ flashError' = flashError
    BY <1>23 DEF vars, flash, control, locals
  <2> QED
    BY <1>0, <2>1
    DEF IInv, RoutineInv, HeaderInv, Writing, Receiving, ExactlyOneValid
<1> QED
  BY <1>1, <1>2, <1>3, <1>4, <1>5, <1>6, <1>7, <1>8, <1>9, <1>10, <1>11,
     <1>12, <1>13, <1>14, <1>15, <1>16, <1>17, <1>18, <1>19, <1>20, <1>21,
     <1>22, <1>23
  DEF Next, Driver, EE_Init, EE_Format, EE_VerifyPageFullWriteVariable,
      EE_PageTransfer

\* Whenever a caller may use the driver and no flash error is pending, exactly
\* one page is valid: whatever the sectors held at first, wherever power was
\* lost and however often, and also when a transfer ran out of room.
THEOREM OneValidPageAlways == Spec => []OneValidPage
<1>1. Init => IInv
  BY InitType DEF Init, IInv, RoutineInv, HeaderInv, Writing
<1>2. IInv /\ [Next]_vars => IInv'
  BY StepIInv
<1>3. IInv => OneValidPage
  BY DEF IInv, HeaderInv, OneValidPage, ExactlyOneValid
<1> QED
  BY <1>1, <1>2, <1>3, PTL DEF Spec

-----------------------------------------------------------------------------
(* What a page's records say, as a function of the records.                *)

\* The scan of EE_ReadVariable over the records f of a page.
Find(f, a) ==
    LET R == {s \in Slot : f[s].addr = a}
    IN  IF R = {} THEN NotFound
        ELSE f[CHOOSE s \in R : \A t \in R : t <= s].data

\* The last record of a in f is s.
LastOf(f, a, s) ==
    /\ s \in Slot
    /\ f[s].addr = a
    /\ \A t \in Slot : t > s => f[t].addr # a

LEMMA LookupIsFind ==
    \A p, a : /\ Lookup(p, a) = Find(slot[p], a)
              /\ Lookup(p, a)' = Find(slot'[p], a)
  BY DEF Lookup, RecordsOf, Find

\* The data of the last record is what is found.
LEMMA FindLast ==
    ASSUME NEW f, NEW a, NEW s, LastOf(f, a, s)
    PROVE  Find(f, a) = f[s].data
<1> DEFINE R == {t \in Slot : f[t].addr = a}
           last == CHOOSE t \in R : \A u \in R : u <= t
<1>1. s \in R /\ \A u \in R : u <= s
  BY SizeAssumption DEF LastOf, Slot
<1>2. last \in R /\ \A u \in R : u <= last
  BY <1>1
<1>3. last \in Nat /\ s \in Nat
  BY <1>1, <1>2, SizeAssumption DEF Slot
<1>4. last <= s /\ s <= last
  BY <1>1, <1>2
<1>5. last = s
  BY <1>3, <1>4
<1> HIDE DEF last
<1> QED
  BY <1>1, <1>5 DEF Find, last

LEMMA FindNone ==
    ASSUME NEW f, NEW a, \A s \in Slot : f[s].addr # a
    PROVE  Find(f, a) = NotFound
  BY DEF Find

\* A variable that has a record has a last one.
LEMMA HasLast ==
    ASSUME NEW f, NEW a, NEW r \in Slot, f[r].addr = a
    PROVE  \E s \in Slot : LastOf(f, a, s) /\ Find(f, a) = f[s].data
<1> DEFINE R == {t \in Slot : f[t].addr = a}
<1>1. R \in SUBSET Slot /\ R # {}
  OBVIOUS
<1>2. PICK s \in R : \A t \in R : t <= s
  BY <1>1, LargestSlot
<1>3. LastOf(f, a, s)
  BY <1>2, SizeAssumption DEF LastOf, Slot
<1> QED
  BY <1>3, FindLast DEF LastOf

LEMMA FindType ==
    ASSUME NEW f \in [Slot -> Word], NEW a
    PROVE  /\ Find(f, a) \in Data \cup {Blank, NotFound}
           /\ Find(f, a) # NotFound <=> \E s \in Slot : f[s].addr = a
<1>1. CASE \E r \in Slot : f[r].addr = a
  <2>1. PICK s \in Slot : LastOf(f, a, s) /\ Find(f, a) = f[s].data
    BY <1>1, HasLast
  <2>2. f[s].data \in Data \cup {Blank}
    BY DEF Word
  <2> QED
    BY <1>1, <2>1, <2>2, AddrAssumption
<1>2. CASE \A r \in Slot : f[r].addr # a
  BY <1>2, FindNone
<1> QED
  BY <1>1, <1>2

\* Two pages with a's records in the same places, and the same data there, give
\* the same answer.
LEMMA FindSame ==
    ASSUME NEW f, NEW g, NEW a,
           \A s \in Slot : f[s].addr = a <=> g[s].addr = a,
           \A s \in Slot : f[s].addr = a => f[s].data = g[s].data
    PROVE  Find(f, a) = Find(g, a)
<1>1. CASE \E r \in Slot : f[r].addr = a
  <2>1. PICK s \in Slot : LastOf(f, a, s) /\ Find(f, a) = f[s].data
    BY <1>1, HasLast
  <2>2. LastOf(g, a, s)
    BY <2>1 DEF LastOf
  <2> QED
    BY <2>1, <2>2, FindLast DEF LastOf
<1>2. CASE \A r \in Slot : f[r].addr # a
  BY <1>2, FindNone
<1> QED
  BY <1>1, <1>2

\* Programming the data half-word of a record without address changes nothing.
LEMMA FindData ==
    ASSUME NEW f, NEW g, NEW s \in Slot, f[s].addr = Blank, g[s].addr = Blank,
           \A t \in Slot : t # s => g[t] = f[t],
           NEW a \in Addr
    PROVE  Find(g, a) = Find(f, a)
<1>1. Blank # a
  BY AddrAssumption
<1>2. \A t \in Slot : f[t].addr = a <=> g[t].addr = a
  BY <1>1
<1>3. \A t \in Slot : f[t].addr = a => f[t].data = g[t].data
  BY <1>1
<1> QED
  BY <1>2, <1>3, FindSame

\* A record behind all others is what its variable reads back.
LEMMA FindAppend ==
    ASSUME NEW f, NEW g, NEW s \in Slot, f[s].addr = Blank,
           \A t \in Slot : t > s => f[t].addr = Blank,
           \A t \in Slot : t # s => g[t] = f[t],
           g[s].addr \in Addr, NEW a \in Addr
    PROVE  Find(g, a) = IF a = g[s].addr THEN g[s].data ELSE Find(f, a)
<1>1. Blank # a
  BY AddrAssumption
<1>2. CASE a = g[s].addr
  <2>1. LastOf(g, a, s)
    BY <1>1, <1>2, SizeAssumption DEF LastOf, Slot
  <2> QED
    BY <1>2, <2>1, FindLast
<1>3. CASE a # g[s].addr
  <2>1. \A t \in Slot : f[t].addr = a <=> g[t].addr = a
    BY <1>1, <1>3
  <2>2. \A t \in Slot : f[t].addr = a => f[t].data = g[t].data
    BY <1>1
  <2>3. Find(f, a) = Find(g, a)
    BY <2>1, <2>2, FindSame
  <2> QED
    BY <1>3, <2>3
<1> QED
  BY <1>2, <1>3

BlankPage(f) == \A s \in Slot : f[s] = BlankWord

LEMMA FindBlank ==
    ASSUME NEW f, BlankPage(f), NEW a \in Addr
    PROVE  Find(f, a) = NotFound
  BY FindNone, AddrAssumption DEF BlankPage, BlankWord

-----------------------------------------------------------------------------
(* What EE_Init would make of given pages.                                 *)

\* Recovered, as a function of the headers h and the records f; two is what
\* two valid pages count as.
Sight(h, f, two, a) ==
    CASE h[0] = VALID_PAGE /\ h[1] = VALID_PAGE -> two
      [] h[0] = VALID_PAGE /\ h[1] # VALID_PAGE ->
             IF h[1] = RECEIVE_DATA /\ f[1][1].addr = a
             THEN f[1][1].data ELSE Find(f[0], a)
      [] h[1] = VALID_PAGE /\ h[0] # VALID_PAGE ->
             IF h[0] = RECEIVE_DATA /\ f[0][1].addr = a
             THEN f[0][1].data ELSE Find(f[1], a)
      [] h[0] = RECEIVE_DATA /\ h[1] = ERASED -> Find(f[0], a)
      [] h[1] = RECEIVE_DATA /\ h[0] = ERASED -> Find(f[1], a)
      [] OTHER -> NotFound

Two(place, n, f, a) == IF place = "EraseOld" THEN Find(f[n], a) ELSE NotFound

LEMMA RecoveredIsSight ==
    \A a : /\ Recovered(a) = Sight(hdr, slot, Two(pc, new, slot, a), a)
           /\ Recovered(a)' = Sight(hdr', slot', Two(pc', new', slot', a), a)
  BY LookupIsFind DEF Recovered, Sight, Two

LEMMA Statuses ==
    /\ ERASED # VALID_PAGE /\ ERASED # RECEIVE_DATA /\ ERASED # Other
    /\ RECEIVE_DATA # VALID_PAGE /\ RECEIVE_DATA # Other
    /\ Other # VALID_PAGE
  BY DEF ERASED, VALID_PAGE, RECEIVE_DATA, Other

LEMMA OtherPage ==
    ASSUME NEW p \in Page
    PROVE  /\ 1 - p \in Page /\ 1 - (1 - p) = p /\ 1 - p # p
           /\ \A q \in Page : q = p \/ q = 1 - p
  BY DEF Page

LEMMA SightOne ==
    ASSUME NEW h, NEW f, NEW two, NEW a, NEW p \in Page,
           h[p] = VALID_PAGE, h[1 - p] \notin {VALID_PAGE, RECEIVE_DATA}
    PROVE  Sight(h, f, two, a) = Find(f[p], a)
  BY DEF Sight, Page

LEMMA SightCopy ==
    ASSUME NEW h, NEW f, NEW two, NEW a, NEW p \in Page,
           h[p] = VALID_PAGE, h[1 - p] = RECEIVE_DATA
    PROVE  Sight(h, f, two, a) =
              IF f[1 - p][1].addr = a THEN f[1 - p][1].data ELSE Find(f[p], a)
  BY Statuses DEF Sight, Page

LEMMA SightReceive ==
    ASSUME NEW h, NEW f, NEW two, NEW a, NEW p \in Page,
           h[p] = RECEIVE_DATA, h[1 - p] = ERASED
    PROVE  Sight(h, f, two, a) = Find(f[p], a)
  BY Statuses DEF Sight, Page

LEMMA SightTwo ==
    ASSUME NEW h, NEW f, NEW two, NEW a, \A p \in Page : h[p] = VALID_PAGE
    PROVE  Sight(h, f, two, a) = two
<1>1. h[0] = VALID_PAGE /\ h[1] = VALID_PAGE
  BY DEF Page
<1> QED
  BY <1>1, Statuses DEF Sight

LEMMA SightNone ==
    ASSUME NEW h, NEW f, NEW two, NEW a,
           \A p \in Page : h[p] \notin {VALID_PAGE, RECEIVE_DATA}
    PROVE  Sight(h, f, two, a) = NotFound
  BY DEF Sight, Page

\* g holds nothing but its first record and copies of what f says of other
\* variables; the version is a copy wherever it stands.
Copied(g, f) ==
    /\ \A s \in Slot : s # 1 /\ g[s].addr # Blank =>
          g[s].addr # g[1].addr /\ g[s].data = Find(f, g[s].addr)
    /\ g[1].addr = VersionAddr => g[1].data = Find(f, VersionAddr)

\* Every variable of A that f has is in g, too.
Covers(g, f, A) ==
    \A a \in A : Find(f, a) # NotFound => \E s \in Slot : g[s].addr = a

LEMMA CopyComplete ==
    ASSUME NEW f \in [Slot -> Word], NEW g \in [Slot -> Word],
           Copied(g, f), NEW A, Covers(g, f, A), NEW a \in Addr, a \in A
    PROVE  Find(g, a) = IF g[1].addr = a THEN g[1].data ELSE Find(f, a)
<1>0. a # Blank /\ 1 \in Slot
  BY AddrAssumption, SizeAssumption DEF Slot
<1>1. CASE g[1].addr = a
  <2>1. LastOf(g, a, 1)
    BY <1>0, <1>1 DEF LastOf, Copied
  <2> QED
    BY <1>1, <2>1, FindLast
<1>2. CASE g[1].addr # a /\ \E r \in Slot : g[r].addr = a
  <2>1. PICK s \in Slot : LastOf(g, a, s) /\ Find(g, a) = g[s].data
    BY <1>2, HasLast
  <2>2. s # 1 /\ g[s].addr = a
    BY <1>2, <2>1 DEF LastOf
  <2> QED
    BY <1>0, <1>2, <2>1, <2>2 DEF Copied
<1>3. CASE g[1].addr # a /\ \A r \in Slot : g[r].addr # a
  BY <1>3, FindNone DEF Covers
<1> QED
  BY <1>1, <1>2, <1>3

\* Such a page has the version of the page it is copied from, or none.
LEMMA CopiedVersion ==
    ASSUME NEW f \in [Slot -> Word], NEW g \in [Slot -> Word], Copied(g, f)
    PROVE  Find(g, VersionAddr) \in {Find(f, VersionAddr), NotFound}
<1>1. CASE \E r \in Slot : g[r].addr = VersionAddr
  <2>1. PICK s \in Slot :
           LastOf(g, VersionAddr, s) /\ Find(g, VersionAddr) = g[s].data
    BY <1>1, HasLast
  <2>2. g[s].addr = VersionAddr /\ VersionAddr # Blank
    BY <2>1, TableType, AddrAssumption DEF LastOf
  <2> QED
    BY <2>1, <2>2 DEF Copied
<1>2. CASE \A r \in Slot : g[r].addr # VersionAddr
  BY <1>2, FindNone
<1> QED
  BY <1>1, <1>2

-----------------------------------------------------------------------------
(* What the pages hold, and what each place of the driver relies on.       *)

FullPage(f) == \A s \in Slot : f[s] # BlankWord
Packed(f) == \A s, t \in Slot : s < t /\ f[t] # BlankWord => f[s] # BlankWord
HasVersion(p) == Find(slot[p], VersionAddr) = Version

\* Whatever the driver does and wherever power is lost: records are packed, an
\* erased page is blank, a page that receives belongs to a valid one of which
\* it holds copies, or the valid one has been erased after the last copy.
PageInv(p) ==
    /\ Packed(slot[p])
    /\ hdr[p] = ERASED => BlankPage(slot[p])
    /\ hdr[p] = Other =>
          /\ \A s \in Slot : slot[p][s].addr # VersionAddr
          /\ \/ hdr[1 - p] \in {ERASED, Other}
             \/ p = 1 /\ hdr[0] = VALID_PAGE /\ BlankPage(slot[0])
    /\ hdr[p] = RECEIVE_DATA =>
          \/ /\ hdr[1 - p] = VALID_PAGE
             /\ Copied(slot[p], slot[1 - p])
             /\ HasVersion(1 - p)
          \/ hdr[1 - p] = ERASED /\ HasVersion(p)
FlashInv == \A p \in Page : PageInv(p)

\* Which stage and routine may be at which place.
StageInv ==
    /\ stage = "Off" <=> pc = "Off"
    /\ pc \in {"Off", "CheckVersion", "Idle"} => routine = "None"
    /\ pc \in {"Off", "Init", "Copy", "EraseOld"} => ~flashError
    /\ varIdx = 0
       \/ pc \in {"Copy", "ProgramData", "ProgramAddr", "EraseOld", "MarkValid"}
    /\ pc = "CheckVersion" => stage = "EE_Init"
    /\ pc = "Idle" => stage = "Running"
    /\ pc \in {"Copy", "EraseOld", "MarkValid"} =>
          routine \in {"EE_Init", "EE_PageTransfer"}
    /\ pc = "MarkReceive" => routine = "EE_PageTransfer"
    /\ pc = "Init" => routine = "EE_Init"
    /\ pc = "Write" => Writing
    /\ pc \in {"ProgramData", "ProgramAddr"} => Writing \/ routine = "EE_Init"
    /\ pc \in {"FormatErase0", "FormatValid0", "FormatErase1"} =>
          routine \in {"EE_Init", "EE_Format"}
    /\ routine = "EE_Init" => stage = "EE_Init"
    /\ routine = "EE_Format" => stage = "EE_Format"
    /\ Writing => stage \in {"WriteVersion", "Running"}
    /\ routine = "EE_WriteVariable" /\ stage = "WriteVersion" => call = NoCall
    /\ stage = "Running" /\ Writing => call.addr # VersionAddr
    /\ stage # "Running" => ~status

\* One page is valid; one that still receives has no room for a record.
Serving(p) ==
    /\ hdr[p] = VALID_PAGE
    /\ hdr[1 - p] = ERASED \/ (hdr[1 - p] = RECEIVE_DATA /\ FullPage(slot[1 - p]))

\* The page that receives, next to the one it is filled from.
Filling == hdr[1 - new] = VALID_PAGE /\ hdr[new] = RECEIVE_DATA

\* EE_Init takes a page of no known status for the one that receives.
Foreign == new = 1 /\ hdr[0] = VALID_PAGE /\ hdr[1] = Other

CallRecord == [data |-> call.data, addr |-> call.addr]
CallCopied == routine = "EE_PageTransfer" => slot[new][1] = CallRecord

\* The first k entries of the table.
Entries(k) == {VirtAddVarTab[i] : i \in 0..(k - 1)}

\* The variables a transfer carries over.
Listed == Entries(NB_OF_VAR)
Carried(A) == Covers(slot[new], slot[1 - new], A)

\* The record that is being programmed.
AtRecord == pc \in {"ProgramData", "ProgramAddr"}
DirectRecord ==
    /\ hdr[dst.page] = VALID_PAGE
    /\ hdr[1 - dst.page] = ERASED
    /\ cur = call
    /\ stage = "Running" => HasVersion(dst.page)
TransferRecord ==
    /\ dst.page = new
    /\ Filling
    /\ varIdx = 0 =>
          routine = "EE_PageTransfer" /\ cur = call /\ dst.slot = 1
    /\ varIdx > 0 =>
          /\ cur.addr = VirtAddVarTab[varIdx - 1]
          /\ cur.data = Find(slot[1 - new], cur.addr)
          /\ cur.data # NotFound
          /\ cur.addr # slot[new][1].addr
          /\ CallCopied
          /\ Carried(Entries(varIdx - 1))
RecordInv ==
    AtRecord =>
        /\ slot[dst.page][dst.slot] =
              IF pc = "ProgramData" THEN BlankWord
              ELSE [data |-> cur.data, addr |-> Blank]
        /\ \A t \in Slot : t > dst.slot => slot[dst.page][t] = BlankWord
        /\ \A t \in Slot : t < dst.slot => slot[dst.page][t] # BlankWord
        /\ IF routine = "EE_WriteVariable" THEN DirectRecord ELSE TransferRecord

AtTransferStart ==
    pc = "MarkReceive" \/ (pc = "Write" /\ routine = "EE_PageTransfer")
AtFormat == pc \in {"FormatErase0", "FormatValid0", "FormatErase1"}

WriteInv ==
    /\ pc = "Write" /\ stage = "WriteVersion" =>
          hdr[0] = VALID_PAGE /\ hdr[1] = ERASED /\ BlankPage(slot[0])
    /\ routine = "EE_PageTransfer" => stage = "Running"
    /\ AtTransferStart =>
          /\ hdr[1 - new] = VALID_PAGE /\ HasVersion(1 - new)
          /\ hdr[new] = RECEIVE_DATA \/ (pc = "MarkReceive" /\ hdr[new] = ERASED)
          /\ BlankPage(slot[new])
             \/ (FullPage(slot[new]) /\ hdr[new] = RECEIVE_DATA)
AtService ==
    \/ pc = "Idle"
    \/ pc = "Write" /\ routine = "EE_WriteVariable" /\ stage = "Running"
ServeInv ==
    /\ pc = "CheckVersion" => \E p \in Page : Serving(p)
    /\ AtService => \E p \in Page : Serving(p) /\ HasVersion(p)
TransferInv ==
    /\ pc = "Copy" =>
          /\ Filling \/ (routine = "EE_Init" /\ Foreign)
          /\ Carried(Entries(varIdx))
          /\ CallCopied
    /\ pc = "EraseOld" =>
          \/ /\ routine = "EE_PageTransfer"
             /\ Filling /\ Carried(Listed) /\ CallCopied
          \/ /\ routine = "EE_Init"
             /\ hdr[1 - new] = ERASED /\ hdr[new] \in {VALID_PAGE, RECEIVE_DATA}
          \/ routine = "EE_Init" /\ TwoValidPages
    /\ pc = "MarkValid" =>
          \/ /\ hdr[new] = RECEIVE_DATA /\ hdr[1 - new] = ERASED
             /\ routine = "EE_PageTransfer" =>
                   Find(slot[new], call.addr) = call.data
          \/ routine = "EE_Init" /\ Filling /\ Carried(Listed)
          \/ routine = "EE_Init" /\ Foreign
FormatInv ==
    /\ AtFormat => \A p \in Page : hdr[p] # RECEIVE_DATA
    /\ pc = "FormatErase0" => Recovered(VersionAddr) # Version
    /\ pc = "FormatValid0" => hdr[0] = ERASED
    /\ pc = "FormatErase1" => hdr[0] = VALID_PAGE /\ BlankPage(slot[0])

\* An error flag stops the flash: then nothing more is relied on.
PlaceInv == RecordInv /\ WriteInv /\ ServeInv /\ TransferInv /\ FormatInv
DriverInv == TypeOK /\ FlashInv /\ StageInv /\ (~flashError => PlaceInv)

\* Every virtual address in use is in the table.
CompleteTable == Addr = Listed

LEMMA ListedType == Listed \subseteq Addr /\ VersionAddr \in Listed
  BY SizeAssumption, AddrAssumption DEF Listed, Entries, VersionAddr

\* The local that setup_FLASH does not initialise does not hold the version by
\* chance.
NoLuckyGarbage == Version \notin StackGarbage

-----------------------------------------------------------------------------
(* What the flash operations do, page by page.                             *)

\* The flash is left alone.
SameFlash == hdr' = hdr /\ slot' = slot

LEMMA EraseFacts ==
    ASSUME TypeOK, NEW p \in Page, FLASH_EraseSector(p)
    PROVE  /\ hdr'[p] = ERASED /\ hdr'[1 - p] = hdr[1 - p]
           /\ BlankPage(slot'[p]) /\ slot'[1 - p] = slot[1 - p]
  BY OtherPage DEF FLASH_EraseSector, TypeOK, BlankPage

LEMMA HeaderFacts ==
    ASSUME TypeOK, NEW p \in Page, NEW v, ProgramHeader(p, v)
    PROVE  /\ hdr'[p] = Burn(hdr[p], v) /\ hdr'[1 - p] = hdr[1 - p]
           /\ slot' = slot
  BY OtherPage DEF ProgramHeader, TypeOK

\* Programming half a word of the record in hand.
OneWord(w) ==
    /\ hdr' = hdr
    /\ slot'[1 - dst.page] = slot[1 - dst.page]
    /\ \A t \in Slot : t # dst.slot => slot'[dst.page][t] = slot[dst.page][t]
    /\ slot'[dst.page][dst.slot] = w

LEMMA DataFacts ==
    ASSUME TypeOK, ProgramData
    PROVE  OneWord([data |-> cur.data, addr |-> slot[dst.page][dst.slot].addr])
<1>1. dst.page \in Page /\ dst.slot \in Slot
  BY DEF TypeOK
<1> QED
  BY <1>1, OtherPage DEF TypeOK, OneWord, ProgramData

LEMMA AddrFacts ==
    ASSUME TypeOK, ProgramAddr
    PROVE  OneWord([data |-> slot[dst.page][dst.slot].data, addr |-> cur.addr])
<1>1. dst.page \in Page /\ dst.slot \in Slot
  BY DEF TypeOK
<1> QED
  BY <1>1, OtherPage DEF TypeOK, OneWord, ProgramAddr

LEMMA BlankIsPacked ==
    ASSUME NEW f, BlankPage(f)
    PROVE  Packed(f) /\ \A s \in Slot : f[s].addr = Blank
  BY DEF BlankPage, Packed, BlankWord

\* A word written behind all others keeps a page packed.
LEMMA StaysPacked ==
    ASSUME NEW f, NEW g, NEW n \in Slot,
           \A t \in Slot : t # n => g[t] = f[t],
           \A t \in Slot : t > n => f[t] = BlankWord,
           \A t \in Slot : t < n => f[t] # BlankWord
    PROVE  Packed(g)
<1>1. \A s, t \in Slot : s < t /\ t # n /\ g[t] # BlankWord => t < n
  BY SizeAssumption DEF Slot
<1>2. \A s, t \in Slot : s < t /\ g[t] # BlankWord => s < n /\ s # n
  BY <1>1, SizeAssumption DEF Slot
<1> QED
  BY <1>2 DEF Packed

LEMMA Pages == TypeOK => /\ slot \in [Page -> [Slot -> Word]]
                         /\ hdr \in [Page -> Header]
                         /\ \A p \in Page : slot[p] \in [Slot -> Word]
                         /\ new \in Page /\ dst.page \in Page /\ dst.slot \in Slot
                         /\ call.addr \in Addr /\ call.data \in Data
  BY DEF TypeOK

\* Which stage and routine may be where: by the control flow alone.
LEMMA StepStage == TypeOK /\ StageInv /\ [Next]_vars => StageInv'
<1> SUFFICES ASSUME TypeOK, StageInv, [Next]_vars PROVE StageInv'
  OBVIOUS
<1> USE DEF At, FlashOp, Goto
<1>1. CASE PowerOn
  BY <1>1 DEF PowerOn, locals, StageInv, Writing
<1>2. CASE PowerLoss
  BY <1>2 DEF PowerLoss, ForgetLocals, StageInv, Writing
<1>0. ASSUME NEW ok, Return(ok), pc # "Off" PROVE StageInv'
  <2>1. stage \in {"EE_Init", "EE_Format", "WriteVersion", "Running"}
    BY <1>0 DEF TypeOK, Stage, StageInv
  <2>2. call' = NoCall /\ varIdx' = 0
    BY <1>0 DEF Return, ForgetLocals
  <2> QED
    BY <1>0, <2>1, <2>2 DEF Return, StageInv, Writing
<1>3. CASE FlashFails \/ FormatErase1 \/ WriteFails \/ CopyFails
  BY <1>0, <1>3
  DEF FlashFails, FormatErase1, WriteFails, CopyFails, FlashOps
<1>4. ASSUME NEW p \in Page, InitErase(p) \/ InitCopy(p)
      PROVE  StageInv'
  BY <1>4 DEF InitErase, InitCopy, StageInv, Writing
<1>5. CASE InitFormat \/ FormatErase0 \/ FormatValid0
  BY <1>5 DEF InitFormat, FormatErase0, FormatValid0, locals, StageInv, Writing
<1>6. CASE CheckVersion
  BY <1>6 DEF CheckVersion, locals, StageInv, Writing
<1>7. ASSUME NEW a \in Addr, NEW d \in Data, EE_WriteVariable(a, d)
      PROVE  StageInv'
  BY <1>7 DEF EE_WriteVariable, StageInv, Writing
<1>8. CASE WriteRecord
  BY <1>8 DEF WriteRecord, StartRecord, StageInv, Writing
<1>9. CASE StartTransfer \/ MarkReceive
  BY <1>9 DEF StartTransfer, MarkReceive, locals, StageInv, Writing
<1>10. CASE ProgramData
  BY <1>10 DEF ProgramData, locals, StageInv, Writing
<1>11. CASE ProgramAddr
  <2>1. CASE Return(TRUE)
    BY <1>0, <1>11, <2>1 DEF ProgramAddr
  <2>2. CASE routine # "EE_WriteVariable" /\ Goto("Copy") /\ UNCHANGED locals
    BY <1>11, <2>2 DEF ProgramAddr, locals, StageInv, Writing
  <2> QED
    BY <1>11, <2>1, <2>2 DEF ProgramAddr
<1>12. ASSUME NEW i \in 0..(NB_OF_VAR - 1), CopyVariable(i)
       PROVE  StageInv'
  BY <1>12 DEF CopyVariable, StartRecord, StageInv, Writing
<1>13. CASE CopyDone
  BY <1>13 DEF CopyDone, locals, StageInv, Writing
<1>14. CASE EraseOld \/ MarkValid
  <2>1. CASE Return(TRUE)
    BY <1>0, <1>14, <2>1 DEF EraseOld, MarkValid
  <2>2. CASE (Goto("MarkValid") \/ Goto("EraseOld")) /\ UNCHANGED locals
    <3>1. /\ pc \in {"EraseOld", "MarkValid"}
          /\ ~flashError /\ flashError' = flashError
      BY <1>14 DEF EraseOld, MarkValid
    <3> QED
      BY <2>2, <3>1 DEF locals, StageInv, Writing
  <2> QED
    BY <1>14, <2>1, <2>2 DEF EraseOld, MarkValid
<1>15. CASE UNCHANGED vars
  BY <1>15 DEF vars, control, locals, StageInv, Writing
<1> QED
  BY <1>1, <1>2, <1>3, <1>4, <1>5, <1>6, <1>7, <1>8, <1>9, <1>10, <1>11,
     <1>12, <1>13, <1>14, <1>15
  DEF Next, Driver, EE_Init, EE_Format, EE_VerifyPageFullWriteVariable,
      EE_PageTransfer

-----------------------------------------------------------------------------
(* The pages stay in order.                                                *)

LEMMA FlashInvSame ==
    ASSUME FlashInv, SameFlash
    PROVE  FlashInv'
  BY DEF FlashInv, PageInv, HasVersion, SameFlash

LEMMA FlashInvBoth ==
    ASSUME NEW p \in Page, PageInv(p)', PageInv(1 - p)'
    PROVE  FlashInv'
  BY OtherPage DEF FlashInv

LEMMA FlashInvFormatErase0 ==
    ASSUME DriverInv, FormatErase0
    PROVE  FlashInv'
<1>1. 0 \in Page /\ 1 - 0 = 1 /\ 1 \in Page /\ 1 - 1 = 0
  BY DEF Page
<1>2. /\ hdr'[0] = ERASED /\ hdr'[1] = hdr[1]
      /\ BlankPage(slot'[0]) /\ slot'[1] = slot[1]
  BY <1>1, EraseFacts DEF FormatErase0, DriverInv
<1>3. hdr[1] # RECEIVE_DATA
  BY <1>1 DEF FormatErase0, FlashOp, At, DriverInv, PlaceInv, FormatInv, AtFormat
<1>4. PageInv(0)'
  BY <1>1, <1>2, BlankIsPacked, Statuses DEF PageInv
<1>5. PageInv(1)'
  BY <1>1, <1>2, <1>3, Statuses DEF PageInv, DriverInv, FlashInv
<1> QED
  BY <1>1, <1>4, <1>5, FlashInvBoth

LEMMA FlashInvFormatValid0 ==
    ASSUME DriverInv, FormatValid0
    PROVE  FlashInv'
<1>1. 0 \in Page /\ 1 - 0 = 1 /\ 1 \in Page /\ 1 - 1 = 0
  BY DEF Page
<1>2. hdr'[0] = VALID_PAGE /\ hdr'[1] = hdr[1] /\ slot' = slot
  BY <1>1, HeaderFacts DEF FormatValid0, DriverInv, Burn
<1>3. hdr[1] # RECEIVE_DATA /\ hdr[0] = ERASED
  BY <1>1 DEF FormatValid0, FlashOp, At, DriverInv, PlaceInv, FormatInv, AtFormat
<1>4. PageInv(0) /\ PageInv(1)
  BY <1>1 DEF DriverInv, FlashInv
<1>5. PageInv(0)'
  BY <1>1, <1>2, <1>4, Statuses DEF PageInv
<1>6. PageInv(1)'
  BY <1>1, <1>2, <1>3, <1>4, Statuses DEF PageInv
<1> QED
  BY <1>1, <1>5, <1>6, FlashInvBoth

LEMMA FlashInvFormatErase1 ==
    ASSUME DriverInv, FormatErase1
    PROVE  FlashInv'
<1>1. 0 \in Page /\ 1 - 0 = 1 /\ 1 \in Page /\ 1 - 1 = 0
  BY DEF Page
<1>2. /\ hdr'[1] = ERASED /\ hdr'[0] = hdr[0]
      /\ BlankPage(slot'[1]) /\ slot'[0] = slot[0]
  BY <1>1, EraseFacts DEF FormatErase1, DriverInv
<1>3. hdr[0] = VALID_PAGE /\ Packed(slot[0])
  BY <1>1
  DEF FormatErase1, FlashOp, At, DriverInv, PlaceInv, FormatInv, FlashInv,
      PageInv
<1>4. PageInv(0)'
  BY <1>1, <1>2, <1>3, Statuses DEF PageInv
<1>5. PageInv(1)'
  BY <1>1, <1>2, BlankIsPacked, Statuses DEF PageInv
<1> QED
  BY <1>1, <1>4, <1>5, FlashInvBoth

LEMMA FlashInvMarkReceive ==
    ASSUME DriverInv, MarkReceive
    PROVE  /\ FlashInv'
           /\ hdr'[new] = RECEIVE_DATA /\ hdr'[1 - new] = VALID_PAGE
           /\ slot' = slot
<1>0. PICK n \in Page : n = new
  BY Pages DEF DriverInv
<1>1. 1 - n \in Page /\ 1 - (1 - n) = n
  BY OtherPage
<1>2. hdr'[n] = Burn(hdr[n], RECEIVE_DATA) /\ hdr'[1 - n] = hdr[1 - n]
      /\ slot' = slot
  BY <1>0, <1>1, HeaderFacts DEF MarkReceive, DriverInv
<1>3. /\ hdr[1 - n] = VALID_PAGE /\ HasVersion(1 - n)
      /\ hdr[n] = RECEIVE_DATA \/ hdr[n] = ERASED
      /\ BlankPage(slot[n]) \/ hdr[n] = RECEIVE_DATA
  BY <1>0
  DEF MarkReceive, FlashOp, At, DriverInv, PlaceInv, WriteInv, AtTransferStart
<1>4. hdr'[n] = RECEIVE_DATA
  BY <1>2, <1>3, Statuses DEF Burn
<1>5. PageInv(n) /\ PageInv(1 - n)
  BY <1>1 DEF DriverInv, FlashInv
<1>6. Copied(slot[n], slot[1 - n])
  <2>1. CASE hdr[n] = RECEIVE_DATA
    BY <1>3, <1>5, <2>1, Statuses DEF PageInv
  <2>2. CASE BlankPage(slot[n])
    BY <2>2, BlankIsPacked, TableType, AddrAssumption, SizeAssumption
    DEF Copied, Slot
  <2> QED
    BY <1>3, <2>1, <2>2
<1>7. PageInv(n)'
  BY <1>1, <1>2, <1>3, <1>4, <1>5, <1>6, Statuses DEF PageInv, HasVersion
<1>8. PageInv(1 - n)'
  BY <1>1, <1>2, <1>3, <1>4, <1>5, Statuses DEF PageInv
<1> QED
  BY <1>0, <1>1, <1>2, <1>3, <1>4, <1>7, <1>8, FlashInvBoth

\* While a record is programmed: the page it goes to, the word, the others.
LEMMA RecordFacts ==
    ASSUME DriverInv, AtRecord, ~flashError
    PROVE  \E p \in Page, n \in Slot :
               /\ p = dst.page /\ n = dst.slot
               /\ slot[p] \in [Slot -> Word]
               /\ slot[p][n].addr = Blank
               /\ slot[p][n].data = IF pc = "ProgramData" THEN Blank ELSE cur.data
               /\ \A t \in Slot : t > n => slot[p][t] = BlankWord
               /\ \A t \in Slot : t < n => slot[p][t] # BlankWord
               /\ hdr[p] \in {VALID_PAGE, RECEIVE_DATA}
               /\ hdr[p] = VALID_PAGE =>
                     /\ hdr[1 - p] = ERASED
                     /\ routine = "EE_WriteVariable"
                     /\ cur = call
               /\ hdr[p] = RECEIVE_DATA =>
                     /\ hdr[1 - p] = VALID_PAGE
                     /\ routine # "EE_WriteVariable"
                     /\ TransferRecord
               /\ cur.addr \in Addr
<1>1. RecordInv /\ TypeOK
  BY DEF DriverInv, PlaceInv
<1>2. PICK p \in Page, n \in Slot : p = dst.page /\ n = dst.slot
  BY <1>1, Pages
<1>3. slot[p] \in [Slot -> Word] /\ cur.addr \in Addr
  BY <1>1 DEF TypeOK
<1>4. /\ slot[p][n] = IF pc = "ProgramData" THEN BlankWord
                      ELSE [data |-> cur.data, addr |-> Blank]
      /\ \A t \in Slot : t > n => slot[p][t] = BlankWord
      /\ \A t \in Slot : t < n => slot[p][t] # BlankWord
      /\ IF routine = "EE_WriteVariable" THEN DirectRecord ELSE TransferRecord
  BY <1>1, <1>2 DEF RecordInv
<1>5. slot[p][n].addr = Blank
      /\ slot[p][n].data = IF pc = "ProgramData" THEN Blank ELSE cur.data
  BY <1>4 DEF BlankWord
<1>6. CASE routine = "EE_WriteVariable"
  BY <1>2, <1>3, <1>4, <1>5, <1>6, Statuses DEF DirectRecord
<1>7. CASE routine # "EE_WriteVariable"
  <2>1. hdr[p] = RECEIVE_DATA /\ hdr[1 - p] = VALID_PAGE
    BY <1>2, <1>4, <1>7 DEF TransferRecord, Filling
  <2> QED
    BY <1>2, <1>3, <1>4, <1>5, <1>7, <2>1, Statuses
<1> QED
  BY <1>6, <1>7

LEMMA FlashInvProgramData ==
    ASSUME DriverInv, ProgramData
    PROVE  /\ FlashInv'
           /\ \A p \in Page, a \in Addr : Find(slot'[p], a) = Find(slot[p], a)
           /\ \A p \in Page : slot'[p][1].addr = slot[p][1].addr
<1>0. AtRecord /\ ~flashError /\ TypeOK
  BY DEF ProgramData, FlashOp, At, AtRecord, DriverInv
<1>1. PICK p \in Page, n \in Slot :
               /\ p = dst.page /\ n = dst.slot
               /\ slot[p] \in [Slot -> Word]
               /\ slot[p][n].addr = Blank
               /\ \A t \in Slot : t > n => slot[p][t] = BlankWord
               /\ \A t \in Slot : t < n => slot[p][t] # BlankWord
               /\ hdr[p] \in {VALID_PAGE, RECEIVE_DATA}
               /\ hdr[p] = VALID_PAGE => hdr[1 - p] = ERASED
               /\ hdr[p] = RECEIVE_DATA => hdr[1 - p] = VALID_PAGE
  BY <1>0, RecordFacts
<1>2. 1 - p \in Page /\ 1 - (1 - p) = p /\ 1 \in Slot
  BY OtherPage, SizeAssumption DEF Slot
<1>3. /\ hdr' = hdr /\ slot'[1 - p] = slot[1 - p]
      /\ \A t \in Slot : t # n => slot'[p][t] = slot[p][t]
      /\ slot'[p][n].addr = Blank
  BY <1>0, <1>1, DataFacts DEF OneWord
<1>4. \A a \in Addr : Find(slot'[p], a) = Find(slot[p], a)
  BY <1>1, <1>3, FindData
<1>5. \A q \in Page, a \in Addr : Find(slot'[q], a) = Find(slot[q], a)
  BY <1>2, <1>3, <1>4, OtherPage
<1>6. /\ \A s \in Slot : slot'[p][s].addr = slot[p][s].addr
      /\ \A s \in Slot : s # n => slot'[p][s] = slot[p][s]
  BY <1>1, <1>3
<1>7. Packed(slot'[p])
  BY <1>1, <1>3, StaysPacked
<1>8. PageInv(p) /\ PageInv(1 - p)
  BY <1>2 DEF DriverInv, FlashInv
<1>9. VersionAddr \in Addr
  BY TableType
<1>10. hdr[p] = RECEIVE_DATA => Copied(slot'[p], slot'[1 - p])
  <2>1. hdr[p] = RECEIVE_DATA => Copied(slot[p], slot[1 - p])
    BY <1>1, <1>8, Statuses DEF PageInv
  <2>2. Copied(slot[p], slot[1 - p]) => Copied(slot'[p], slot'[1 - p])
    BY <1>1, <1>2, <1>3, <1>6, <1>9, AddrAssumption DEF Copied
  <2> QED
    BY <2>1, <2>2
<1>11. PageInv(p)'
  BY <1>1, <1>2, <1>3, <1>5, <1>7, <1>8, <1>9, <1>10, Statuses
  DEF PageInv, HasVersion
<1>12. PageInv(1 - p)'
  BY <1>1, <1>2, <1>3, <1>8, Statuses DEF PageInv
<1>13. \A q \in Page : slot'[q][1].addr = slot[q][1].addr
  BY <1>2, <1>3, <1>6, OtherPage
<1> QED
  BY <1>5, <1>11, <1>12, <1>13, FlashInvBoth

\* The record is complete: its variable reads back its data, nothing else
\* changes.
LEMMA AddrEffect ==
    ASSUME DriverInv, ProgramAddr
    PROVE  \E p \in Page, n \in Slot :
               /\ p = dst.page /\ n = dst.slot
               /\ hdr' = hdr /\ slot'[1 - p] = slot[1 - p]
               /\ slot'[p][n] = [data |-> cur.data, addr |-> cur.addr]
               /\ \A t \in Slot : t # n => slot'[p][t] = slot[p][t]
               /\ \A t \in Slot : t > n => slot'[p][t] = BlankWord
               /\ \A a \in Addr : Find(slot'[p], a) =
                     IF a = cur.addr THEN cur.data ELSE Find(slot[p], a)
               /\ Packed(slot'[p])
               /\ slot[p][n].addr = Blank
<1>0. AtRecord /\ ~flashError /\ TypeOK /\ pc = "ProgramAddr"
  BY DEF ProgramAddr, FlashOp, At, AtRecord, DriverInv
<1>1. PICK p \in Page, n \in Slot :
               /\ p = dst.page /\ n = dst.slot
               /\ slot[p][n].addr = Blank /\ slot[p][n].data = cur.data
               /\ \A t \in Slot : t > n => slot[p][t] = BlankWord
               /\ \A t \in Slot : t < n => slot[p][t] # BlankWord
               /\ cur.addr \in Addr
  BY <1>0, RecordFacts
<1>2. /\ hdr' = hdr /\ slot'[1 - p] = slot[1 - p]
      /\ slot'[p][n] = [data |-> cur.data, addr |-> cur.addr]
      /\ \A t \in Slot : t # n => slot'[p][t] = slot[p][t]
  BY <1>0, <1>1, AddrFacts DEF OneWord
<1>3. \A t \in Slot : t > n => slot[p][t].addr = Blank
  BY <1>1 DEF BlankWord
<1>4. slot'[p][n].addr = cur.addr /\ slot'[p][n].data = cur.data
  BY <1>2
<1>5. \A a \in Addr : Find(slot'[p], a) =
         IF a = cur.addr THEN cur.data ELSE Find(slot[p], a)
  BY <1>1, <1>2, <1>3, <1>4, FindAppend
<1>6. Packed(slot'[p])
  BY <1>1, <1>2, StaysPacked
<1>7. \A t \in Slot : t > n => slot'[p][t] = BlankWord
  BY <1>1, <1>2, SizeAssumption DEF Slot
<1> QED
  BY <1>1, <1>2, <1>5, <1>6, <1>7

LEMMA FlashInvProgramAddr ==
    ASSUME DriverInv, ProgramAddr
    PROVE  FlashInv'
<1>0. AtRecord /\ ~flashError /\ TypeOK /\ StageInv
  BY DEF ProgramAddr, FlashOp, At, AtRecord, DriverInv
<1>1. PICK p \in Page, n \in Slot :
               /\ p = dst.page /\ n = dst.slot
               /\ hdr' = hdr /\ slot'[1 - p] = slot[1 - p]
               /\ slot'[p][n] = [data |-> cur.data, addr |-> cur.addr]
               /\ \A t \in Slot : t # n => slot'[p][t] = slot[p][t]
               /\ \A t \in Slot : t > n => slot'[p][t] = BlankWord
               /\ Packed(slot'[p])
               /\ slot[p][n].addr = Blank
  BY AddrEffect
<1>2. /\ hdr[p] \in {VALID_PAGE, RECEIVE_DATA}
      /\ hdr[p] = VALID_PAGE => hdr[1 - p] = ERASED
      /\ hdr[p] = RECEIVE_DATA =>
            /\ hdr[1 - p] = VALID_PAGE
            /\ routine # "EE_WriteVariable"
            /\ TransferRecord
      /\ cur.addr \in Addr
  BY <1>0, <1>1, RecordFacts
<1>3. 1 - p \in Page /\ 1 - (1 - p) = p /\ 1 \in Slot
  BY OtherPage, SizeAssumption DEF Slot
<1>4. PageInv(p) /\ PageInv(1 - p)
  BY <1>3 DEF DriverInv, FlashInv
<1>5. slot'[p][n].addr = cur.addr /\ slot'[p][n].data = cur.data
  BY <1>1
<1>6. ASSUME hdr[p] = RECEIVE_DATA
      PROVE  Copied(slot'[p], slot[1 - p])
  <2>1. TransferRecord /\ routine # "EE_WriteVariable"
    BY <1>2, <1>6
  <2>2. p = new
    BY <1>1, <2>1 DEF TransferRecord
  <2>3. Copied(slot[p], slot[1 - p])
    BY <1>2, <1>4, <1>6, Statuses DEF PageInv
  <2>4. varIdx \in Nat
    BY <1>0, SizeAssumption DEF TypeOK
  <2>5. CASE varIdx = 0
    <3>1. n = 1 /\ cur = call /\ routine = "EE_PageTransfer"
      BY <1>1, <2>1, <2>5 DEF TransferRecord
    <3>2. call.addr # VersionAddr
      BY <1>0, <3>1 DEF StageInv, Writing, DriverInv, PlaceInv, WriteInv
    <3>3. \A t \in Slot : t # 1 => slot'[p][t].addr = Blank
      BY <1>1, <3>1, SizeAssumption DEF Slot, BlankWord
    <3> QED
      BY <1>5, <3>1, <3>2, <3>3 DEF Copied
  <2>6. CASE varIdx > 0
    <3>1. cur.data = Find(slot[1 - p], cur.addr) /\ cur.addr # slot[p][1].addr
      BY <2>1, <2>2, <2>6 DEF TransferRecord
    <3>2. CASE n = 1
      <4>1. \A t \in Slot : t # 1 => slot'[p][t].addr = Blank
        BY <1>1, <3>2, SizeAssumption DEF Slot, BlankWord
      <4> QED
        BY <1>5, <3>1, <3>2, <4>1 DEF Copied
    <3>3. CASE n # 1
      <4>1. slot'[p][1] = slot[p][1]
        BY <1>1, <1>3, <3>3
      <4>2. \A s \in Slot : s # 1 /\ slot'[p][s].addr # Blank =>
               /\ slot'[p][s].addr # slot'[p][1].addr
               /\ slot'[p][s].data = Find(slot[1 - p], slot'[p][s].addr)
        BY <1>1, <1>5, <2>3, <3>1, <4>1 DEF Copied
      <4> QED
        BY <2>3, <4>1, <4>2 DEF Copied
    <3> QED
      BY <3>2, <3>3
  <2> QED
    BY <2>4, <2>5, <2>6
<1>7. PageInv(p)'
  BY <1>1, <1>2, <1>3, <1>4, <1>6, Statuses DEF PageInv, HasVersion
<1>8. PageInv(1 - p)'
  BY <1>1, <1>2, <1>3, <1>4, Statuses DEF PageInv
<1> QED
  BY <1>7, <1>8, FlashInvBoth

LEMMA FlashInvEraseOld ==
    ASSUME DriverInv, EraseOld
    PROVE  FlashInv'
<1>0. PICK n \in Page : n = new
  BY Pages DEF DriverInv
<1>1. 1 - n \in Page /\ 1 - (1 - n) = n /\ slot[n] \in [Slot -> Word]
      /\ slot[1 - n] \in [Slot -> Word]
  BY OtherPage, Pages DEF DriverInv
<1>2. /\ hdr'[1 - n] = ERASED /\ hdr'[n] = hdr[n]
      /\ BlankPage(slot'[1 - n]) /\ slot'[n] = slot[n]
  BY <1>0, <1>1, EraseFacts DEF EraseOld, DriverInv
<1>3. PageInv(n) /\ TransferInv /\ pc = "EraseOld"
  BY DEF EraseOld, FlashOp, At, DriverInv, PlaceInv, FlashInv
<1>4. hdr[n] \in {VALID_PAGE, RECEIVE_DATA}
  BY <1>0, <1>3 DEF TransferInv, Filling, TwoValidPages
<1>5. ASSUME hdr[n] = RECEIVE_DATA
      PROVE  Find(slot[n], VersionAddr) = Version
  <2>1. CASE hdr[1 - n] = ERASED
    BY <1>3, <1>5, <2>1, Statuses DEF PageInv, HasVersion
  <2>2. CASE Filling /\ Carried(Listed)
    <3>1. Copied(slot[n], slot[1 - n]) /\ Find(slot[1 - n], VersionAddr) = Version
      BY <1>0, <1>3, <1>5, <2>2, Statuses DEF PageInv, HasVersion, Filling
    <3>2. Find(slot[n], VersionAddr) =
             IF slot[n][1].addr = VersionAddr THEN slot[n][1].data
             ELSE Find(slot[1 - n], VersionAddr)
      BY <1>0, <1>1, <2>2, <3>1, CopyComplete, ListedType DEF Carried
    <3> QED
      BY <3>1, <3>2 DEF Copied
  <2> QED
    BY <1>0, <1>3, <1>5, <2>1, <2>2, Statuses DEF TransferInv, TwoValidPages
<1>6. PageInv(n)'
  BY <1>1, <1>2, <1>3, <1>4, <1>5, Statuses DEF PageInv, HasVersion
<1>7. PageInv(1 - n)'
  BY <1>1, <1>2, BlankIsPacked, Statuses DEF PageInv
<1> QED
  BY <1>6, <1>7, FlashInvBoth

LEMMA FlashInvMarkValid ==
    ASSUME DriverInv, MarkValid
    PROVE  FlashInv'
<1>0. PICK n \in Page : n = new
  BY Pages DEF DriverInv
<1>1. 1 - n \in Page /\ 1 - (1 - n) = n
  BY OtherPage
<1>2. hdr'[n] = VALID_PAGE /\ hdr'[1 - n] = hdr[1 - n] /\ slot' = slot
  BY <1>0, <1>1, HeaderFacts DEF MarkValid, DriverInv, Burn
<1>3. TransferInv /\ pc = "MarkValid"
  BY DEF MarkValid, FlashOp, At, DriverInv, PlaceInv
<1>4. PageInv(n) /\ PageInv(1 - n)
  BY <1>1 DEF DriverInv, FlashInv
<1>5. hdr[1 - n] \in {ERASED, VALID_PAGE}
  BY <1>0, <1>3 DEF TransferInv, Filling, Foreign
<1>6. PageInv(n)'
  BY <1>1, <1>2, <1>4, Statuses DEF PageInv
<1>7. PageInv(1 - n)'
  BY <1>1, <1>2, <1>4, <1>5, Statuses DEF PageInv
<1> QED
  BY <1>6, <1>7, FlashInvBoth

\* The operations that touch the flash, and all others.
LEMMA StepFlash ==
    ASSUME DriverInv, [Next]_vars
    PROVE  /\ FlashInv'
           /\ \/ SameFlash
              \/ FormatErase0 \/ FormatValid0 \/ FormatErase1
              \/ MarkReceive \/ ProgramData \/ ProgramAddr
              \/ EraseOld \/ MarkValid
<1>1. CASE FormatErase0
  BY <1>1, FlashInvFormatErase0
<1>2. CASE FormatValid0
  BY <1>2, FlashInvFormatValid0
<1>3. CASE FormatErase1
  BY <1>3, FlashInvFormatErase1
<1>4. CASE MarkReceive
  BY <1>4, FlashInvMarkReceive
<1>5. CASE ProgramData
  BY <1>5, FlashInvProgramData
<1>6. CASE ProgramAddr
  BY <1>6, FlashInvProgramAddr
<1>7. CASE EraseOld
  BY <1>7, FlashInvEraseOld
<1>8. CASE MarkValid
  BY <1>8, FlashInvMarkValid
<1>9. CASE SameFlash
  BY <1>9, FlashInvSame DEF DriverInv
<1>10. ASSUME NEW p \in Page, InitErase(p) \/ InitCopy(p)
       PROVE  SameFlash
  BY <1>10 DEF InitErase, InitCopy, SameFlash, flash
<1>11. ASSUME NEW i \in 0..(NB_OF_VAR - 1), CopyVariable(i)
       PROVE  SameFlash
  BY <1>11 DEF CopyVariable, SameFlash, flash
<1>12. ASSUME NEW a \in Addr, NEW d \in Data, EE_WriteVariable(a, d)
       PROVE  SameFlash
  BY <1>12 DEF EE_WriteVariable, SameFlash, flash
<1>13. ASSUME \/ PowerOn \/ PowerLoss \/ FlashFails \/ InitFormat
              \/ CheckVersion \/ WriteRecord \/ StartTransfer \/ WriteFails
              \/ CopyFails \/ CopyDone \/ UNCHANGED vars
       PROVE  SameFlash
  BY <1>13
  DEF PowerOn, PowerLoss, FlashFails, InitFormat, CheckVersion, WriteRecord,
      StartTransfer, WriteFails, CopyFails, CopyDone, vars, SameFlash, flash
<1> QED
  BY <1>1, <1>2, <1>3, <1>4, <1>5, <1>6, <1>7, <1>8, <1>9, <1>10, <1>11,
     <1>12, <1>13
  DEF Next, Driver, EE_Init, EE_Format, EE_VerifyPageFullWriteVariable,
      EE_PageTransfer

-----------------------------------------------------------------------------
(* What each place relies on.                                              *)

\* The page reads and writes go to.
LEMMA ServedPage ==
    ASSUME NEW p \in Page, hdr[p] = VALID_PAGE, hdr[1 - p] # VALID_PAGE
    PROVE  /\ ReadPage = p
           /\ hdr[1 - p] # RECEIVE_DATA => WritePage = p
           /\ hdr[1 - p] = RECEIVE_DATA => WritePage = 1 - p
           /\ WritePage \in Page
           /\ \A a : EE_ReadVariable(a) = Find(slot[p], a)
<1>1. ReadPage = p /\ NO_VALID_PAGE # p
  BY PageType DEF ReadPage, Page
<1>2. \A a : EE_ReadVariable(a) = Find(slot[p], a)
  BY <1>1, LookupIsFind DEF EE_ReadVariable
<1>3. CASE p = 0
  BY <1>1, <1>2, <1>3, Statuses DEF WritePage, Page
<1>4. CASE p = 1
  BY <1>1, <1>2, <1>4, Statuses DEF WritePage, Page
<1> QED
  BY <1>3, <1>4 DEF Page

\* The first free slot of a packed page: all below are taken, all above free.
LEMMA FirstFree ==
    ASSUME NEW p \in Page, WritePage = p, Packed(slot[p]),
           NEW a, NEW d, StartRecord(a, d)
    PROVE  \E s \in Slot :
              /\ dst' = [page |-> p, slot |-> s]
              /\ cur' = [addr |-> a, data |-> d]
              /\ slot[p][s] = BlankWord
              /\ \A t \in Slot : t > s => slot[p][t] = BlankWord
              /\ \A t \in Slot : t < s => slot[p][t] # BlankWord
<1>1. PICK s \in FreeSlots(p) :
         /\ \A t \in FreeSlots(p) : s <= t
         /\ dst' = [page |-> p, slot |-> s]
  BY DEF StartRecord
<1>2. s \in Slot /\ slot[p][s] = BlankWord
  BY <1>1 DEF FreeSlots
<1>3. \A t \in Slot : t < s => slot[p][t] # BlankWord
  BY <1>1, <1>2, SizeAssumption DEF FreeSlots, Slot
<1>4. \A t \in Slot : t > s => slot[p][t] = BlankWord
  BY <1>2 DEF Packed
<1>5. cur' = [addr |-> a, data |-> d]
  BY DEF StartRecord
<1> QED
  BY <1>1, <1>2, <1>3, <1>4, <1>5

LEMMA RoomFacts ==
    ASSUME NEW p \in Page, WritePage = p
    PROVE  /\ Room => ~FullPage(slot[p])
           /\ ~Room => FullPage(slot[p]) /\ ~BlankPage(slot[p])
  BY PageType, SizeAssumption DEF Room, FreeSlots, FullPage, BlankPage, Slot

\* The caller of a routine that returns finds what it relies on.
LEMMA ReturnPlace ==
    ASSUME NEW ok, Return(ok), StageInv, TypeOK, pc # "Off", ~flashError',
           stage = "EE_Init" => \E p \in Page : Serving(p)',
           stage = "EE_Format" =>
              hdr'[0] = VALID_PAGE /\ hdr'[1] = ERASED /\ BlankPage(slot'[0]),
           stage \in {"WriteVersion", "Running"} =>
              \E p \in Page : Serving(p)' /\ HasVersion(p)'
    PROVE  PlaceInv'
<1>1. stage \in {"EE_Init", "EE_Format", "WriteVersion", "Running"}
  BY DEF TypeOK, Stage, StageInv
<1>2. RecordInv' /\ TransferInv' /\ FormatInv'
  BY <1>1 DEF Return, RecordInv, AtRecord, TransferInv, FormatInv, AtFormat
<1>3. WriteInv'
  BY <1>1 DEF Return, WriteInv, AtTransferStart
<1>4. ServeInv'
  BY <1>1 DEF Return, ServeInv, AtService
<1> QED
  BY <1>2, <1>3, <1>4 DEF PlaceInv

LEMMA PlacePowerOn ==
    ASSUME PowerOn PROVE PlaceInv'
  BY DEF PowerOn, PlaceInv, RecordInv, AtRecord, WriteInv, AtTransferStart,
         ServeInv, AtService, TransferInv, FormatInv, AtFormat

LEMMA PlacePowerLoss ==
    ASSUME PowerLoss PROVE PlaceInv'
  BY DEF PowerLoss, PlaceInv, RecordInv, AtRecord, WriteInv, AtTransferStart,
         ServeInv, AtService, TransferInv, FormatInv, AtFormat

LEMMA PlaceInitErase ==
    ASSUME DriverInv, NEW p \in Page, InitErase(p)
    PROVE  PlaceInv'
<1>1. /\ pc = "Init" /\ pc' = "EraseOld" /\ routine' = routine /\ new' = p
      /\ hdr' = hdr
      /\ hdr[1 - p] = ERASED /\ hdr[p] \in {VALID_PAGE, RECEIVE_DATA}
  BY DEF InitErase, At, Goto, flash, RepairByErase
<1>2. routine = "EE_Init"
  BY <1>1 DEF DriverInv, StageInv
<1> QED
  BY <1>1, <1>2
  DEF PlaceInv, RecordInv, AtRecord, WriteInv, AtTransferStart, ServeInv,
      AtService, TransferInv, FormatInv, AtFormat

LEMMA PlaceInitCopy ==
    ASSUME DriverInv, NEW p \in Page, InitCopy(p)
    PROVE  PlaceInv'
<1>1. /\ pc = "Init" /\ pc' = "Copy" /\ routine' = routine /\ new' = p
      /\ hdr' = hdr /\ slot' = slot /\ varIdx' = varIdx
      /\ hdr[1 - p] = VALID_PAGE
      /\ hdr[p] = RECEIVE_DATA \/ (p = 1 /\ hdr[p] = Other)
  BY DEF InitCopy, At, Goto, flash, RepairByCopy
<1>2. routine = "EE_Init" /\ varIdx = 0
  BY <1>1 DEF DriverInv, StageInv
<1>3. Filling' \/ Foreign'
  BY <1>1 DEF Filling, Foreign
<1>4. Carried(Entries(varIdx))'
  BY <1>1, <1>2 DEF Carried, Covers, Entries
<1> QED
  BY <1>1, <1>2, <1>3, <1>4
  DEF PlaceInv, RecordInv, AtRecord, WriteInv, AtTransferStart, ServeInv,
      AtService, TransferInv, FormatInv, AtFormat, CallCopied

LEMMA PlaceInitFormat ==
    ASSUME DriverInv, InitFormat
    PROVE  PlaceInv'
<1>1. /\ pc = "Init" /\ pc' = "FormatErase0" /\ routine' = routine
      /\ hdr' = hdr /\ slot' = slot
      /\ \A p \in Page : ~RepairByErase(p) /\ ~RepairByCopy(p)
  BY DEF InitFormat, At, Goto, flash
<1>2. routine = "EE_Init"
  BY <1>1 DEF DriverInv, StageInv
<1>3. FlashInv /\ TypeOK
  BY DEF DriverInv
<1>4. \A p \in Page : hdr[p] # RECEIVE_DATA
  BY <1>1, <1>3, OtherPage DEF RepairByErase, RepairByCopy, FlashInv, PageInv
<1>5. Recovered(VersionAddr)' # Version
  <2> DEFINE two == Two(pc', new', slot', VersionAddr)
  <2>1. two = NotFound /\ NotFound # Version
    BY <1>1, VersionAssumption, AddrAssumption DEF Two
  <2>2. Recovered(VersionAddr)' = Sight(hdr, slot, two, VersionAddr)
    BY <1>1, RecoveredIsSight
  <2> HIDE DEF two
  <2>3. CASE \A p \in Page : hdr[p] = VALID_PAGE
    BY <2>1, <2>2, <2>3, SightTwo
  <2>4. CASE \A p \in Page : hdr[p] # VALID_PAGE
    BY <1>4, <2>1, <2>2, <2>4, SightNone
  <2>5. ASSUME NEW p \in Page, hdr[p] = VALID_PAGE, hdr[1 - p] # VALID_PAGE
        PROVE  FALSE
    <3>1. 1 - p \in Page /\ 1 - (1 - p) = p
      BY OtherPage
    <3>2. hdr[1 - p] = Other
      BY <1>1, <1>3, <1>4, <2>5, <3>1 DEF RepairByErase, TypeOK, Header
    <3>3. 1 - p = 1 /\ hdr[0] = VALID_PAGE
      BY <1>3, <2>5, <3>1, <3>2, Statuses DEF FlashInv, PageInv
    <3> QED
      BY <1>1, <3>1, <3>2, <3>3 DEF RepairByCopy
  <2> QED
    BY <2>3, <2>4, <2>5, OtherPage
<1> QED
  BY <1>1, <1>2, <1>4, <1>5
  DEF PlaceInv, RecordInv, AtRecord, WriteInv, AtTransferStart, ServeInv,
      AtService, TransferInv, FormatInv, AtFormat

LEMMA PlaceFormatErase0 ==
    ASSUME DriverInv, FormatErase0
    PROVE  PlaceInv'
<1>1. /\ pc = "FormatErase0" /\ pc' = "FormatValid0" /\ routine' = routine
      /\ ~flashError
  BY DEF FormatErase0, FlashOp, At, Goto
<1>2. 0 \in Page /\ 1 - 0 = 1 /\ \A p \in Page : p = 0 \/ p = 1
  BY DEF Page
<1>3. hdr'[0] = ERASED /\ hdr'[1] = hdr[1]
  BY <1>2, EraseFacts DEF FormatErase0, DriverInv
<1>4. routine # "EE_PageTransfer"
  BY <1>1 DEF DriverInv, StageInv
<1>5. \A p \in Page : hdr'[p] # RECEIVE_DATA
  BY <1>1, <1>2, <1>3, Statuses DEF DriverInv, PlaceInv, FormatInv, AtFormat, Page
<1> QED
  BY <1>1, <1>3, <1>4, <1>5
  DEF PlaceInv, RecordInv, AtRecord, WriteInv, AtTransferStart, ServeInv,
      AtService, TransferInv, FormatInv, AtFormat

LEMMA PlaceFormatValid0 ==
    ASSUME DriverInv, FormatValid0
    PROVE  PlaceInv'
<1>1. /\ pc = "FormatValid0" /\ pc' = "FormatErase1" /\ routine' = routine
      /\ ~flashError
  BY DEF FormatValid0, FlashOp, At, Goto
<1>2. 0 \in Page /\ 1 - 0 = 1 /\ \A p \in Page : p = 0 \/ p = 1
  BY DEF Page
<1>3. hdr'[0] = VALID_PAGE /\ hdr'[1] = hdr[1] /\ slot' = slot
  BY <1>2, HeaderFacts DEF FormatValid0, DriverInv, Burn
<1>4. routine # "EE_PageTransfer"
  BY <1>1 DEF DriverInv, StageInv
<1>5. hdr[0] = ERASED /\ \A p \in Page : hdr'[p] # RECEIVE_DATA
  BY <1>1, <1>2, <1>3, Statuses DEF DriverInv, PlaceInv, FormatInv, AtFormat, Page
<1>6. BlankPage(slot'[0])
  BY <1>2, <1>3, <1>5 DEF DriverInv, FlashInv, PageInv
<1> QED
  BY <1>1, <1>3, <1>4, <1>5, <1>6
  DEF PlaceInv, RecordInv, AtRecord, WriteInv, AtTransferStart, ServeInv,
      AtService, TransferInv, FormatInv, AtFormat

LEMMA PlaceFormatErase1 ==
    ASSUME DriverInv, FormatErase1
    PROVE  PlaceInv'
<1>1. pc = "FormatErase1" /\ ~flashError /\ ~flashError' /\ Return(TRUE)
  BY DEF FormatErase1, FlashOp, At
<1>2. 1 \in Page /\ 0 \in Page /\ 1 - 1 = 0 /\ 1 - 0 = 1
  BY DEF Page
<1>3. hdr'[1] = ERASED /\ hdr'[0] = hdr[0] /\ slot'[0] = slot[0]
  BY <1>2, EraseFacts DEF FormatErase1, DriverInv
<1>4. hdr[0] = VALID_PAGE /\ BlankPage(slot[0])
  BY <1>1 DEF DriverInv, PlaceInv, FormatInv
<1>5. Serving(0)'
  BY <1>2, <1>3, <1>4 DEF Serving
<1>6. stage \in {"EE_Init", "EE_Format"} /\ StageInv /\ TypeOK
  BY <1>1 DEF DriverInv, StageInv
<1> QED
  BY <1>1, <1>2, <1>3, <1>4, <1>5, <1>6, ReturnPlace

LEMMA PlaceCheckVersion ==
    ASSUME DriverInv, NoLuckyGarbage, CheckVersion, ~flashError
    PROVE  PlaceInv'
<1>1. /\ pc = "CheckVersion" /\ hdr' = hdr /\ slot' = slot
      /\ routine # "EE_PageTransfer"
  BY DEF CheckVersion, At, flash, DriverInv, StageInv
<1>2. PICK p \in Page : Serving(p)
  BY <1>1 DEF DriverInv, PlaceInv, ServeInv
<1>3. 1 - p \in Page /\ hdr[p] = VALID_PAGE /\ hdr[1 - p] # VALID_PAGE
  BY <1>2, OtherPage, Statuses DEF Serving
<1>4. EE_ReadVariable(VersionAddr) = Find(slot[p], VersionAddr)
  BY <1>3, ServedPage
<1>5. NotFound # Version /\ NO_VALID_PAGE # Version
  BY VersionAssumption, AddrAssumption
<1>6. CASE pc' = "Idle" /\ stage' = "Running" /\ routine' = "None"
           /\ Find(slot[p], VersionAddr) = Version
  <2>1. Serving(p)' /\ HasVersion(p)'
    BY <1>1, <1>2, <1>6 DEF Serving, HasVersion
  <2> QED
    BY <1>1, <1>6, <2>1
    DEF PlaceInv, RecordInv, AtRecord, WriteInv, AtTransferStart, ServeInv,
        AtService, TransferInv, FormatInv, AtFormat
<1>7. CASE pc' = "FormatErase0" /\ routine' = "EE_Format"
           /\ Find(slot[p], VersionAddr) # Version
  <2>1. hdr[1 - p] # RECEIVE_DATA
    BY <1>3, <1>7, OtherPage, Statuses
    DEF DriverInv, FlashInv, PageInv, HasVersion
  <2>2. \A q \in Page : hdr[q] # RECEIVE_DATA
    BY <1>3, <2>1, OtherPage, Statuses
  <2>3. Recovered(VersionAddr)' = Find(slot[p], VersionAddr)
    BY <1>1, <1>3, <2>1, SightOne, RecoveredIsSight
  <2> QED
    BY <1>1, <1>7, <2>2, <2>3
    DEF PlaceInv, RecordInv, AtRecord, WriteInv, AtTransferStart, ServeInv,
        AtService, TransferInv, FormatInv, AtFormat
<1> QED
  BY <1>4, <1>5, <1>6, <1>7 DEF CheckVersion, NoLuckyGarbage

LEMMA PlaceCall ==
    ASSUME DriverInv, ~flashError, NEW a \in Addr, NEW d \in Data,
           EE_WriteVariable(a, d)
    PROVE  PlaceInv'
<1>1. /\ pc = "Idle" /\ pc' = "Write" /\ routine' = "EE_WriteVariable"
      /\ stage' = stage /\ hdr' = hdr /\ slot' = slot
  BY DEF EE_WriteVariable, At, flash
<1>2. PICK p \in Page : Serving(p) /\ HasVersion(p)
  BY <1>1 DEF DriverInv, PlaceInv, ServeInv, AtService
<1>3. stage = "Running"
  BY <1>1 DEF DriverInv, StageInv
<1>4. Serving(p)' /\ HasVersion(p)'
  BY <1>1, <1>2 DEF Serving, HasVersion
<1> QED
  BY <1>1, <1>3, <1>4
  DEF PlaceInv, RecordInv, AtRecord, WriteInv, AtTransferStart, ServeInv,
      AtService, TransferInv, FormatInv, AtFormat

LEMMA PlaceWriteRecord ==
    ASSUME DriverInv, ~flashError, WriteRecord
    PROVE  PlaceInv'
<1>1. /\ pc = "Write" /\ pc' = "ProgramData" /\ routine' = routine
      /\ stage' = stage /\ hdr' = hdr /\ slot' = slot /\ new' = new
      /\ varIdx' = varIdx /\ call' = call /\ Room
      /\ StartRecord(call.addr, call.data)
  BY DEF WriteRecord, StartRecord, At, Goto, flash
<1>2. /\ WriteInv /\ ServeInv /\ FlashInv /\ StageInv /\ TypeOK
      /\ call = [addr |-> call.addr, data |-> call.data]
  BY DEF DriverInv, PlaceInv, TypeOK
<1>3. varIdx = 0 /\ Writing /\ (routine # "EE_PageTransfer" =>
         routine = "EE_WriteVariable" /\ stage \in {"WriteVersion", "Running"})
  BY <1>1, <1>2 DEF StageInv, Writing
<1>4. ASSUME NEW p \in Page, WritePage = p
      PROVE  \E s \in Slot :
              /\ dst' = [page |-> p, slot |-> s] /\ cur' = call
              /\ slot[p][s] = BlankWord
              /\ \A t \in Slot : t > s => slot[p][t] = BlankWord
              /\ \A t \in Slot : t < s => slot[p][t] # BlankWord
  BY <1>1, <1>2, <1>4, FirstFree DEF FlashInv, PageInv
<1>5. CASE routine = "EE_PageTransfer"
  <2>1. PICK n \in Page : n = new
    BY <1>2, Pages
  <2>2. /\ hdr[1 - n] = VALID_PAGE /\ hdr[n] = RECEIVE_DATA
        /\ BlankPage(slot[n]) \/ FullPage(slot[n])
    BY <1>1, <1>2, <1>5, <2>1 DEF WriteInv, AtTransferStart
  <2>3. WritePage = n
    BY <2>2, OtherPage, ServedPage, Statuses
  <2>4. BlankPage(slot[n])
    BY <1>1, <2>2, <2>3, RoomFacts
  <2>5. PICK s \in Slot :
              /\ dst' = [page |-> n, slot |-> s] /\ cur' = call
              /\ slot[n][s] = BlankWord
              /\ \A t \in Slot : t > s => slot[n][t] = BlankWord
              /\ \A t \in Slot : t < s => slot[n][t] # BlankWord
    BY <1>4, <2>3
  <2>6. s = 1
    BY <2>4, <2>5, SizeAssumption DEF BlankPage, Slot
  <2>7. TransferRecord'
    BY <1>1, <1>3, <1>5, <2>1, <2>2, <2>5, <2>6 DEF TransferRecord, Filling
  <2>8. RecordInv'
    BY <1>1, <1>5, <2>5, <2>7 DEF RecordInv
  <2> QED
    BY <1>1, <1>2, <1>5, <2>8
    DEF PlaceInv, WriteInv, AtTransferStart, ServeInv, AtService, TransferInv,
        FormatInv, AtFormat
<1>6. CASE routine # "EE_PageTransfer"
  <2>1. PICK p \in Page : /\ hdr[p] = VALID_PAGE /\ hdr[1 - p] = ERASED
                          /\ stage = "Running" => HasVersion(p)
    <3>1. CASE stage = "WriteVersion"
      BY <1>1, <1>2, <3>1 DEF WriteInv, Page
    <3>2. CASE stage = "Running"
      <4>1. PICK p \in Page : Serving(p) /\ HasVersion(p)
        BY <1>1, <1>2, <1>3, <1>6, <3>2 DEF ServeInv, AtService
      <4>2. hdr[1 - p] # RECEIVE_DATA
        BY <1>1, <4>1, OtherPage, ServedPage, RoomFacts, Statuses DEF Serving
      <4> QED
        BY <4>1, <4>2 DEF Serving
    <3> QED
      BY <1>3, <1>6, <3>1, <3>2
  <2>2. WritePage = p
    BY <2>1, ServedPage, Statuses
  <2>3. PICK s \in Slot :
              /\ dst' = [page |-> p, slot |-> s] /\ cur' = call
              /\ slot[p][s] = BlankWord
              /\ \A t \in Slot : t > s => slot[p][t] = BlankWord
              /\ \A t \in Slot : t < s => slot[p][t] # BlankWord
    BY <1>4, <2>2
  <2>4. DirectRecord'
    BY <1>1, <2>1, <2>3 DEF DirectRecord, HasVersion
  <2>5. RecordInv'
    BY <1>1, <1>3, <1>6, <2>3, <2>4 DEF RecordInv
  <2> QED
    BY <1>1, <1>2, <1>6, <2>5
    DEF PlaceInv, WriteInv, AtTransferStart, ServeInv, AtService, TransferInv,
        FormatInv, AtFormat
<1> QED
  BY <1>5, <1>6

LEMMA PlaceStartTransfer ==
    ASSUME DriverInv, ~flashError, StartTransfer
    PROVE  PlaceInv'
<1>1. /\ pc = "Write" /\ pc' = "MarkReceive" /\ routine = "EE_WriteVariable"
      /\ routine' = "EE_PageTransfer" /\ stage' = stage
      /\ hdr' = hdr /\ slot' = slot /\ new' = 1 - ReadPage /\ ~Room
  BY DEF StartTransfer, At, flash
<1>2. WriteInv /\ ServeInv /\ FlashInv /\ StageInv
  BY DEF DriverInv, PlaceInv
<1>3. stage = "Running"
  <2>1. stage \in {"WriteVersion", "Running"}
    BY <1>1, <1>2 DEF StageInv, Writing
  <2>2. ASSUME stage = "WriteVersion" PROVE FALSE
    <3>1. hdr[0] = VALID_PAGE /\ hdr[1] = ERASED /\ BlankPage(slot[0])
      BY <1>1, <1>2, <2>2 DEF WriteInv
    <3>2. WritePage = 0 /\ 0 \in Page
      BY <3>1, Statuses DEF WritePage, Page
    <3> QED
      BY <1>1, <3>1, <3>2, RoomFacts
  <2> QED
    BY <2>1, <2>2
<1>4. PICK p \in Page : Serving(p) /\ HasVersion(p)
  BY <1>1, <1>2, <1>3 DEF ServeInv, AtService
<1>5. 1 - p \in Page /\ 1 - (1 - p) = p /\ hdr[1 - p] # VALID_PAGE
  BY <1>4, OtherPage, Statuses DEF Serving
<1>6. new' = 1 - p /\ 1 - new' = p
  BY <1>1, <1>4, <1>5, ServedPage DEF Serving
<1>7. BlankPage(slot[1 - p])
      \/ (FullPage(slot[1 - p]) /\ hdr[1 - p] = RECEIVE_DATA)
  BY <1>2, <1>4, <1>5 DEF Serving, FlashInv, PageInv
<1>8. WriteInv'
  BY <1>1, <1>3, <1>4, <1>6, <1>7
  DEF WriteInv, AtTransferStart, Serving, HasVersion
<1> QED
  BY <1>1, <1>8
  DEF PlaceInv, RecordInv, AtRecord, ServeInv, AtService, TransferInv,
      FormatInv, AtFormat

LEMMA PlaceWriteFails ==
    ASSUME DriverInv, ~flashError, WriteFails
    PROVE  PlaceInv'
<1>1. /\ pc = "Write" /\ ~Room /\ hdr' = hdr /\ slot' = slot /\ Return(FALSE)
      /\ WritePage = NO_VALID_PAGE \/ routine = "EE_PageTransfer"
      /\ flashError' = flashError
  BY DEF WriteFails, At, flash
<1>2. WriteInv /\ ServeInv /\ FlashInv /\ StageInv /\ TypeOK /\ Writing
  BY <1>1 DEF DriverInv, PlaceInv, StageInv
<1>3. routine = "EE_PageTransfer"
  <2>1. ASSUME routine = "EE_WriteVariable", WritePage = NO_VALID_PAGE
        PROVE  FALSE
    <3>1. \E p \in Page : hdr[p] = VALID_PAGE /\ hdr[1 - p] # VALID_PAGE
      BY <1>1, <1>2, <2>1, OtherPage, Statuses
      DEF WriteInv, ServeInv, AtService, Serving, StageInv, Writing, Page
    <3> QED
      BY <2>1, <3>1, ServedPage, PageType
  <2> QED
    BY <1>1, <1>2, <2>1 DEF Writing
<1>4. PICK n \in Page : n = new
  BY <1>2, Pages
<1>5. /\ stage = "Running" /\ hdr[1 - n] = VALID_PAGE /\ HasVersion(1 - n)
      /\ hdr[n] = RECEIVE_DATA
  BY <1>1, <1>2, <1>3, <1>4 DEF WriteInv, AtTransferStart
<1>6. 1 - n \in Page /\ 1 - (1 - n) = n
  BY OtherPage
<1>7. FullPage(slot[n])
  BY <1>1, <1>5, <1>6, ServedPage, RoomFacts, Statuses
<1>8. Serving(1 - n)' /\ HasVersion(1 - n)'
  BY <1>1, <1>5, <1>6, <1>7 DEF Serving, HasVersion
<1> QED
  BY <1>1, <1>2, <1>5, <1>6, <1>8, ReturnPlace

LEMMA PlaceMarkReceive ==
    ASSUME DriverInv, MarkReceive
    PROVE  PlaceInv'
<1>1. /\ pc = "MarkReceive" /\ pc' = "Write" /\ routine' = routine
      /\ stage' = stage /\ new' = new /\ ~flashError
  BY DEF MarkReceive, FlashOp, At, Goto, locals
<1>2. WriteInv /\ StageInv
  BY <1>1 DEF DriverInv, PlaceInv
<1>3. PICK n \in Page : n = new
  BY Pages DEF DriverInv
<1>4. hdr'[n] = RECEIVE_DATA /\ hdr'[1 - n] = VALID_PAGE /\ slot' = slot
  BY <1>3, FlashInvMarkReceive
<1>5. /\ routine = "EE_PageTransfer" /\ stage = "Running" /\ HasVersion(1 - n)
      /\ BlankPage(slot[n]) \/ FullPage(slot[n])
  BY <1>1, <1>2, <1>3 DEF WriteInv, StageInv, AtTransferStart
<1>6. WriteInv'
  BY <1>1, <1>3, <1>4, <1>5 DEF WriteInv, AtTransferStart, HasVersion
<1> QED
  BY <1>1, <1>5, <1>6
  DEF PlaceInv, RecordInv, AtRecord, ServeInv, AtService, TransferInv,
      FormatInv, AtFormat

LEMMA PlaceProgramData ==
    ASSUME DriverInv, ProgramData
    PROVE  PlaceInv'
<1>1. /\ pc = "ProgramData" /\ pc' = "ProgramAddr" /\ routine' = routine
      /\ stage' = stage /\ new' = new /\ cur' = cur /\ dst' = dst
      /\ varIdx' = varIdx /\ call' = call /\ hdr' = hdr
      /\ ~flashError /\ AtRecord
  BY DEF ProgramData, FlashOp, At, Goto, locals, AtRecord
<1>2. RecordInv /\ WriteInv /\ TypeOK
  BY <1>1 DEF DriverInv, PlaceInv
<1>3. PICK p \in Page, n \in Slot : p = dst.page /\ n = dst.slot
  BY <1>2, Pages
<1>4. /\ slot[p][n] = BlankWord
      /\ \A t \in Slot : t > n => slot[p][t] = BlankWord
      /\ \A t \in Slot : t < n => slot[p][t] # BlankWord
      /\ IF routine = "EE_WriteVariable" THEN DirectRecord ELSE TransferRecord
  BY <1>1, <1>2, <1>3 DEF RecordInv
<1>5. /\ \A t \in Slot : t # n => slot'[p][t] = slot[p][t]
      /\ slot'[p][n] = [data |-> cur.data, addr |-> Blank]
      /\ slot'[1 - p] = slot[1 - p]
  BY <1>2, <1>3, <1>4, DataFacts DEF OneWord, BlankWord
<1>6. \A q \in Page, a \in Addr : Find(slot'[q], a) = Find(slot[q], a)
  BY FlashInvProgramData
<1>7. \A s \in Slot : slot'[p][s].addr = slot[p][s].addr
  BY <1>4, <1>5 DEF BlankWord
<1>8. /\ \A t \in Slot : t > n => slot'[p][t] = BlankWord
      /\ \A t \in Slot : t < n => slot'[p][t] # BlankWord
  BY <1>4, <1>5, SizeAssumption DEF Slot
<1>9. CASE routine = "EE_WriteVariable"
  <2>1. DirectRecord'
    BY <1>1, <1>3, <1>4, <1>6, <1>9, TableType DEF DirectRecord, HasVersion
  <2>2. RecordInv'
    BY <1>1, <1>3, <1>5, <1>8, <1>9, <2>1 DEF RecordInv
  <2> QED
    BY <1>1, <1>2, <1>9, <2>2
    DEF PlaceInv, WriteInv, AtTransferStart, ServeInv, AtService, TransferInv,
        FormatInv, AtFormat
<1>10. CASE routine # "EE_WriteVariable"
  <2>1. TransferRecord /\ p = new
    BY <1>3, <1>4, <1>10 DEF TransferRecord
  <2>2. 1 \in Slot /\ call.addr \in Addr /\ 1 - p \in Page
    BY <1>2, OtherPage, Pages, SizeAssumption DEF Slot
  <2>3. CallCopied => CallCopied'
    <3>1. CASE n = 1
      BY <1>1, <1>4, <2>1, <2>2, <3>1, AddrAssumption
      DEF CallCopied, CallRecord, BlankWord
    <3>2. CASE n # 1
      BY <1>1, <1>5, <2>1, <2>2, <3>2 DEF CallCopied, CallRecord
    <3> QED
      BY <3>1, <3>2
  <2>4. ASSUME NEW A \in SUBSET Addr, Carried(A)
        PROVE  Covers(slot'[p], slot'[1 - p], A)
    BY <1>6, <1>7, <2>1, <2>2, <2>4 DEF Carried, Covers
  <2>5. varIdx > 0 =>
          /\ cur.addr = VirtAddVarTab[varIdx - 1]
          /\ cur.data = Find(slot[1 - p], cur.addr)
          /\ cur.data # NotFound
          /\ cur.addr # slot[p][1].addr
          /\ CallCopied
          /\ Carried(Entries(varIdx - 1))
    BY <2>1 DEF TransferRecord
  <2>6. varIdx > 0 => Entries(varIdx - 1) \in SUBSET Addr
    BY <1>2, AddrAssumption, SizeAssumption DEF TypeOK, Entries
  <2>7. cur.addr \in Addr
    BY <1>2 DEF TypeOK
  <2>8. varIdx > 0 =>
          /\ cur.data = Find(slot'[1 - p], cur.addr)
          /\ cur.addr # slot'[p][1].addr
          /\ CallCopied'
          /\ Covers(slot'[p], slot'[1 - p], Entries(varIdx - 1))
    BY <1>6, <1>7, <2>2, <2>3, <2>4, <2>5, <2>6, <2>7
  <2>9. TransferRecord'
    BY <1>1, <1>3, <2>1, <2>5, <2>8 DEF TransferRecord, Filling, Carried
  <2>10. RecordInv'
    BY <1>1, <1>3, <1>5, <1>8, <1>10, <2>9 DEF RecordInv
  <2> QED
    BY <1>1, <1>2, <2>10
    DEF PlaceInv, WriteInv, AtTransferStart, ServeInv, AtService, TransferInv,
        FormatInv, AtFormat
<1> QED
  BY <1>9, <1>10

LEMMA EntriesGrow ==
    ASSUME NEW k \in Nat, k > 0
    PROVE  Entries(k) = Entries(k - 1) \cup {VirtAddVarTab[k - 1]}
<1>1. \A i : i \in 0..(k - 1) <=> i \in 0..((k - 1) - 1) \/ i = k - 1
  OBVIOUS
<1> QED
  BY <1>1 DEF Entries

LEMMA PlaceProgramAddr ==
    ASSUME DriverInv, ProgramAddr
    PROVE  PlaceInv'
<1>1. pc = "ProgramAddr" /\ ~flashError /\ ~flashError' /\ AtRecord
  BY DEF ProgramAddr, FlashOp, At, AtRecord
<1>2. RecordInv /\ WriteInv /\ StageInv /\ TypeOK
  BY <1>1 DEF DriverInv, PlaceInv
<1>3. PICK p \in Page, n \in Slot :
               /\ p = dst.page /\ n = dst.slot
               /\ hdr' = hdr /\ slot'[1 - p] = slot[1 - p]
               /\ slot'[p][n] = [data |-> cur.data, addr |-> cur.addr]
               /\ \A t \in Slot : t # n => slot'[p][t] = slot[p][t]
               /\ \A a \in Addr : Find(slot'[p], a) =
                     IF a = cur.addr THEN cur.data ELSE Find(slot[p], a)
               /\ slot[p][n].addr = Blank
  BY AddrEffect
<1>4. IF routine = "EE_WriteVariable" THEN DirectRecord ELSE TransferRecord
  BY <1>1, <1>2 DEF RecordInv
<1>5. CASE routine = "EE_WriteVariable" /\ Return(TRUE)
  <2>1. /\ hdr[p] = VALID_PAGE /\ hdr[1 - p] = ERASED /\ cur = call
        /\ stage = "Running" => HasVersion(p)
    BY <1>3, <1>4, <1>5 DEF DirectRecord
  <2>2. stage \in {"WriteVersion", "Running"}
    BY <1>2, <1>5 DEF StageInv, Writing
  <2>3. Find(slot'[p], VersionAddr) = Version
    <3>1. CASE stage = "Running"
      BY <1>2, <1>3, <1>5, <2>1, <3>1, TableType
      DEF HasVersion, StageInv, Writing
    <3>2. CASE stage = "WriteVersion"
      BY <1>2, <1>3, <1>5, <2>1, <3>2, TableType DEF StageInv, NoCall
    <3> QED
      BY <2>2, <3>1, <3>2
  <2>4. Serving(p)' /\ HasVersion(p)'
    BY <1>3, <2>1, <2>3 DEF Serving, HasVersion
  <2> QED
    BY <1>1, <1>2, <1>5, <2>2, <2>4, ReturnPlace
<1>6. CASE routine # "EE_WriteVariable" /\ Goto("Copy") /\ UNCHANGED locals
  <2>1. /\ routine' = routine /\ stage' = stage /\ pc' = "Copy" /\ new' = new
        /\ varIdx' = varIdx /\ call' = call
    BY <1>6 DEF Goto, locals
  <2>2. TransferRecord /\ p = new /\ varIdx \in Nat
    BY <1>2, <1>3, <1>4, <1>6, SizeAssumption DEF TransferRecord, TypeOK
  <2>3. 1 \in Slot /\ call.addr \in Addr /\ cur.addr \in Addr /\ 1 - p \in Page
    BY <1>2, OtherPage, Pages, SizeAssumption DEF Slot, TypeOK
  <2>4. Filling'
    BY <1>3, <2>1, <2>2 DEF TransferRecord, Filling
  <2>5. \A a \in Addr : (\E s \in Slot : slot[p][s].addr = a) \/ a = cur.addr =>
                           \E s \in Slot : slot'[p][s].addr = a
    BY <1>3, <2>3, AddrAssumption
  <2>6. Covers(slot'[p], slot'[1 - p], Entries(varIdx)) /\ CallCopied'
    <3>1. CASE varIdx = 0
      <4>1. cur = call /\ n = 1 /\ routine = "EE_PageTransfer"
        BY <1>3, <2>2, <3>1 DEF TransferRecord
      <4>2. CallCopied'
        BY <1>3, <2>1, <2>2, <4>1 DEF CallCopied, CallRecord
      <4>3. Entries(varIdx) = {}
        BY <3>1 DEF Entries
      <4> QED
        BY <4>2, <4>3 DEF Covers
    <3>2. CASE varIdx > 0
      <4>1. /\ cur.addr = VirtAddVarTab[varIdx - 1]
            /\ CallCopied
            /\ Covers(slot[p], slot[1 - p], Entries(varIdx - 1))
        BY <2>2, <3>2 DEF TransferRecord, Carried
      <4>2. Entries(varIdx) = Entries(varIdx - 1) \cup {cur.addr}
        BY <2>2, <3>2, <4>1, EntriesGrow
      <4>3. Entries(varIdx - 1) \in SUBSET Addr
        BY <1>2, <2>2, <3>2, AddrAssumption, SizeAssumption DEF TypeOK, Entries
      <4>4. Covers(slot'[p], slot'[1 - p], Entries(varIdx))
        BY <1>3, <2>3, <2>5, <4>1, <4>2, <4>3 DEF Covers
      <4>5. CallCopied'
        <5>1. routine = "EE_PageTransfer" => n # 1
          BY <1>3, <2>2, <2>3, <4>1, AddrAssumption DEF CallCopied, CallRecord
        <5> QED
          BY <1>3, <2>1, <2>2, <2>3, <4>1, <5>1 DEF CallCopied, CallRecord
      <4> QED
        BY <4>4, <4>5
    <3> QED
      BY <2>2, <3>1, <3>2
  <2>7. Carried(Entries(varIdx))'
    BY <2>1, <2>2, <2>6 DEF Carried, Entries
  <2> QED
    BY <1>2, <2>1, <2>4, <2>6, <2>7
    DEF PlaceInv, RecordInv, AtRecord, WriteInv, AtTransferStart, ServeInv,
        AtService, TransferInv, FormatInv, AtFormat
<1> QED
  BY <1>5, <1>6 DEF ProgramAddr

\* The loops read the valid page; what they leave out is in the first record
\* or nowhere.  Next to a page of no known status there is nothing to copy.
LEMMA CopyFacts ==
    ASSUME DriverInv, pc = "Copy", ~flashError
    PROVE  /\ \A a \in Addr :
                 /\ EE_ReadVariable(a) = Find(slot[1 - new], a)
                 /\ LeftOut(a) <=> \/ a = slot[new][1].addr
                                   \/ Find(slot[1 - new], a) = NotFound
           /\ ToCopy # {} => Filling /\ WritePage = new
<1>1. PICK n \in Page : n = new
  BY Pages DEF DriverInv
<1>2. TransferInv /\ FlashInv /\ StageInv
  BY DEF DriverInv, PlaceInv
<1>3. 1 - n \in Page /\ 1 - (1 - n) = n /\ hdr[1 - n] = VALID_PAGE
      /\ hdr[n] # VALID_PAGE
  BY <1>1, <1>2, OtherPage, Statuses DEF TransferInv, Filling, Foreign
<1>4. \A a : EE_ReadVariable(a) = Find(slot[1 - n], a)
  BY <1>3, ServedPage
<1>5. routine = "EE_PageTransfer" => slot[n][1].addr = call.addr
  BY <1>1, <1>2 DEF TransferInv, CallCopied, CallRecord
<1>6. \A a \in Addr :
         LeftOut(a) <=> \/ a = slot[n][1].addr
                        \/ Find(slot[1 - n], a) = NotFound
  BY <1>1, <1>4, <1>5 DEF LeftOut
<1>7. ASSUME ToCopy # {} PROVE Filling /\ WritePage = n
  <2>1. PICK i \in varIdx..(NB_OF_VAR - 1) : ~LeftOut(VirtAddVarTab[i])
    BY <1>7 DEF ToCopy
  <2>2. VirtAddVarTab[i] \in Addr
    BY <2>1, AddrAssumption, SizeAssumption DEF DriverInv, TypeOK
  <2>3. Find(slot[1 - n], VirtAddVarTab[i]) # NotFound
    BY <1>6, <2>1, <2>2
  <2>4. ~BlankPage(slot[1 - n])
    BY <2>2, <2>3, FindBlank
  <2>5. ~Foreign
    <3>1. Foreign => 1 - n = 0 /\ hdr[1] = Other /\ hdr[0] = VALID_PAGE
      BY <1>1 DEF Foreign
    <3>2. hdr[1] = Other /\ hdr[0] = VALID_PAGE => BlankPage(slot[0])
      BY <1>2, Statuses DEF FlashInv, PageInv, Page
    <3> QED
      BY <2>4, <3>1, <3>2
  <2>6. Filling
    BY <1>2, <2>5 DEF TransferInv
  <2> QED
    BY <1>1, <1>3, <2>6, ServedPage DEF Filling
<1> QED
  BY <1>1, <1>4, <1>6, <1>7

LEMMA PlaceCopyVariable ==
    ASSUME DriverInv, ~flashError, NEW i \in 0..(NB_OF_VAR - 1), CopyVariable(i)
    PROVE  PlaceInv'
<1> DEFINE a == VirtAddVarTab[i]
<1>1. /\ pc = "Copy" /\ pc' = "ProgramData" /\ routine' = routine
      /\ stage' = stage /\ hdr' = hdr /\ slot' = slot /\ new' = new
      /\ varIdx' = i + 1 /\ call' = call
      /\ StartRecord(a, EE_ReadVariable(a))
      /\ i \in ToCopy /\ \A j \in ToCopy : i <= j
  BY DEF CopyVariable, StartRecord, At, Goto, flash
<1>2. TransferInv /\ WriteInv /\ FlashInv /\ StageInv /\ TypeOK
  BY DEF DriverInv, PlaceInv
<1>3. PICK n \in Page : n = new
  BY <1>2, Pages
<1>4. a \in Addr /\ \A j \in 0..(NB_OF_VAR - 1) : VirtAddVarTab[j] \in Addr
  BY AddrAssumption
<1>5. /\ \A b \in Addr :
            /\ EE_ReadVariable(b) = Find(slot[1 - n], b)
            /\ LeftOut(b) <=> \/ b = slot[n][1].addr
                              \/ Find(slot[1 - n], b) = NotFound
      /\ Filling /\ WritePage = n
  BY <1>1, <1>3, CopyFacts
<1>6. varIdx \in Nat /\ varIdx <= i /\ ~LeftOut(a)
  BY <1>1, <1>2, SizeAssumption DEF ToCopy, TypeOK
<1>7. PICK s \in Slot :
              /\ dst' = [page |-> n, slot |-> s]
              /\ cur' = [addr |-> a, data |-> EE_ReadVariable(a)]
              /\ slot[n][s] = BlankWord
              /\ \A t \in Slot : t > s => slot[n][t] = BlankWord
              /\ \A t \in Slot : t < s => slot[n][t] # BlankWord
  BY <1>1, <1>2, <1>5, FirstFree DEF FlashInv, PageInv
<1>8. Covers(slot[n], slot[1 - n], Entries(i))
  <2>1. ASSUME NEW j \in 0..(i - 1),
               Find(slot[1 - n], VirtAddVarTab[j]) # NotFound
        PROVE  \E t \in Slot : slot[n][t].addr = VirtAddVarTab[j]
    <3>1. CASE j < varIdx
      <4>1. VirtAddVarTab[j] \in Entries(varIdx)
        BY <1>6, <2>1, <3>1 DEF Entries
      <4> QED
        BY <1>1, <1>2, <1>3, <2>1, <4>1 DEF TransferInv, Carried, Covers
    <3>2. CASE j >= varIdx
      <4>1. j \in varIdx..(NB_OF_VAR - 1) /\ j \notin ToCopy
        BY <1>1, <1>6, <2>1, <3>2, SizeAssumption
      <4>2. LeftOut(VirtAddVarTab[j])
        BY <4>1 DEF ToCopy
      <4>3. VirtAddVarTab[j] = slot[n][1].addr
        BY <1>4, <1>5, <1>6, <2>1, <4>1, <4>2
      <4>4. 1 \in Slot
        BY SizeAssumption DEF Slot
      <4> QED
        BY <4>3, <4>4
    <3> QED
      BY <1>6, <2>1, <3>1, <3>2
  <2> QED
    BY <2>1 DEF Covers, Entries
<1>9. /\ cur'.addr = a
      /\ cur'.data = Find(slot[1 - n], a)
      /\ cur'.data # NotFound
      /\ a # slot[n][1].addr
  BY <1>4, <1>5, <1>6, <1>7
<1>10. /\ varIdx' # 0 /\ varIdx' - 1 = i /\ dst'.page = n
       /\ (routine = "EE_PageTransfer" => slot[n][1] = CallRecord)
  BY <1>1, <1>2, <1>3, <1>7 DEF TransferInv, CallCopied
<1>11. TransferRecord'
  <2>1. CallCopied'
    BY <1>1, <1>3, <1>10 DEF CallCopied, CallRecord
  <2>2. Covers(slot[n], slot[1 - n], Entries(varIdx' - 1))
    BY <1>8, <1>10
  <2>3. Carried(Entries(varIdx - 1))'
    BY <1>1, <1>3, <2>2 DEF Carried, Entries
  <2>4. Filling'
    BY <1>1, <1>5 DEF Filling
  <2> QED
    BY <1>1, <1>3, <1>9, <1>10, <2>1, <2>3, <2>4 DEF TransferRecord
<1>12. routine # "EE_WriteVariable"
  BY <1>1, <1>2 DEF StageInv
<1>13. RecordInv'
  BY <1>1, <1>7, <1>11, <1>12 DEF RecordInv
<1> QED
  BY <1>1, <1>2, <1>13
  DEF PlaceInv, WriteInv, AtTransferStart, ServeInv, AtService, TransferInv,
      FormatInv, AtFormat

LEMMA PlaceCopyFails ==
    ASSUME DriverInv, ~flashError, CopyFails
    PROVE  PlaceInv'
<1>1. /\ pc = "Copy" /\ ToCopy # {} /\ ~Room /\ Return(FALSE)
      /\ hdr' = hdr /\ slot' = slot /\ flashError' = flashError
  BY DEF CopyFails, At, flash
<1>2. WriteInv /\ FlashInv /\ StageInv /\ TypeOK
  BY DEF DriverInv, PlaceInv
<1>3. PICK n \in Page : n = new
  BY <1>2, Pages
<1>4. hdr[1 - n] = VALID_PAGE /\ hdr[n] = RECEIVE_DATA /\ WritePage = n
  BY <1>1, <1>3, CopyFacts DEF Filling
<1>5. 1 - n \in Page /\ 1 - (1 - n) = n
  BY OtherPage
<1>6. FullPage(slot[n]) /\ HasVersion(1 - n)
  BY <1>1, <1>2, <1>4, RoomFacts, Statuses DEF FlashInv, PageInv
<1>7. Serving(1 - n)' /\ HasVersion(1 - n)'
  BY <1>1, <1>4, <1>5, <1>6 DEF Serving, HasVersion
<1>8. stage \in {"EE_Init", "Running"}
  BY <1>1, <1>2 DEF StageInv, WriteInv
<1> QED
  BY <1>1, <1>2, <1>5, <1>7, <1>8, ReturnPlace

\* Nothing is left to copy: the new page has all of the table.
LEMMA AllCarried ==
    ASSUME DriverInv, pc = "Copy", ~flashError, ToCopy = {}
    PROVE  Carried(Listed)
<1>1. PICK n \in Page : n = new
  BY Pages DEF DriverInv
<1>2. varIdx \in Nat /\ varIdx <= NB_OF_VAR /\ TransferInv
  BY SizeAssumption DEF DriverInv, PlaceInv, TypeOK
<1>3. ASSUME NEW a \in Listed, Find(slot[1 - n], a) # NotFound
      PROVE  \E s \in Slot : slot[n][s].addr = a
  <2>1. PICK i \in 0..(NB_OF_VAR - 1) : VirtAddVarTab[i] = a
    BY DEF Listed, Entries
  <2>2. CASE i < varIdx
    <3>1. a \in Entries(varIdx)
      BY <1>2, <2>1, <2>2 DEF Entries
    <3> QED
      BY <1>1, <1>2, <1>3, <3>1 DEF TransferInv, Carried, Covers
  <2>3. CASE i >= varIdx
    <3>1. LeftOut(a)
      BY <1>2, <2>1, <2>3, SizeAssumption DEF ToCopy
    <3>2. a = slot[n][1].addr /\ 1 \in Slot
      BY <1>1, <1>3, <3>1, CopyFacts, ListedType, SizeAssumption DEF Slot
    <3> QED
      BY <3>2
  <2> QED
    BY <1>2, <2>1, <2>2, <2>3
<1> QED
  BY <1>1, <1>3 DEF Carried, Covers

LEMMA PlaceCopyDone ==
    ASSUME DriverInv, ~flashError, CopyDone
    PROVE  PlaceInv'
<1>1. /\ pc = "Copy" /\ ToCopy = {}
      /\ pc' = IF routine = "EE_PageTransfer" THEN "EraseOld" ELSE "MarkValid"
      /\ routine' = routine /\ stage' = stage /\ new' = new /\ call' = call
      /\ hdr' = hdr /\ slot' = slot
  BY DEF CopyDone, At, Goto, flash, locals
<1>2. Carried(Listed)
  BY <1>1, AllCarried
<1>3. TransferInv /\ WriteInv /\ StageInv
  BY DEF DriverInv, PlaceInv
<1>4. /\ Filling \/ (routine = "EE_Init" /\ Foreign)
      /\ CallCopied
      /\ routine \in {"EE_Init", "EE_PageTransfer"}
  BY <1>1, <1>3 DEF TransferInv, StageInv
<1>5. /\ Filling' = Filling /\ Foreign' = Foreign /\ CallCopied' = CallCopied
      /\ Carried(Listed)'
  BY <1>1, <1>2 DEF Filling, Foreign, CallCopied, CallRecord, Carried, Covers
<1>6. TransferInv'
  BY <1>1, <1>4, <1>5 DEF TransferInv
<1> QED
  BY <1>1, <1>3, <1>6
  DEF PlaceInv, RecordInv, AtRecord, WriteInv, AtTransferStart, ServeInv,
      AtService, FormatInv, AtFormat

LEMMA PlaceEraseOld ==
    ASSUME DriverInv, EraseOld
    PROVE  PlaceInv'
<1>1. pc = "EraseOld" /\ ~flashError /\ ~flashError'
  BY DEF EraseOld, FlashOp, At
<1>2. TransferInv /\ WriteInv /\ FlashInv /\ StageInv /\ TypeOK
  BY <1>1 DEF DriverInv, PlaceInv
<1>3. PICK n \in Page : n = new
  BY <1>2, Pages
<1>4. 1 - n \in Page /\ 1 - (1 - n) = n
  BY OtherPage
<1>5. /\ hdr'[1 - n] = ERASED /\ hdr'[n] = hdr[n]
      /\ BlankPage(slot'[1 - n]) /\ slot'[n] = slot[n]
  BY <1>2, <1>3, <1>4, EraseFacts DEF EraseOld
<1>6. CASE hdr[n] = VALID_PAGE /\ Return(TRUE)
  <2>1. stage = "EE_Init"
    BY <1>1, <1>2, <1>3, <1>6, Statuses DEF TransferInv, Filling, StageInv
  <2>2. Serving(n)'
    BY <1>5, <1>6 DEF Serving
  <2> QED
    BY <1>1, <1>2, <1>6, <2>1, <2>2, ReturnPlace
<1>7. CASE hdr[n] # VALID_PAGE /\ Goto("MarkValid") /\ UNCHANGED locals
  <2>1. /\ pc' = "MarkValid" /\ routine' = routine /\ stage' = stage
        /\ new' = new /\ call' = call
    BY <1>7 DEF Goto, locals
  <2>2. routine # "EE_WriteVariable" /\ hdr[n] = RECEIVE_DATA
    BY <1>1, <1>2, <1>3, <1>7
    DEF TransferInv, Filling, StageInv, TwoValidPages
  <2>3. routine = "EE_PageTransfer" => Find(slot[n], call.addr) = call.data
    <3>1. SUFFICES ASSUME routine = "EE_PageTransfer"
                   PROVE  Find(slot[n], call.addr) = call.data
      OBVIOUS
    <3>2. hdr[1 - n] = VALID_PAGE /\ slot[n][1] = CallRecord
      BY <1>1, <1>2, <1>3, <3>1
      DEF TransferInv, Filling, Carried, CallCopied
    <3>3. Copied(slot[n], slot[1 - n])
      BY <1>2, <2>2, <3>2, Statuses DEF FlashInv, PageInv
    <3>4. slot[n] \in [Slot -> Word] /\ slot[1 - n] \in [Slot -> Word]
          /\ call.addr \in Addr
      BY <1>2, <1>4, Pages
    <3>5. slot[n][1].addr = call.addr /\ slot[n][1].data = call.data
      BY <3>2 DEF CallRecord
    <3>6. Covers(slot[n], slot[1 - n], {call.addr})
      BY <3>5, SizeAssumption DEF Covers, Slot
    <3> QED
      BY <3>3, <3>4, <3>5, <3>6, CopyComplete
  <2>4. TransferInv'
    BY <1>3, <1>5, <2>1, <2>2, <2>3 DEF TransferInv
  <2> QED
    BY <1>2, <2>1, <2>2, <2>4
    DEF PlaceInv, RecordInv, AtRecord, WriteInv, AtTransferStart, ServeInv,
        AtService, FormatInv, AtFormat
<1> QED
  BY <1>3, <1>6, <1>7 DEF EraseOld

LEMMA PlaceMarkValid ==
    ASSUME DriverInv, MarkValid
    PROVE  PlaceInv'
<1>1. pc = "MarkValid" /\ ~flashError /\ ~flashError'
  BY DEF MarkValid, FlashOp, At
<1>2. TransferInv /\ WriteInv /\ FlashInv /\ StageInv /\ TypeOK
  BY <1>1 DEF DriverInv, PlaceInv
<1>3. PICK n \in Page : n = new
  BY <1>2, Pages
<1>4. 1 - n \in Page /\ 1 - (1 - n) = n
  BY OtherPage
<1>5. hdr'[n] = VALID_PAGE /\ hdr'[1 - n] = hdr[1 - n] /\ slot' = slot
  BY <1>2, <1>3, <1>4, HeaderFacts DEF MarkValid, Burn
<1>6. CASE hdr[1 - n] = ERASED /\ Return(TRUE)
  <2>1. hdr[n] = RECEIVE_DATA
    BY <1>1, <1>2, <1>3, <1>6, Statuses DEF TransferInv, Filling, Foreign
  <2>2. HasVersion(n)
    BY <1>2, <1>6, <2>1, Statuses DEF FlashInv, PageInv
  <2>3. Serving(n)' /\ HasVersion(n)'
    BY <1>5, <1>6, <2>2 DEF Serving, HasVersion
  <2>4. stage \in {"EE_Init", "Running"}
    BY <1>1, <1>2 DEF StageInv, WriteInv
  <2> QED
    BY <1>1, <1>2, <1>6, <2>3, <2>4, ReturnPlace
<1>7. CASE hdr[1 - n] # ERASED /\ Goto("EraseOld") /\ UNCHANGED locals
  <2>1. /\ pc' = "EraseOld" /\ routine' = routine /\ stage' = stage
        /\ new' = new
    BY <1>7 DEF Goto, locals
  <2>2. routine = "EE_Init" /\ hdr[1 - n] = VALID_PAGE
    BY <1>1, <1>2, <1>3, <1>7 DEF TransferInv, Filling, Foreign, Page
  <2>3. TwoValidPages'
    BY <1>5, <2>2, OtherPage DEF TwoValidPages
  <2> QED
    BY <1>2, <2>1, <2>2, <2>3
    DEF PlaceInv, RecordInv, AtRecord, WriteInv, AtTransferStart, ServeInv,
        AtService, TransferInv, FormatInv, AtFormat
<1> QED
  BY <1>3, <1>6, <1>7 DEF MarkValid

-----------------------------------------------------------------------------
LEMMA InitDriver == Init => DriverInv
<1> SUFFICES ASSUME Init PROVE DriverInv
  OBVIOUS
<1>1. TypeOK
  BY InitType
<1>2. /\ pc = "Off" /\ stage = "Off" /\ routine = "None" /\ varIdx = 0
      /\ ~flashError /\ ~status
  BY DEF Init
<1>3. StageInv
  BY <1>2 DEF StageInv, Writing
<1>4. PlaceInv
  BY <1>2 DEF PlaceInv, RecordInv, AtRecord, WriteInv, AtTransferStart,
     ServeInv, AtService, TransferInv, FormatInv, AtFormat
<1>5. FlashInv
  <2>1. CASE hdr \in [Page -> {ERASED, Other}]
             /\ \E w \in [data : Data, addr : Addr \ {VersionAddr}] :
                slot = [p \in Page |->
                          IF hdr[p] = Other THEN [Fresh EXCEPT ![1] = w]
                          ELSE Fresh]
    <3>1. PICK w \in [data : Data, addr : Addr \ {VersionAddr}] :
                slot = [p \in Page |->
                          IF hdr[p] = Other THEN [Fresh EXCEPT ![1] = w]
                          ELSE Fresh]
      BY <2>1
    <3>2. ASSUME NEW p \in Page PROVE PageInv(p)
      <4>1. hdr[p] \in {ERASED, Other} /\ hdr[1 - p] \in {ERASED, Other}
        BY <2>1, OtherPage
      <4>2. \A s \in Slot : s # 1 => slot[p][s] = BlankWord
        BY <3>1 DEF Fresh
      <4>3. \A s \in Slot : slot[p][s] = BlankWord \/ slot[p][s].addr = w.addr
        BY <3>1 DEF Fresh
      <4>4. \A s \in Slot : slot[p][s].addr # VersionAddr
        BY <4>3, TableType, AddrAssumption DEF BlankWord
      <4>5. hdr[p] = ERASED => BlankPage(slot[p])
        BY <3>1, Statuses DEF Fresh, BlankPage
      <4>6. Packed(slot[p])
        BY <4>2, SizeAssumption DEF Packed, Slot
      <4> QED
        BY <4>1, <4>4, <4>5, <4>6, Statuses DEF PageInv
    <3> QED
      BY <3>2 DEF FlashInv
  <2>2. ASSUME NEW p \in Page, NEW a \in Addr \ {VersionAddr}, NEW d \in Data,
             /\ Slots > 1
             /\ hdr = [q \in Page |-> IF q = p THEN VALID_PAGE ELSE ERASED]
             /\ slot = [q \in Page |->
                          IF q = p
                          THEN [Fresh EXCEPT
                                  ![1] = [addr |-> VersionAddr,
                                          data |-> OldVersion],
                                  ![2] = [addr |-> a, data |-> d]]
                          ELSE Fresh]
        PROVE  FlashInv
    <3>1. hdr[p] = VALID_PAGE /\ hdr[1 - p] = ERASED
      BY <2>2, OtherPage
    <3>2. slot[1 - p] = Fresh /\ BlankPage(slot[1 - p])
      BY <2>2, OtherPage DEF Fresh, BlankPage
    <3>3. 1 \in Slot /\ 2 \in Slot
      BY <2>2, SizeAssumption DEF Slot
    <3>4. /\ \A s \in Slot : s > 2 => slot[p][s] = BlankWord
          /\ slot[p][1].addr = VersionAddr
      BY <2>2, <3>3, SizeAssumption DEF Fresh, Slot
    <3>5. BlankWord.addr # slot[p][1].addr
      BY <3>4, TableType, AddrAssumption DEF BlankWord
    <3>6. Packed(slot[p])
      BY <3>4, <3>5, SizeAssumption DEF Packed, Slot
    <3>7. PageInv(p)
      BY <3>1, <3>6, Statuses DEF PageInv
    <3>8. PageInv(1 - p)
      BY <3>1, <3>2, BlankIsPacked, Statuses DEF PageInv
    <3> QED
      BY <3>7, <3>8, OtherPage DEF FlashInv
  <2> QED
    BY <2>1, <2>2 DEF Init
<1> QED
  BY <1>1, <1>3, <1>4, <1>5 DEF DriverInv

\* Every step of the driver leaves each place what it relies on.
LEMMA StepDriver ==
    ASSUME NoLuckyGarbage, DriverInv, [Next]_vars
    PROVE  DriverInv'
<1>1. TypeOK' /\ StageInv' /\ FlashInv'
  BY StepType, StepStage, StepFlash DEF DriverInv
<1>2. ASSUME ~flashError'
      PROVE  PlaceInv'
  <2>1. CASE PowerOn
    BY <2>1, PlacePowerOn
  <2>2. CASE PowerLoss
    BY <2>2, PlacePowerLoss
  <2>3. CASE FlashFails
    BY <1>2, <2>3 DEF FlashFails
  <2>4. ASSUME NEW p \in Page, InitErase(p) \/ InitCopy(p)
        PROVE  PlaceInv'
    BY <2>4, PlaceInitErase, PlaceInitCopy
  <2>5. CASE InitFormat
    BY <2>5, PlaceInitFormat
  <2>6. CASE FormatErase0
    BY <2>6, PlaceFormatErase0
  <2>7. CASE FormatValid0
    BY <2>7, PlaceFormatValid0
  <2>8. CASE FormatErase1
    BY <2>8, PlaceFormatErase1
  <2>9. CASE CheckVersion
    BY <1>2, <2>9, PlaceCheckVersion DEF CheckVersion, At
  <2>10. ASSUME NEW a \in Addr, NEW d \in Data, EE_WriteVariable(a, d)
         PROVE  PlaceInv'
    BY <1>2, <2>10, PlaceCall DEF EE_WriteVariable, At
  <2>11. CASE WriteRecord
    BY <1>2, <2>11, PlaceWriteRecord DEF WriteRecord, At
  <2>12. CASE StartTransfer
    BY <1>2, <2>12, PlaceStartTransfer DEF StartTransfer, At
  <2>13. CASE WriteFails
    BY <1>2, <2>13, PlaceWriteFails DEF WriteFails, At
  <2>14. CASE MarkReceive
    BY <2>14, PlaceMarkReceive
  <2>15. CASE ProgramData
    BY <2>15, PlaceProgramData
  <2>16. CASE ProgramAddr
    BY <2>16, PlaceProgramAddr
  <2>17. ASSUME NEW i \in 0..(NB_OF_VAR - 1), CopyVariable(i)
         PROVE  PlaceInv'
    BY <1>2, <2>17, PlaceCopyVariable DEF CopyVariable, At
  <2>18. CASE CopyFails
    BY <1>2, <2>18, PlaceCopyFails DEF CopyFails, At
  <2>19. CASE CopyDone
    BY <1>2, <2>19, PlaceCopyDone DEF CopyDone, At
  <2>20. CASE EraseOld
    BY <2>20, PlaceEraseOld
  <2>21. CASE MarkValid
    BY <2>21, PlaceMarkValid
  <2>22. CASE UNCHANGED vars
    <3>1. PlaceInv
      BY <1>2, <2>22 DEF DriverInv, vars
    <3>2. /\ hdr' = hdr /\ slot' = slot /\ pc' = pc /\ routine' = routine
          /\ stage' = stage /\ new' = new /\ call' = call /\ cur' = cur
          /\ dst' = dst /\ varIdx' = varIdx
      BY <2>22 DEF vars, flash, control, locals
    <3>3. RecordInv'
      BY <3>1, <3>2
      DEF PlaceInv, RecordInv, AtRecord, DirectRecord, TransferRecord, Filling,
          CallRecord, CallCopied, Entries, Carried, Covers, HasVersion
    <3>4. WriteInv'
      BY <3>1, <3>2 DEF PlaceInv, WriteInv, AtTransferStart, HasVersion
    <3>5. ServeInv'
      BY <3>1, <3>2 DEF PlaceInv, ServeInv, AtService, Serving, HasVersion
    <3>6. TransferInv'
      BY <3>1, <3>2
      DEF PlaceInv, TransferInv, Filling, Foreign, CallRecord, CallCopied,
          Entries, Carried, Covers, TwoValidPages
    <3>7. FormatInv'
      BY <3>1, <3>2, RecoveredIsSight DEF PlaceInv, FormatInv, AtFormat
    <3> QED
      BY <3>3, <3>4, <3>5, <3>6, <3>7 DEF PlaceInv
  <2> QED
    BY <2>1, <2>2, <2>3, <2>4, <2>5, <2>6, <2>7, <2>8, <2>9, <2>10, <2>11,
       <2>12, <2>13, <2>14, <2>15, <2>16, <2>17, <2>18, <2>19, <2>20, <2>21,
       <2>22
    DEF Next, Driver, EE_Init, EE_Format, EE_VerifyPageFullWriteVariable,
        EE_PageTransfer
<1> QED
  BY <1>1, <1>2 DEF DriverInv

-----------------------------------------------------------------------------
(* What each operation does to what EE_Init would recover.                 *)

Alive == Recovered(VersionAddr) = Version
SameContent == \A a \in Listed : Recovered(a)' = Recovered(a)
CallContent ==
    \A a \in Listed :
        Recovered(a)' = IF a = call.addr THEN call.data ELSE Recovered(a)

\* Two valid pages count as content only on the way from one to the other.
LEMMA SightSameFlash ==
    ASSUME TypeOK, SameFlash,
           TwoValidPages => \/ pc' = pc /\ new' = new
                            \/ pc # "EraseOld" /\ pc' # "EraseOld"
    PROVE  SameContent
<1>1. CASE TwoValidPages
  BY <1>1, RecoveredIsSight DEF SameContent, SameFlash, Two
<1>2. CASE ~TwoValidPages
  <2>1. ASSUME NEW a, NEW t, NEW u
        PROVE  Sight(hdr, slot, t, a) = Sight(hdr, slot, u, a)
    BY <1>2 DEF TwoValidPages, Sight, Page
  <2> QED
    BY <2>1, RecoveredIsSight DEF SameContent, SameFlash
<1> QED
  BY <1>1, <1>2

LEMMA ContentMarkReceive ==
    ASSUME DriverInv, MarkReceive
    PROVE  SameContent
<1>1. PICK n \in Page : n = new
  BY Pages DEF DriverInv
<1>2. /\ hdr'[n] = RECEIVE_DATA /\ hdr'[1 - n] = VALID_PAGE /\ slot' = slot
      /\ pc = "MarkReceive" /\ pc' = "Write"
  BY <1>1, FlashInvMarkReceive DEF MarkReceive, FlashOp, At, Goto
<1>3. /\ hdr[1 - n] = VALID_PAGE
      /\ hdr[n] = RECEIVE_DATA \/ (hdr[n] = ERASED /\ BlankPage(slot[n]))
  BY <1>1, <1>2, Statuses
  DEF MarkReceive, FlashOp, At, DriverInv, PlaceInv, WriteInv, AtTransferStart,
      FlashInv, PageInv
<1>4. 1 - n \in Page /\ 1 - (1 - n) = n /\ 1 \in Slot
  BY OtherPage, SizeAssumption DEF Slot
<1>5. \A a : Recovered(a)' = IF slot[n][1].addr = a THEN slot[n][1].data
                             ELSE Find(slot[1 - n], a)
  <2>1. ASSUME NEW two, NEW a
        PROVE  Sight(hdr', slot, two, a) =
                  IF slot[n][1].addr = a THEN slot[n][1].data
                  ELSE Find(slot[1 - n], a)
    BY <1>2, <1>4, SightCopy
  <2> QED
    BY <1>2, <2>1, RecoveredIsSight
<1>6. CASE hdr[n] = RECEIVE_DATA
  <2>1. \A a : Recovered(a) = IF slot[n][1].addr = a THEN slot[n][1].data
                              ELSE Find(slot[1 - n], a)
    BY <1>3, <1>4, <1>6, SightCopy, RecoveredIsSight
  <2> QED
    BY <1>5, <2>1 DEF SameContent
<1>7. CASE hdr[n] = ERASED /\ BlankPage(slot[n])
  <2>1. \A a : Recovered(a) = Find(slot[1 - n], a)
    BY <1>3, <1>4, <1>7, SightOne, RecoveredIsSight, Statuses
  <2>2. \A a \in Addr : slot[n][1].addr # a
    BY <1>4, <1>7, BlankIsPacked, AddrAssumption
  <2> QED
    BY ListedType, <1>5, <2>1, <2>2 DEF SameContent
<1> QED
  BY <1>3, <1>6, <1>7

LEMMA ContentProgramData ==
    ASSUME DriverInv, ProgramData
    PROVE  SameContent
<1>0. AtRecord /\ ~flashError /\ TypeOK
  BY DEF ProgramData, FlashOp, At, AtRecord, DriverInv
<1>1. PICK p \in Page, n \in Slot :
               /\ p = dst.page /\ n = dst.slot
               /\ slot[p] \in [Slot -> Word]
               /\ slot[p][n].addr = Blank
               /\ hdr[p] \in {VALID_PAGE, RECEIVE_DATA}
               /\ hdr[p] = VALID_PAGE => hdr[1 - p] = ERASED
               /\ hdr[p] = RECEIVE_DATA => hdr[1 - p] = VALID_PAGE
  BY <1>0, RecordFacts
<1>2. 1 - p \in Page /\ 1 - (1 - p) = p /\ 1 \in Slot
  BY OtherPage, SizeAssumption DEF Slot
<1>3. /\ hdr' = hdr
      /\ \A t \in Slot : t # n => slot'[p][t] = slot[p][t]
  BY <1>0, <1>1, DataFacts DEF OneWord
<1>4. /\ \A q \in Page, a \in Addr : Find(slot'[q], a) = Find(slot[q], a)
      /\ \A q \in Page : slot'[q][1].addr = slot[q][1].addr
  BY FlashInvProgramData
<1>5. CASE hdr[p] = VALID_PAGE
  <2>1. \A a : /\ Recovered(a) = Find(slot[p], a)
               /\ Recovered(a)' = Find(slot'[p], a)
    BY <1>1, <1>2, <1>3, <1>5, SightOne, RecoveredIsSight, Statuses
  <2> QED
    BY ListedType, <1>4, <2>1 DEF SameContent
<1>6. CASE hdr[p] = RECEIVE_DATA
  <2>1. \A a : Recovered(a) = IF slot[p][1].addr = a THEN slot[p][1].data
                              ELSE Find(slot[1 - p], a)
    BY <1>1, <1>2, <1>6, SightCopy, RecoveredIsSight
  <2>2. \A a : Recovered(a)' = IF slot'[p][1].addr = a THEN slot'[p][1].data
                               ELSE Find(slot'[1 - p], a)
    BY <1>1, <1>2, <1>3, <1>6, SightCopy, RecoveredIsSight
  <2>3. \A a \in Addr : slot[p][1].addr = a => slot'[p][1].data = slot[p][1].data
    BY <1>1, <1>2, <1>3, AddrAssumption
  <2> QED
    BY ListedType, <1>2, <1>4, <2>1, <2>2, <2>3 DEF SameContent
<1> QED
  BY <1>1, <1>5, <1>6

\* The address half-word of the call's record is where the write happens.
LEMMA ContentProgramAddr ==
    ASSUME DriverInv, ProgramAddr
    PROVE  IF routine = "EE_WriteVariable" \/ varIdx = 0
           THEN Writing /\ CallContent ELSE SameContent
<1>0. AtRecord /\ ~flashError /\ TypeOK
  BY DEF ProgramAddr, FlashOp, At, AtRecord, DriverInv
<1>1. PICK p \in Page, n \in Slot :
               /\ p = dst.page /\ n = dst.slot
               /\ hdr' = hdr /\ slot'[1 - p] = slot[1 - p]
               /\ slot'[p][n] = [data |-> cur.data, addr |-> cur.addr]
               /\ \A t \in Slot : t # n => slot'[p][t] = slot[p][t]
               /\ \A a \in Addr : Find(slot'[p], a) =
                     IF a = cur.addr THEN cur.data ELSE Find(slot[p], a)
               /\ slot[p][n].addr = Blank
  BY AddrEffect
<1>2. /\ hdr[p] \in {VALID_PAGE, RECEIVE_DATA}
      /\ hdr[p] = VALID_PAGE => /\ hdr[1 - p] = ERASED
                                /\ routine = "EE_WriteVariable"
                                /\ cur = call
      /\ hdr[p] = RECEIVE_DATA => /\ hdr[1 - p] = VALID_PAGE
                                  /\ routine # "EE_WriteVariable"
                                  /\ TransferRecord
      /\ cur.addr \in Addr
  BY <1>0, <1>1, RecordFacts
<1>3. 1 - p \in Page /\ 1 - (1 - p) = p /\ 1 \in Slot
  BY OtherPage, SizeAssumption DEF Slot
<1>4. CASE hdr[p] = VALID_PAGE
  <2>1. \A a : /\ Recovered(a) = Find(slot[p], a)
               /\ Recovered(a)' = Find(slot'[p], a)
    <3>1. hdr'[p] = VALID_PAGE /\ hdr'[1 - p] = ERASED /\ hdr[1 - p] = ERASED
      BY <1>1, <1>2, <1>4
    <3> QED
      BY <1>4, <3>1, SightOne, RecoveredIsSight, Statuses
  <2> QED
    BY ListedType, <1>1, <1>2, <1>4, <2>1 DEF CallContent, Writing
<1>5. CASE hdr[p] = RECEIVE_DATA
  <2>1. \A a : Recovered(a) = IF slot[p][1].addr = a THEN slot[p][1].data
                              ELSE Find(slot[1 - p], a)
    BY <1>2, <1>3, <1>5, SightCopy, RecoveredIsSight
  <2>2. \A a : Recovered(a)' = IF slot'[p][1].addr = a THEN slot'[p][1].data
                               ELSE Find(slot'[1 - p], a)
    <3>1. hdr'[p] = RECEIVE_DATA /\ hdr'[1 - p] = VALID_PAGE
      BY <1>1, <1>2, <1>5
    <3> QED
      BY <1>3, <3>1, SightCopy, RecoveredIsSight
  <2>3. TransferRecord /\ p = new /\ routine # "EE_WriteVariable"
    BY <1>1, <1>2, <1>5 DEF TransferRecord
  <2>4. CASE n = 1
    <3>1. \A a \in Addr :
             Recovered(a)' = IF a = cur.addr THEN cur.data ELSE Recovered(a)
      BY <1>1, <2>1, <2>2, <2>4, AddrAssumption
    <3>2. varIdx = 0 => Writing /\ cur = call
      BY <2>3 DEF TransferRecord, Writing
    <3>3. varIdx # 0 => varIdx > 0
      BY <1>0, SizeAssumption DEF TypeOK
    <3>4. varIdx # 0 => Recovered(cur.addr) = cur.data
      BY <1>1, <1>2, <2>1, <2>3, <2>4, <3>3, AddrAssumption DEF TransferRecord
    <3> QED
      BY ListedType, <2>3, <3>1, <3>2, <3>4 DEF CallContent, SameContent
  <2>5. CASE n # 1
    <3>1. varIdx # 0
      BY <1>1, <2>3, <2>5 DEF TransferRecord
    <3>2. slot'[p][1] = slot[p][1]
      BY <1>1, <1>3, <2>5
    <3> QED
      BY <1>1, <2>1, <2>2, <2>3, <3>1, <3>2 DEF SameContent
  <2> QED
    BY <2>4, <2>5
<1> QED
  BY <1>2, <1>4, <1>5

\* The new page says what the two of them said.
LEMMA FilledSays ==
    ASSUME DriverInv, NEW n \in Page, n = new, Filling, Carried(Listed),
           NEW a \in Listed
    PROVE  Recovered(a) = Find(slot[n], a)
<1>1. hdr[1 - n] = VALID_PAGE /\ hdr[n] = RECEIVE_DATA
  BY DEF Filling
<1>2. 1 - n \in Page /\ 1 - (1 - n) = n
  BY OtherPage
<1>3. Recovered(a) = IF slot[n][1].addr = a THEN slot[n][1].data
                     ELSE Find(slot[1 - n], a)
  BY <1>1, <1>2, SightCopy, RecoveredIsSight
<1>4. Copied(slot[n], slot[1 - n])
  BY <1>1, Statuses DEF DriverInv, FlashInv, PageInv
<1>5. slot[n] \in [Slot -> Word] /\ slot[1 - n] \in [Slot -> Word]
  BY <1>2, Pages DEF DriverInv
<1> QED
  BY ListedType, <1>3, <1>4, <1>5, CopyComplete DEF Carried

LEMMA ContentEraseOld ==
    ASSUME DriverInv, EraseOld
    PROVE  SameContent
<1>1. PICK n \in Page : n = new
  BY Pages DEF DriverInv
<1>2. 1 - n \in Page /\ 1 - (1 - n) = n
  BY OtherPage
<1>3. /\ hdr'[1 - n] = ERASED /\ hdr'[n] = hdr[n] /\ slot'[n] = slot[n]
      /\ pc = "EraseOld" /\ TransferInv
  BY <1>1, <1>2, EraseFacts
  DEF EraseOld, FlashOp, At, DriverInv, PlaceInv
<1>4. hdr[n] \in {VALID_PAGE, RECEIVE_DATA}
  BY <1>1, <1>3 DEF TransferInv, Filling, TwoValidPages
<1>5. \A a : Recovered(a)' = Find(slot[n], a)
  BY <1>2, <1>3, <1>4, SightOne, SightReceive, RecoveredIsSight, Statuses
<1>6. \A a \in Listed : Recovered(a) = Find(slot[n], a)
  <2>1. CASE Filling /\ Carried(Listed)
    BY <1>1, <2>1, FilledSays
  <2>2. CASE hdr[1 - n] = ERASED
    BY <1>2, <1>4, <2>2, SightOne, SightReceive, RecoveredIsSight, Statuses
  <2>3. CASE TwoValidPages
    <3>1. \A a : Recovered(a) = Two(pc, new, slot, a)
      BY <2>3, SightTwo, RecoveredIsSight DEF TwoValidPages
    <3> QED
      BY <1>1, <1>3, <3>1 DEF Two
  <2> QED
    BY <1>1, <1>3, <2>1, <2>2, <2>3 DEF TransferInv
<1> QED
  BY <1>5, <1>6 DEF SameContent

\* A page without records of the version, next to it a blank one or none.
LEMMA ContentMarkValid ==
    ASSUME DriverInv, MarkValid
    PROVE  \/ SameContent
           \/ Foreign /\ ~Alive /\ ~Alive' /\ \A p \in Page : ~HasVersion(p)'
<1>1. PICK n \in Page : n = new
  BY Pages DEF DriverInv
<1>2. 1 - n \in Page /\ 1 - (1 - n) = n
  BY OtherPage
<1>3. /\ hdr'[n] = VALID_PAGE /\ hdr'[1 - n] = hdr[1 - n] /\ slot' = slot
      /\ pc = "MarkValid" /\ TransferInv
  BY <1>1, <1>2, HeaderFacts
  DEF MarkValid, FlashOp, At, DriverInv, PlaceInv, Burn
<1>4. /\ hdr[1 - n] = ERASED => pc' # "EraseOld"
      /\ hdr[1 - n] # ERASED => pc' = "EraseOld" /\ new' = new
  BY <1>1 DEF MarkValid, Return, Goto, locals
<1>5. CASE hdr[n] = RECEIVE_DATA /\ hdr[1 - n] = ERASED
  <2>1. \A a : /\ Recovered(a) = Find(slot[n], a)
               /\ Recovered(a)' = Find(slot[n], a)
    BY <1>2, <1>3, <1>5, SightOne, SightReceive, RecoveredIsSight, Statuses
  <2> QED
    BY <2>1 DEF SameContent
<1>6. ASSUME hdr[1 - n] = VALID_PAGE
      PROVE  \A a : Recovered(a)' = Find(slot[n], a)
  <2>1. \A p \in Page : hdr'[p] = VALID_PAGE
    BY <1>2, <1>3, <1>6, OtherPage
  <2>2. \A a : Two(pc', new', slot', a) = Find(slot[n], a)
    BY <1>1, <1>3, <1>4, <1>6, Statuses DEF Two
  <2> QED
    BY <2>1, <2>2, SightTwo, RecoveredIsSight
<1>7. CASE Filling /\ Carried(Listed)
  <2>1. \A a \in Listed : Recovered(a) = Find(slot[n], a)
    BY <1>1, <1>7, FilledSays
  <2> QED
    BY <1>1, <1>6, <1>7, <2>1 DEF SameContent, Filling
<1>8. CASE Foreign
  <2>1. n = 1 /\ hdr[0] = VALID_PAGE /\ hdr[1] = Other /\ 1 - n = 0
    BY <1>1, <1>8 DEF Foreign
  <2>2. /\ \A s \in Slot : slot[1][s].addr # VersionAddr
        /\ BlankPage(slot[0])
    BY <2>1, Statuses DEF DriverInv, FlashInv, PageInv, Page
  <2>3. VersionAddr \in Addr /\ NotFound # Version
    BY TableType, VersionAssumption, AddrAssumption
  <2>4. /\ Find(slot[1], VersionAddr) = NotFound
        /\ Find(slot[0], VersionAddr) = NotFound
    BY <2>2, <2>3, FindNone, FindBlank
  <2>5. Recovered(VersionAddr) = Find(slot[0], VersionAddr)
    BY <1>2, <2>1, SightOne, RecoveredIsSight, Statuses
  <2>6. Recovered(VersionAddr)' = Find(slot[1], VersionAddr)
    BY <1>6, <2>1
  <2>7. \A p \in Page : Find(slot'[p], VersionAddr) = NotFound
    BY <1>3, <2>4 DEF Page
  <2> QED
    BY <1>8, <2>3, <2>4, <2>5, <2>6, <2>7 DEF Alive, HasVersion
<1> QED
  BY <1>1, <1>3, <1>5, <1>7, <1>8 DEF TransferInv

\* A format starts on pages without content; only the valid mark on page 0 can
\* meet content, on a page 1 that is valid.
LEMMA ContentFormat ==
    ASSUME DriverInv, FormatErase0 \/ FormatValid0 \/ FormatErase1
    PROVE  ~Alive \/ (TwoValidPages' /\ pc = "FormatValid0")
<1>1. PlaceInv /\ FlashInv /\ TypeOK
  BY DEF FormatErase0, FormatValid0, FormatErase1, FlashOp, DriverInv
<1>2. 0 \in Page /\ 1 \in Page /\ 1 - 0 = 1 /\ 1 - 1 = 0
  BY DEF Page
<1>3. VersionAddr \in Addr /\ NotFound # Version
  BY TableType, VersionAssumption, AddrAssumption
<1>4. CASE FormatErase0
  BY <1>1, <1>4 DEF FormatErase0, FlashOp, At, PlaceInv, FormatInv, Alive
<1>5. CASE FormatValid0
  <2>1. hdr[0] = ERASED /\ hdr[1] # RECEIVE_DATA /\ pc = "FormatValid0"
    BY <1>1, <1>2, <1>5
    DEF FormatValid0, FlashOp, At, PlaceInv, FormatInv, AtFormat
  <2>2. hdr'[0] = VALID_PAGE /\ hdr'[1] = hdr[1]
    BY <1>1, <1>2, <1>5, <2>1, HeaderFacts DEF FormatValid0, Burn
  <2>3. CASE hdr[1] = VALID_PAGE
    BY <2>1, <2>2, <2>3 DEF TwoValidPages, Page
  <2>4. CASE hdr[1] # VALID_PAGE
    <3>1. \A p \in Page : hdr[p] \notin {VALID_PAGE, RECEIVE_DATA}
      BY <2>1, <2>4, Statuses DEF Page
    <3> QED
      BY <1>3, <3>1, SightNone, RecoveredIsSight DEF Alive
  <2> QED
    BY <2>3, <2>4
<1>6. CASE FormatErase1
  <2>1. hdr[0] = VALID_PAGE /\ BlankPage(slot[0]) /\ hdr[1] # RECEIVE_DATA
        /\ pc = "FormatErase1"
    BY <1>1, <1>2, <1>6
    DEF FormatErase1, FlashOp, At, PlaceInv, FormatInv, AtFormat
  <2>2. CASE hdr[1] = VALID_PAGE
    <3>1. Recovered(VersionAddr) = Two(pc, new, slot, VersionAddr)
      BY <2>1, <2>2, SightTwo, RecoveredIsSight DEF Page
    <3> QED
      BY <1>3, <2>1, <3>1 DEF Alive, Two
  <2>3. CASE hdr[1] # VALID_PAGE
    <3>1. Recovered(VersionAddr) = Find(slot[0], VersionAddr)
      BY <1>2, <2>1, <2>3, SightOne, RecoveredIsSight
    <3> QED
      BY <1>3, <2>1, <3>1, FindBlank DEF Alive
  <2> QED
    BY <2>2, <2>3
<1> QED
  BY <1>4, <1>5, <1>6

LEMMA ContentStep ==
    ASSUME DriverInv, [Next]_vars
    PROVE  \/ SameContent
           \/ ProgramAddr /\ Writing /\ CallContent
           \/ (PowerLoss \/ FlashFails) /\ TwoValidPages /\ pc = "EraseOld"
           \/ /\ MarkValid /\ Foreign
              /\ ~Alive /\ ~Alive' /\ \A p \in Page : ~HasVersion(p)'
           \/ /\ FormatErase0 \/ FormatValid0 \/ FormatErase1
              /\ ~Alive \/ (TwoValidPages' /\ pc = "FormatValid0")
<1> TypeOK /\ StageInv
  BY DEF DriverInv
<1>1. ASSUME SameFlash, pc # "EraseOld", pc' # "EraseOld"
      PROVE  SameContent
  BY <1>1, SightSameFlash
<1>2. CASE PowerOn
  BY <1>1, <1>2 DEF PowerOn, SameFlash, flash
<1>3. CASE PowerLoss \/ FlashFails
  <2>1. SameFlash /\ pc' # "EraseOld"
    BY <1>3 DEF PowerLoss, FlashFails, Return, SameFlash, flash
  <2> QED
    BY <1>1, <1>3, <2>1, SightSameFlash
<1>4. ASSUME NEW p \in Page, InitErase(p)
      PROVE  SameContent
  <2>1. SameFlash /\ hdr[1 - p] = ERASED /\ 1 - p \in Page
    BY <1>4, OtherPage DEF InitErase, RepairByErase, SameFlash, flash
  <2> QED
    BY <2>1, SightSameFlash, Statuses DEF TwoValidPages
<1>5. ASSUME NEW p \in Page, InitCopy(p)
      PROVE  SameContent
  BY <1>1, <1>5 DEF InitCopy, At, Goto, SameFlash, flash
<1>6. CASE InitFormat
  BY <1>1, <1>6 DEF InitFormat, At, Goto, SameFlash, flash
<1>7. CASE FormatErase0 \/ FormatValid0 \/ FormatErase1
  BY <1>7, ContentFormat
<1>8. CASE CheckVersion
  BY <1>1, <1>8 DEF CheckVersion, At, SameFlash, flash
<1>9. ASSUME NEW a \in Addr, NEW d \in Data, EE_WriteVariable(a, d)
      PROVE  SameContent
  BY <1>1, <1>9 DEF EE_WriteVariable, At, SameFlash, flash
<1>10. CASE WriteRecord
  BY <1>1, <1>10 DEF WriteRecord, StartRecord, At, Goto, SameFlash, flash
<1>11. CASE StartTransfer
  BY <1>1, <1>11 DEF StartTransfer, At, SameFlash, flash
<1>12. CASE WriteFails \/ CopyFails
  BY <1>1, <1>12 DEF WriteFails, CopyFails, At, Return, SameFlash, flash
<1>13. CASE MarkReceive
  BY <1>13, ContentMarkReceive
<1>14. CASE ProgramData
  BY <1>14, ContentProgramData
<1>15. CASE ProgramAddr
  BY <1>15, ContentProgramAddr
<1>16. ASSUME NEW i \in 0..(NB_OF_VAR - 1), CopyVariable(i)
       PROVE  SameContent
  BY <1>1, <1>16 DEF CopyVariable, StartRecord, At, Goto, SameFlash, flash
<1>17. CASE CopyDone
  <2>1. SameFlash /\ pc = "Copy" /\ flashError' = flashError /\ new' = new
    BY <1>17 DEF CopyDone, At, locals, SameFlash, flash
  <2>2. Filling \/ Foreign
    BY <2>1 DEF DriverInv, StageInv, PlaceInv, TransferInv
  <2>3. \E p \in Page : hdr[p] # VALID_PAGE
    BY <2>2, Pages, Statuses DEF Filling, Foreign, Page
  <2> QED
    BY <2>1, <2>3, SightSameFlash DEF TwoValidPages
<1>18. CASE EraseOld
  BY <1>18, ContentEraseOld
<1>19. CASE MarkValid
  BY <1>19, ContentMarkValid
<1>20. CASE UNCHANGED vars
  <2>1. SameFlash /\ pc' = pc /\ new' = new
    BY <1>20 DEF vars, flash, control, locals, SameFlash
  <2> QED
    BY <2>1, SightSameFlash
<1> QED
  BY <1>2, <1>3, <1>4, <1>5, <1>6, <1>7, <1>8, <1>9, <1>10, <1>11, <1>12,
     <1>13, <1>14, <1>15, <1>16, <1>17, <1>18, <1>19, <1>20
  DEF Next, Driver, EE_Init, EE_Format, EE_VerifyPageFullWriteVariable,
      EE_PageTransfer

\* ContentChangesByWrite of the variables that the table lists.
ListedChangesByWrite ==
    [][Alive /\ ~SameContent =>
         \/ Writing /\ CallContent
         \/ TwoValidPages /\ (pc' = "Off" \/ flashError')
         \/ TwoValidPages' /\ pc = "FormatValid0"]_vars

\* Nothing but the record being written changes what is stored of the variables
\* in the table, whatever is interrupted and however often, except where two
\* pages are left valid.
THEOREM ListedChangesOnlyByWrite ==
    ASSUME NoLuckyGarbage
    PROVE  Spec => ListedChangesByWrite
<1>1. DriverInv /\ [Next]_vars => DriverInv'
  BY StepDriver
<1>2. DriverInv /\ [Next]_vars =>
         [Alive /\ ~SameContent =>
            \/ Writing /\ CallContent
            \/ TwoValidPages /\ (pc' = "Off" \/ flashError')
            \/ TwoValidPages' /\ pc = "FormatValid0"]_vars
  BY ContentStep DEF PowerLoss, FlashFails
<1> QED
  BY <1>1, <1>2, InitDriver, PTL DEF Spec, ListedChangesByWrite

\* With a table that lists all variables in use, nothing else changes any of
\* the content.
THEOREM ContentChangesOnlyByWrite ==
    ASSUME CompleteTable, NoLuckyGarbage
    PROVE  Spec => ContentChangesByWrite
<1>1. SameContent => Content' = Content
  BY DEF SameContent, Content, CompleteTable
<1>2. CallContent => Content' = [Content EXCEPT ![call.addr] = call.data]
  BY DEF CallContent, Content, CompleteTable
<1>3. [Alive /\ ~SameContent =>
         \/ Writing /\ CallContent
         \/ TwoValidPages /\ (pc' = "Off" \/ flashError')
         \/ TwoValidPages' /\ pc = "FormatValid0"]_vars
      => [Recovered(VersionAddr) = Version /\ Content' # Content =>
         \/ /\ Writing
            /\ Content' = [Content EXCEPT ![call.addr] = call.data]
         \/ TwoValidPages /\ (pc' = "Off" \/ flashError')
         \/ TwoValidPages' /\ pc = "FormatValid0"]_vars
  BY <1>1, <1>2 DEF Alive
<1> QED
  BY <1>3, ListedChangesOnlyByWrite, PTL
  DEF ListedChangesByWrite, ContentChangesByWrite

-----------------------------------------------------------------------------
(* What the calls were promised.                                           *)

\* Power was lost while EE_Init had two valid pages, one of them with content:
\* the next EE_Init formats them both (eeprom.cpp:241).
Torn == pc = "Off" /\ TwoValidPages /\ \E p \in Page : HasVersion(p)

\* Two valid pages with content are on the way from one to the other, and a
\* format meets no content.
WholeInv ==
    /\ TwoValidPages /\ (\E p \in Page : HasVersion(p)) =>
          pc = "EraseOld" \/ flashError
    /\ AtFormat /\ ~flashError => \A p \in Page : ~HasVersion(p)

\* It takes one power loss to have two valid pages with content, and a second
\* one to leave them.
LossInv ==
    /\ TwoValidPages /\ (\E p \in Page : HasVersion(p)) => powerLosses > 0
    /\ powerLosses = 0 /\ stage \in {"Off", "EE_Init"} =>
          \A p \in Page : hdr[p] # RECEIVE_DATA

\* With content, every variable may be what EE_Init would recover, and what it
\* is on a valid page.
AlivePromise ==
    Alive => \A a \in Listed :
        /\ Recovered(a) \in promised[a]
        /\ \A p \in Page : hdr[p] = VALID_PAGE => Find(slot[p], a) \in promised[a]

\* Without content nothing has been promised, unless an error keeps EE_Init
\* from erasing one of the two pages.
DeadPromise ==
    ~Alive =>
        \/ \A a \in Listed : NotFound \in promised[a]
        \/ /\ flashError /\ TwoValidPages
           /\ \E p \in Page : HasVersion(p)
           /\ \A p \in Page, a \in Listed : Find(slot[p], a) \in promised[a]

CallPromise == Writing => call.data \in promised[call.addr]

\* After a format there is no variable yet.
NewPromise ==
    stage = "WriteVersion" /\ ~flashError =>
        \A a \in Listed : Recovered(a) = NotFound

PromiseInv == AlivePromise /\ DeadPromise /\ CallPromise /\ NewPromise

\* An error flag stays until power is lost; power is lost in no other way.
LEMMA ErrorStays ==
    ASSUME StageInv, [Next]_vars
    PROVE  /\ flashError /\ ~flashError' => PowerLoss
           /\ pc' = "Off" => PowerLoss \/ UNCHANGED vars
           /\ ~PowerLoss => powerLosses' = powerLosses
<1>1. CASE PowerOn
  BY <1>1 DEF PowerOn, history
<1>2. CASE PowerLoss
  BY <1>2
<1>3. CASE UNCHANGED vars
  BY <1>3 DEF vars, history
<1>4. ASSUME NEW ok, Return(ok) PROVE pc' # "Off"
  BY <1>4 DEF Return
<1>5. CASE FlashFails
  BY <1>4, <1>5 DEF FlashFails
<1>6. ASSUME NEW p \in Page, InitErase(p) \/ InitCopy(p)
      PROVE  flashError' = flashError /\ pc' # "Off" /\ powerLosses' = powerLosses
  BY <1>6 DEF InitErase, InitCopy, At, Goto
<1>7. ASSUME NEW i \in 0..(NB_OF_VAR - 1), CopyVariable(i)
      PROVE  flashError' = flashError /\ pc' # "Off" /\ powerLosses' = powerLosses
  BY <1>7 DEF CopyVariable, StartRecord, At, Goto
<1>8. ASSUME NEW a \in Addr, NEW d \in Data, EE_WriteVariable(a, d)
      PROVE  flashError' = flashError /\ pc' # "Off" /\ powerLosses' = powerLosses
  BY <1>8 DEF EE_WriteVariable, At
<1> DEFINE Kept == /\ flashError' = flashError
                   /\ pc' # "Off" /\ powerLosses' = powerLosses
<1>9. CASE InitFormat \/ CheckVersion
  <2>1. Kept
    BY <1>9 DEF InitFormat, CheckVersion, At, Goto
  <2> QED
    BY <2>1
<1>10. CASE FormatErase0 \/ FormatValid0 \/ FormatErase1
  <2>1. Kept
    BY <1>4, <1>10
    DEF FormatErase0, FormatValid0, FormatErase1, FlashOp, At, Goto
  <2> QED
    BY <2>1
<1>11. CASE WriteRecord \/ WriteFails \/ ProgramData \/ ProgramAddr
  <2>1. Kept
    BY <1>4, <1>11
    DEF WriteRecord, StartRecord, WriteFails, ProgramData, ProgramAddr,
        FlashOp, At, Goto
  <2> QED
    BY <2>1
<1>12. CASE StartTransfer \/ MarkReceive \/ CopyFails \/ CopyDone
  <2>1. Kept
    BY <1>4, <1>12
    DEF StartTransfer, MarkReceive, CopyFails, CopyDone, FlashOp, At, Goto
  <2> QED
    BY <2>1
<1>13. CASE EraseOld \/ MarkValid
  <2>1. Kept
    BY <1>4, <1>13 DEF EraseOld, MarkValid, FlashOp, At, Goto
  <2> QED
    BY <2>1
<1> QED
  BY <1>1, <1>2, <1>3, <1>5, <1>6, <1>7, <1>8, <1>9, <1>10, <1>11, <1>12, <1>13
  DEF Next, Driver, EE_Init, EE_Format, EE_VerifyPageFullWriteVariable,
      EE_PageTransfer

\* Where an operation leaves two valid pages.
LEMMA StillTwo ==
    ASSUME DriverInv, [Next]_vars, TwoValidPages'
    PROVE  \/ TwoValidPages /\ SameFlash
           \/ FormatValid0 /\ slot' = slot
           \/ MarkValid /\ slot' = slot /\ pc' = "EraseOld"
              /\ routine = "EE_Init" /\ (Filling \/ Foreign)
<1>0. \A p \in Page : hdr'[p] = VALID_PAGE
  BY DEF TwoValidPages
<1>1. 0 \in Page /\ 1 \in Page /\ 1 - 0 = 1
  BY DEF Page
<1>2. CASE SameFlash
  BY <1>2 DEF SameFlash, TwoValidPages
<1>3. CASE FormatErase0 \/ FormatErase1
  BY <1>0, <1>1, <1>3, EraseFacts, Statuses
  DEF FormatErase0, FormatErase1, DriverInv
<1>4. CASE FormatValid0
  BY <1>4 DEF FormatValid0, ProgramHeader
<1>5. CASE MarkReceive
  BY <1>0, <1>5, FlashInvMarkReceive, Pages, Statuses DEF DriverInv
<1>6. CASE ProgramData \/ ProgramAddr
  <2>1. AtRecord /\ ~flashError /\ hdr' = hdr
    BY <1>6 DEF ProgramData, ProgramAddr, FlashOp, At, AtRecord
  <2>2. PICK p \in Page : hdr[p] # VALID_PAGE \/ hdr[1 - p] # VALID_PAGE
    BY <2>1, RecordFacts, Statuses
  <2> QED
    BY <1>0, <2>1, <2>2, OtherPage
<1>7. CASE EraseOld
  <2>1. PICK n \in Page : n = new
    BY Pages DEF DriverInv
  <2>2. 1 - n \in Page /\ hdr'[1 - n] = ERASED
    BY <1>7, <2>1, OtherPage, EraseFacts DEF EraseOld, DriverInv
  <2> QED
    BY <1>0, <2>2, Statuses
<1>8. CASE MarkValid
  <2>1. PICK n \in Page : n = new
    BY Pages DEF DriverInv
  <2>2. 1 - n \in Page /\ hdr'[1 - n] = hdr[1 - n] /\ slot' = slot
    BY <1>8, <2>1, OtherPage, HeaderFacts DEF MarkValid, DriverInv
  <2>3. hdr[1 - n] = VALID_PAGE
    BY <1>0, <2>2
  <2>4. pc' = "EraseOld"
    BY <1>8, <2>1, <2>3, Statuses DEF MarkValid, Goto
  <2>5. routine = "EE_Init" /\ (Filling \/ Foreign)
    BY <1>8, <2>1, <2>3, Statuses
    DEF MarkValid, FlashOp, At, DriverInv, PlaceInv, TransferInv
  <2> QED
    BY <1>8, <2>2, <2>4, <2>5
<1> QED
  BY <1>2, <1>3, <1>4, <1>5, <1>6, <1>7, <1>8, StepFlash

\* Content has its version on one of the pages.
LEMMA NoVersion ==
    ASSUME TypeOK, FlashInv, \A p \in Page : ~HasVersion(p)
    PROVE  ~Alive
<1> DEFINE two == Two(pc, new, slot, VersionAddr)
<1>1. NotFound # Version
  BY VersionAssumption, AddrAssumption
<1>2. \A p \in Page : hdr[p] # RECEIVE_DATA
  BY OtherPage DEF FlashInv, PageInv
<1>3. \A p \in Page : Find(slot[p], VersionAddr) # Version
  BY DEF HasVersion
<1>4. two # Version
  BY <1>1, <1>3 DEF Two, TypeOK
<1>5. Recovered(VersionAddr) = Sight(hdr, slot, two, VersionAddr)
  BY RecoveredIsSight
<1> HIDE DEF two
<1>6. CASE \A p \in Page : hdr[p] = VALID_PAGE
  BY <1>4, <1>5, <1>6, SightTwo DEF Alive
<1>7. CASE \A p \in Page : hdr[p] # VALID_PAGE
  BY <1>1, <1>2, <1>5, <1>7, SightNone DEF Alive
<1>8. ASSUME NEW p \in Page, hdr[p] = VALID_PAGE, hdr[1 - p] # VALID_PAGE
      PROVE  ~Alive
  BY <1>2, <1>3, <1>5, <1>8, OtherPage, SightOne DEF Alive
<1> QED
  BY <1>6, <1>7, <1>8, OtherPage

\* EE_Init formats only pages without content.
LEMMA InitFormatDead ==
    ASSUME DriverInv, WholeInv, InitFormat, NEW p \in Page
    PROVE  ~HasVersion(p)
<1>1. /\ pc = "Init" /\ ~flashError /\ FlashInv /\ TypeOK
      /\ \A q \in Page : ~RepairByErase(q) /\ ~RepairByCopy(q)
  BY DEF InitFormat, At, DriverInv, StageInv
<1>2. 1 - p \in Page /\ 1 - (1 - p) = p
  BY OtherPage
<1>3. VersionAddr \in Addr /\ NotFound # Version
  BY TableType, VersionAssumption, AddrAssumption
<1>4. hdr[p] # RECEIVE_DATA
  BY <1>1, <1>2 DEF RepairByErase, RepairByCopy, FlashInv, PageInv
<1>5. hdr[p] \in {ERASED, Other, VALID_PAGE}
      /\ hdr[1 - p] \in {ERASED, Other, VALID_PAGE, RECEIVE_DATA}
  BY <1>1, <1>2, <1>4 DEF TypeOK, Header
<1>6. CASE hdr[p] = ERASED
  BY <1>1, <1>3, <1>6, FindBlank DEF FlashInv, PageInv, HasVersion
<1>7. CASE hdr[p] = Other
  BY <1>1, <1>3, <1>7, FindNone DEF FlashInv, PageInv, HasVersion
<1>8. CASE hdr[p] = VALID_PAGE
  <2>1. hdr[1 - p] # ERASED /\ hdr[1 - p] # RECEIVE_DATA
    BY <1>1, <1>2, <1>8 DEF RepairByErase, RepairByCopy
  <2>2. hdr[1 - p] # Other
    <3>1. SUFFICES ASSUME hdr[1 - p] = Other PROVE FALSE
      OBVIOUS
    <3>2. 1 - p = 1 /\ p = 0
      BY <1>1, <1>2, <1>8, <3>1, Statuses DEF FlashInv, PageInv, Page
    <3> QED
      BY <1>1, <1>2, <1>8, <3>1, <3>2 DEF RepairByCopy
  <2>3. TwoValidPages
    BY <1>5, <1>8, <2>1, <2>2, OtherPage DEF TwoValidPages
  <2> QED
    BY <1>1, <2>3 DEF WholeInv
<1> QED
  BY <1>5, <1>6, <1>7, <1>8

\* So does setup_FLASH when it has found another version, or none.
LEMMA CheckVersionDead ==
    ASSUME DriverInv, CheckVersion, ~flashError, pc' = "FormatErase0",
           NEW p \in Page
    PROVE  ~HasVersion(p)
<1>1. pc = "CheckVersion" /\ FlashInv
  BY DEF CheckVersion, At, DriverInv
<1>2. PICK q \in Page : Serving(q)
  BY <1>1 DEF DriverInv, PlaceInv, ServeInv
<1>3. 1 - q \in Page /\ hdr[q] = VALID_PAGE /\ hdr[1 - q] # VALID_PAGE
      /\ 1 - (1 - q) = q
  BY <1>2, OtherPage, Statuses DEF Serving
<1>4. EE_ReadVariable(VersionAddr) = Find(slot[q], VersionAddr)
  BY <1>3, ServedPage
<1>5. NotFound # Version /\ NO_VALID_PAGE # Version /\ VersionAddr \in Addr
  BY TableType, VersionAssumption, AddrAssumption
<1>6. ~HasVersion(q)
  BY <1>4, <1>5 DEF CheckVersion, HasVersion
<1>7. hdr[1 - q] = ERASED
  BY <1>1, <1>2, <1>3, <1>6, Statuses DEF Serving, FlashInv, PageInv
<1>8. ~HasVersion(1 - q)
  BY <1>1, <1>3, <1>5, <1>7, FindBlank DEF FlashInv, PageInv, HasVersion
<1> QED
  BY <1>6, <1>8, OtherPage

\* Which steps lead to a format, or stay in it.
LEMMA ToFormat ==
    ASSUME DriverInv, [Next]_vars, AtFormat', ~flashError'
    PROVE  \/ InitFormat
           \/ CheckVersion /\ pc' = "FormatErase0" /\ ~flashError
           \/ (FormatErase0 \/ FormatValid0) /\ AtFormat /\ ~flashError
           \/ UNCHANGED vars
<1> USE DEF AtFormat
<1>1. ASSUME NEW ok, Return(ok) PROVE FALSE
  BY <1>1 DEF Return
<1>2. ASSUME PowerOn \/ PowerLoss PROVE FALSE
  BY <1>2 DEF PowerOn, PowerLoss
<1>3. ASSUME NEW p \in Page, InitErase(p) \/ InitCopy(p) PROVE FALSE
  BY <1>3 DEF InitErase, InitCopy, Goto
<1>4. ASSUME NEW i \in 0..(NB_OF_VAR - 1), CopyVariable(i) PROVE FALSE
  BY <1>4 DEF CopyVariable, StartRecord, Goto
<1>5. ASSUME NEW a \in Addr, NEW d \in Data, EE_WriteVariable(a, d) PROVE FALSE
  BY <1>5 DEF EE_WriteVariable
<1>6. ASSUME WriteRecord \/ WriteFails \/ ProgramData \/ ProgramAddr PROVE FALSE
  BY <1>1, <1>6
  DEF WriteRecord, StartRecord, WriteFails, ProgramData, ProgramAddr, Goto
<1>7. ASSUME StartTransfer \/ MarkReceive \/ CopyFails \/ CopyDone PROVE FALSE
  BY <1>1, <1>7 DEF StartTransfer, MarkReceive, CopyFails, CopyDone, Goto
<1>8. ASSUME EraseOld \/ MarkValid PROVE FALSE
  BY <1>1, <1>8 DEF EraseOld, MarkValid, Goto
<1>9. ASSUME FlashFails \/ FormatErase1 PROVE FALSE
  BY <1>1, <1>9 DEF FlashFails, FormatErase1
<1>10. CASE FormatErase0 \/ FormatValid0
  BY <1>10 DEF FormatErase0, FormatValid0, FlashOp, At
<1>11. CASE CheckVersion
  <2>1. ~flashError
    BY <1>11 DEF CheckVersion, At
  <2>2. pc' \in {"Idle", "FormatErase0"}
    BY <1>11 DEF CheckVersion
  <2> QED
    BY <1>11, <2>1, <2>2
<1> QED
  BY <1>2, <1>3, <1>4, <1>5, <1>6, <1>7, <1>8, <1>9, <1>10, <1>11
  DEF Next, Driver, EE_Init, EE_Format, EE_VerifyPageFullWriteVariable,
      EE_PageTransfer

LEMMA StepWhole ==
    ASSUME DriverInv, WholeInv, [Next]_vars, ~Torn'
    PROVE  WholeInv'
<1>1. ASSUME TwoValidPages', NEW p \in Page, HasVersion(p)'
      PROVE  pc' = "EraseOld" \/ flashError'
  <2>1. CASE TwoValidPages /\ SameFlash
    <3>1. pc = "EraseOld" \/ flashError
      BY <1>1, <2>1 DEF WholeInv, HasVersion, SameFlash
    <3>2. ~PowerLoss
      BY <1>1 DEF Torn, PowerLoss
    <3>3. CASE flashError
      BY <3>2, <3>3, ErrorStays DEF DriverInv
    <3>4. CASE pc = "EraseOld" /\ ~flashError
      <4>1. FlashFails \/ EraseOld \/ UNCHANGED vars
        BY <3>2, <3>4
        DEF Next, Driver, EE_Init, EE_Format, EE_VerifyPageFullWriteVariable,
            EE_PageTransfer, PowerOn, InitErase, InitCopy, InitFormat,
            FormatErase0, FormatValid0, FormatErase1, CheckVersion,
            EE_WriteVariable, WriteRecord, StartTransfer, WriteFails,
            MarkReceive, ProgramData, ProgramAddr, CopyVariable, CopyFails,
            CopyDone, MarkValid, FlashOp, At
      <4>2. ~EraseOld
        <5>1. 1 - new \in Page
          BY OtherPage, Pages DEF DriverInv
        <5> QED
          BY <1>1, <5>1, Pages, EraseFacts, Statuses
          DEF EraseOld, TwoValidPages, DriverInv
      <4> QED
        BY <3>4, <4>1, <4>2 DEF FlashFails, vars, control
    <3> QED
      BY <3>1, <3>3, <3>4
  <2>2. CASE FormatValid0 /\ slot' = slot
    BY <1>1, <2>2
    DEF FormatValid0, FlashOp, At, WholeInv, AtFormat, HasVersion
  <2> QED
    BY <1>1, <2>1, <2>2, StillTwo
<1>2. ASSUME AtFormat', ~flashError', NEW p \in Page
      PROVE  ~HasVersion(p)'
  <2>1. CASE InitFormat
    <3>1. slot' = slot
      BY <2>1 DEF InitFormat, flash
    <3> QED
      BY <2>1, <3>1, InitFormatDead DEF HasVersion
  <2>2. CASE CheckVersion /\ pc' = "FormatErase0" /\ ~flashError
    <3>1. slot' = slot
      BY <2>2 DEF CheckVersion, flash
    <3> QED
      BY <2>2, <3>1, CheckVersionDead DEF HasVersion
  <2>3. CASE FormatErase0 /\ AtFormat /\ ~flashError
    <3>1. BlankPage(slot'[0]) /\ slot'[1] = slot[1]
      BY <2>3, EraseFacts DEF FormatErase0, DriverInv, Page
    <3>2. Find(slot'[0], VersionAddr) # Version
      BY <3>1, FindBlank, TableType, VersionAssumption, AddrAssumption
    <3> QED
      BY <2>3, <3>1, <3>2 DEF WholeInv, HasVersion, Page
  <2>4. CASE FormatValid0 /\ AtFormat /\ ~flashError
    <3>1. slot' = slot
      BY <2>4 DEF FormatValid0, ProgramHeader
    <3> QED
      BY <2>4, <3>1 DEF WholeInv, HasVersion
  <2>5. CASE UNCHANGED vars
    BY <1>2, <2>5 DEF vars, flash, control, WholeInv, HasVersion, AtFormat
  <2> QED
    BY <1>2, <2>1, <2>2, <2>3, <2>4, <2>5, ToFormat
<1> QED
  BY <1>1, <1>2 DEF WholeInv

\* Only the transfer of a running firmware makes a page receive.
LEMMA ReceiveFrom ==
    ASSUME DriverInv, [Next]_vars, NEW p \in Page, hdr'[p] = RECEIVE_DATA
    PROVE  hdr[p] = RECEIVE_DATA \/ stage' = "Running"
<1>1. CASE SameFlash
  BY <1>1 DEF SameFlash
<1>2. CASE FormatErase0 \/ FormatErase1
  BY <1>2, EraseFacts, OtherPage, Statuses
  DEF FormatErase0, FormatErase1, DriverInv, Page
<1>3. CASE FormatValid0
  <2>1. hdr'[0] = VALID_PAGE /\ hdr'[1] = hdr[1]
    BY <1>3, HeaderFacts DEF FormatValid0, DriverInv, Burn, Page
  <2> QED
    BY <2>1, Statuses DEF Page
<1>4. CASE MarkReceive
  BY <1>4
  DEF MarkReceive, FlashOp, At, Goto, DriverInv, StageInv, PlaceInv, WriteInv
<1>5. CASE ProgramData \/ ProgramAddr
  BY <1>5 DEF ProgramData, ProgramAddr
<1>6. PICK n \in Page : n = new
  BY Pages DEF DriverInv
<1>7. CASE EraseOld
  <2>1. hdr'[1 - n] = ERASED /\ hdr'[n] = hdr[n]
    BY <1>6, <1>7, EraseFacts, OtherPage DEF EraseOld, DriverInv
  <2> QED
    BY <1>6, <2>1, OtherPage, Statuses
<1>8. CASE MarkValid
  <2>1. hdr'[n] = VALID_PAGE /\ hdr'[1 - n] = hdr[1 - n]
    BY <1>6, <1>8, HeaderFacts DEF MarkValid, DriverInv, Burn
  <2> QED
    BY <1>6, <2>1, OtherPage, Statuses
<1> QED
  BY <1>1, <1>2, <1>3, <1>4, <1>5, <1>7, <1>8, StepFlash

\* Only a reset leads back to EE_Init.
LEMMA StageStep ==
    ASSUME [Next]_vars
    PROVE  \/ PowerOn \/ PowerLoss \/ stage' = stage
           \/ stage' \in {"EE_Format", "WriteVersion", "Running"}
<1>1. ASSUME NEW ok, Return(ok)
      PROVE  stage' = stage \/ stage' \in {"WriteVersion", "Running"}
  BY <1>1 DEF Return
<1>2. ASSUME NEW p \in Page, InitErase(p) \/ InitCopy(p)
      PROVE  stage' = stage
  BY <1>2 DEF InitErase, InitCopy, Goto
<1>3. ASSUME NEW i \in 0..(NB_OF_VAR - 1), CopyVariable(i)
      PROVE  stage' = stage
  BY <1>3 DEF CopyVariable, StartRecord, Goto
<1>4. ASSUME NEW a \in Addr, NEW d \in Data, EE_WriteVariable(a, d)
      PROVE  stage' = stage
  BY <1>4 DEF EE_WriteVariable
<1>5. CASE FlashFails \/ FormatErase1 \/ WriteFails \/ CopyFails
  BY <1>1, <1>5 DEF FlashFails, FormatErase1, WriteFails, CopyFails
<1>6. CASE EraseOld \/ MarkValid \/ ProgramAddr
  BY <1>1, <1>6 DEF EraseOld, MarkValid, ProgramAddr, Goto
<1>7. CASE InitFormat \/ FormatErase0 \/ FormatValid0 \/ WriteRecord
  BY <1>7
  DEF InitFormat, FormatErase0, FormatValid0, WriteRecord, StartRecord, Goto
<1>8. CASE StartTransfer \/ MarkReceive \/ ProgramData \/ CopyDone
  BY <1>8 DEF StartTransfer, MarkReceive, ProgramData, CopyDone, Goto
<1>9. CASE CheckVersion \/ UNCHANGED vars
  BY <1>9 DEF CheckVersion, vars, control
<1> QED
  BY <1>2, <1>3, <1>4, <1>5, <1>6, <1>7, <1>8, <1>9
  DEF Next, Driver, EE_Init, EE_Format, EE_VerifyPageFullWriteVariable,
      EE_PageTransfer

\* One power loss cannot leave the pages torn.
LEMMA StepLoss ==
    ASSUME MaxPowerLosses <= 1, DriverInv, WholeInv, LossInv, [Next]_vars
    PROVE  LossInv' /\ ~Torn'
<1>1. powerLosses \in Nat /\ MaxPowerLosses \in Nat
  BY SizeAssumption DEF DriverInv, TypeOK
<1>2. PowerLoss \/ powerLosses' = powerLosses
  BY ErrorStays DEF DriverInv
<1>3. PowerLoss => powerLosses = 0 /\ powerLosses' = 1
  BY <1>1 DEF PowerLoss
<1>4. ASSUME TwoValidPages', NEW p \in Page, HasVersion(p)'
      PROVE  powerLosses' > 0
  <2>1. CASE TwoValidPages /\ SameFlash
    BY <1>1, <1>2, <1>3, <1>4, <2>1 DEF LossInv, HasVersion, SameFlash
  <2>2. CASE FormatValid0 /\ slot' = slot
    BY <1>4, <2>2 DEF FormatValid0, FlashOp, At, WholeInv, AtFormat, HasVersion
  <2>3. CASE /\ MarkValid /\ slot' = slot /\ pc' = "EraseOld"
             /\ routine = "EE_Init" /\ (Filling \/ Foreign)
    <3>1. CASE Foreign
      <4>1. hdr[0] = VALID_PAGE /\ hdr[1] = Other
        BY <3>1 DEF Foreign
      <4>2. /\ \A s \in Slot : slot[1][s].addr # VersionAddr
            /\ BlankPage(slot[0])
        BY <4>1, Statuses DEF DriverInv, FlashInv, PageInv, Page
      <4>3. \A q \in Page : ~HasVersion(q)
        BY <4>2, FindNone, FindBlank, TableType, VersionAssumption,
           AddrAssumption
        DEF HasVersion, Page
      <4> QED
        BY <1>4, <2>3, <4>3 DEF HasVersion
    <3>2. CASE Filling
      <4>1. stage = "EE_Init" /\ hdr[new] = RECEIVE_DATA /\ new \in Page
        BY <2>3, <3>2, Pages DEF Filling, DriverInv, StageInv
      <4>2. powerLosses # 0
        BY <4>1 DEF LossInv
      <4> QED
        BY <1>1, <1>2, <1>3, <4>2
    <3> QED
      BY <2>3, <3>1, <3>2
  <2> QED
    BY <1>4, <2>1, <2>2, <2>3, StillTwo
<1>5. ASSUME powerLosses' = 0, stage' \in {"Off", "EE_Init"},
             NEW p \in Page, hdr'[p] = RECEIVE_DATA
      PROVE  FALSE
  <2>1. hdr[p] = RECEIVE_DATA
    BY <1>5, ReceiveFrom
  <2>2. powerLosses = 0 /\ ~PowerLoss
    BY <1>2, <1>3, <1>5
  <2>3. stage \notin {"Off", "EE_Init"}
    BY <2>1, <2>2, <1>5 DEF LossInv
  <2>4. pc # "Off"
    BY <2>3 DEF DriverInv, StageInv
  <2> QED
    BY <1>5, <2>2, <2>3, <2>4, StageStep DEF PowerOn, DriverInv
<1>6. ~Torn'
  <2>1. SUFFICES ASSUME Torn' PROVE FALSE
    OBVIOUS
  <2>2. CASE PowerLoss
    <3>1. SameFlash
      BY <2>2 DEF PowerLoss, flash, SameFlash
    <3>2. powerLosses > 0
      BY <2>1, <3>1 DEF Torn, LossInv, TwoValidPages, HasVersion, SameFlash
    <3> QED
      BY <1>1, <1>3, <2>2, <3>2
  <2>3. CASE UNCHANGED vars
    <3>1. pc = "Off" /\ TwoValidPages /\ \E p \in Page : HasVersion(p)
      BY <2>1, <2>3 DEF Torn, vars, flash, control, TwoValidPages, HasVersion
    <3> QED
      BY <3>1 DEF WholeInv, DriverInv, StageInv
  <2> QED
    BY <2>1, <2>2, <2>3, ErrorStays DEF Torn, DriverInv
<1> QED
  BY <1>4, <1>5, <1>6 DEF LossInv

\* What may be read back only becomes more, until a write is acknowledged.
Grows == \A a \in Listed : promised[a] \subseteq promised'[a]

LEMMA ReturnPromise ==
    ASSUME NEW ok, Return(ok), TypeOK
    PROVE  /\ ~(Writing /\ ok) \/ stage = "EE_Format" => Grows
           /\ stage # "EE_Format" /\ Writing /\ ok =>
                 promised' = [promised EXCEPT ![call.addr] = {call.data}]
           /\ CallPromise'
<1>1. promised \in [Addr -> SUBSET (Data \cup {NotFound})] /\ VersionAddr \in Addr
  BY TableType DEF TypeOK
<1>2. CASE stage = "EE_Format"
  <2>1. promised' = [promised EXCEPT ![VersionAddr] = @ \cup {Version}]
        /\ call' = NoCall
    BY <1>2 DEF Return, ForgetLocals
  <2> QED
    BY <1>1, <1>2, <2>1 DEF Grows, CallPromise, NoCall
<1>3. CASE stage # "EE_Format"
  BY <1>3 DEF Return, Grows, CallPromise, Writing
<1> QED
  BY <1>2, <1>3

LEMMA PromisedStep ==
    ASSUME DriverInv, CallPromise, [Next]_vars
    PROVE  /\ \/ Grows
              \/ (ProgramAddr \/ MarkValid) /\ Writing /\ Return(TRUE)
           /\ CallPromise'
<1> TypeOK /\ StageInv
  BY DEF DriverInv
<1> DEFINE Goal == Grows /\ CallPromise'
<1>1. ASSUME promised' = promised, call' = call, Writing' => Writing
      PROVE  Goal
  BY <1>1 DEF Grows, CallPromise
<1>2. ASSUME promised' = promised, ~Writing'
      PROVE  Goal
  BY <1>2 DEF Grows, CallPromise
<1>3. CASE PowerOn \/ PowerLoss
  BY <1>2, <1>3 DEF PowerOn, PowerLoss, history, Writing
<1>4. CASE FlashFails \/ WriteFails \/ CopyFails
  BY <1>4, ReturnPromise DEF FlashFails, WriteFails, CopyFails
<1>5. ASSUME NEW p \in Page, InitErase(p) \/ InitCopy(p)
      PROVE  Goal
  BY <1>1, <1>5 DEF InitErase, InitCopy, Goto, Writing
<1>6. ASSUME NEW i \in 0..(NB_OF_VAR - 1), CopyVariable(i)
      PROVE  Goal
  BY <1>1, <1>6 DEF CopyVariable, StartRecord, Goto, Writing
<1>7. ASSUME NEW a \in Addr, NEW d \in Data, EE_WriteVariable(a, d)
      PROVE  Goal
  BY <1>7 DEF EE_WriteVariable, Grows, CallPromise, TypeOK
<1>8. CASE InitFormat \/ FormatErase0 \/ FormatValid0
  BY <1>1, <1>8
  DEF InitFormat, FormatErase0, FormatValid0, Goto, locals, Writing
<1>9. CASE FormatErase1
  <2>1. ~Writing
    BY <1>9 DEF FormatErase1, FlashOp, At, StageInv, Writing
  <2> QED
    BY <1>9, <2>1, ReturnPromise DEF FormatErase1
<1>10. CASE CheckVersion
  BY <1>2, <1>10 DEF CheckVersion, Writing
<1>11. CASE WriteRecord
  BY <1>1, <1>11 DEF WriteRecord, StartRecord, Goto, Writing
<1>12. CASE StartTransfer
  BY <1>1, <1>12 DEF StartTransfer, Writing
<1>13. CASE MarkReceive \/ ProgramData \/ CopyDone
  BY <1>1, <1>13 DEF MarkReceive, ProgramData, CopyDone, Goto, locals, Writing
<1>14. CASE ProgramAddr
  <2>1. CASE Goto("Copy") /\ UNCHANGED locals
    BY <1>1, <2>1 DEF Goto, locals, Writing
  <2>2. CASE routine = "EE_WriteVariable" /\ Return(TRUE)
    BY <1>14, <2>2, ReturnPromise DEF Writing
  <2> QED
    BY <1>14, <2>1, <2>2 DEF ProgramAddr
<1>15. CASE EraseOld
  <2>1. CASE Goto("MarkValid") /\ UNCHANGED locals
    BY <1>1, <2>1 DEF Goto, locals, Writing
  <2>2. CASE hdr[new] = VALID_PAGE /\ Return(TRUE)
    <3>1. ~Writing
      BY <1>15, <2>2, Statuses
      DEF EraseOld, FlashOp, At, DriverInv, PlaceInv, TransferInv, Filling,
          Writing
    <3> QED
      BY <2>2, <3>1, ReturnPromise
  <2> QED
    BY <1>15, <2>1, <2>2 DEF EraseOld
<1>16. CASE MarkValid
  <2>1. CASE Goto("EraseOld") /\ UNCHANGED locals
    BY <1>1, <2>1 DEF Goto, locals, Writing
  <2>2. CASE Return(TRUE)
    BY <1>16, <2>2, ReturnPromise
  <2> QED
    BY <1>16, <2>1, <2>2 DEF MarkValid
<1>17. CASE UNCHANGED vars
  BY <1>1, <1>17 DEF vars, history, locals, control, Writing
<1> QED
  BY <1>3, <1>4, <1>5, <1>6, <1>7, <1>8, <1>9, <1>10, <1>11, <1>12, <1>13,
     <1>14, <1>15, <1>16, <1>17
  DEF Next, Driver, EE_Init, EE_Format, EE_VerifyPageFullWriteVariable,
      EE_PageTransfer

LEMMA AliveSame ==
    ASSUME SameContent PROVE Alive' = Alive
  BY ListedType, TableType DEF SameContent, Alive

\* An operation on a page that is not, and does not become, valid.
LEMMA PromiseGrows ==
    ASSUME PromiseInv, SameContent, Grows, ~flashError,
           \A p \in Page : hdr'[p] = VALID_PAGE =>
              /\ hdr[p] = VALID_PAGE
              /\ \A a \in Listed : Find(slot'[p], a) = Find(slot[p], a)
    PROVE  AlivePromise' /\ DeadPromise'
  BY ListedType, AliveSame
  DEF PromiseInv, AlivePromise, DeadPromise, SameContent, Grows

LEMMA PromiseSame ==
    ASSUME PromiseInv, SameContent, Grows, SameFlash, ~Torn',
           flashError => flashError' \/ pc' = "Off"
    PROVE  AlivePromise' /\ DeadPromise'
<1>1. AlivePromise'
  BY ListedType, AliveSame
  DEF PromiseInv, AlivePromise, SameContent, Grows, SameFlash
<1>2. ASSUME \A a \in Listed : NotFound \in promised[a]
      PROVE  DeadPromise'
  BY ListedType, <1>2 DEF DeadPromise, Grows
<1>3. ASSUME /\ flashError /\ TwoValidPages
             /\ \E p \in Page : HasVersion(p)
             /\ \A p \in Page, a \in Listed : Find(slot[p], a) \in promised[a]
      PROVE  DeadPromise'
  <2>1. TwoValidPages' /\ \E p \in Page : HasVersion(p)'
    BY <1>3 DEF SameFlash, TwoValidPages, HasVersion
  <2>2. flashError'
    BY <1>3, <2>1 DEF Torn
  <2>3. \A p \in Page, a \in Listed : Find(slot'[p], a) \in promised'[a]
    BY ListedType, <1>3 DEF SameFlash, Grows
  <2> QED
    BY <2>1, <2>2, <2>3 DEF DeadPromise
<1>4. ASSUME Alive PROVE DeadPromise'
  BY <1>4, AliveSame DEF DeadPromise
<1> QED
  BY <1>1, <1>2, <1>3, <1>4 DEF PromiseInv, DeadPromise

\* EE_Init stops between marking the new page valid and erasing the old one.
LEMMA PromiseTwo ==
    ASSUME DriverInv, PromiseInv, Grows, ~Torn',
           PowerLoss \/ FlashFails, TwoValidPages, pc = "EraseOld"
    PROVE  AlivePromise' /\ DeadPromise'
<1>1. PICK n \in Page : n = new
  BY Pages DEF DriverInv
<1>2. SameFlash /\ pc' # "EraseOld" /\ (pc' = "Off" \/ flashError')
  BY DEF PowerLoss, FlashFails, Return, flash, SameFlash
<1>3. TwoValidPages' /\ \A p \in Page : HasVersion(p)' = HasVersion(p)
  BY <1>2 DEF SameFlash, TwoValidPages, HasVersion
<1>4. \A p \in Page : hdr[p] = VALID_PAGE /\ hdr'[p] = VALID_PAGE
  BY <1>3 DEF TwoValidPages
<1>5. VersionAddr \in Addr /\ NotFound # Version
  BY TableType, VersionAssumption, AddrAssumption
<1>6. ~Alive'
  BY <1>2, <1>4, <1>5, SightTwo, RecoveredIsSight DEF Alive, Two
<1>7. CASE Alive
  <2>1. Find(slot[n], VersionAddr) = Version
    BY <1>1, <1>4, <1>7, SightTwo, RecoveredIsSight DEF Alive, Two
  <2>2. flashError'
    BY <1>2, <1>3, <2>1 DEF Torn, HasVersion
  <2>3. \A p \in Page, a \in Listed : Find(slot'[p], a) \in promised'[a]
    BY ListedType, <1>2, <1>4, <1>7
    DEF PromiseInv, AlivePromise, Grows, SameFlash
  <2> QED
    BY <1>3, <1>6, <2>1, <2>2, <2>3 DEF AlivePromise, DeadPromise, HasVersion
<1>8. CASE \A a \in Listed : NotFound \in promised[a]
  BY ListedType, <1>6, <1>8 DEF AlivePromise, DeadPromise, Grows
<1>9. CASE /\ flashError
           /\ \E p \in Page : HasVersion(p)
           /\ \A p \in Page, a \in Listed : Find(slot[p], a) \in promised[a]
  <2>1. flashError'
    BY <1>2, <1>3, <1>9 DEF Torn
  <2>2. \A p \in Page, a \in Listed : Find(slot'[p], a) \in promised'[a]
    BY ListedType, <1>2, <1>9 DEF Grows, SameFlash
  <2> QED
    BY <1>3, <1>6, <1>9, <2>1, <2>2 DEF AlivePromise, DeadPromise
<1> QED
  BY <1>7, <1>8, <1>9 DEF PromiseInv, DeadPromise

\* A format begins and ends without content.
LEMMA PromiseFormat ==
    ASSUME DriverInv, WholeInv, PromiseInv, Grows,
           FormatErase0 \/ FormatValid0 \/ FormatErase1
    PROVE  AlivePromise' /\ DeadPromise'
<1>1. TypeOK /\ FlashInv /\ PlaceInv /\ AtFormat /\ ~flashError
  BY DEF DriverInv, FormatErase0, FormatValid0, FormatErase1, FlashOp, At,
         AtFormat
<1>2. TypeOK' /\ FlashInv'
  BY StepType, StepFlash
  DEF Next, Driver, EE_Format, DriverInv
<1>3. \A p \in Page : ~HasVersion(p)
  BY <1>1 DEF WholeInv
<1>4. \A a \in Listed : NotFound \in promised[a]
  BY <1>1, <1>3, NoVersion DEF PromiseInv, DeadPromise
<1>5. \A p \in Page : slot'[p] = slot[p] \/ BlankPage(slot'[p])
  <2>1. CASE FormatErase0
    BY <1>1, <2>1, EraseFacts DEF FormatErase0, Page
  <2>2. CASE FormatValid0
    BY <2>2 DEF FormatValid0, ProgramHeader
  <2>3. CASE FormatErase1
    BY <1>1, <2>3, EraseFacts DEF FormatErase1, Page
  <2> QED
    BY <2>1, <2>2, <2>3
<1>6. \A p \in Page : ~HasVersion(p)'
  BY <1>3, <1>5, FindBlank, TableType, VersionAssumption, AddrAssumption
  DEF HasVersion
<1>7. ~Alive'
  <2>1. TypeOK' /\ FlashInv' /\ (\A p \in Page : ~HasVersion(p))' => ~Alive'
    BY NoVersion, PTL
  <2> QED
    BY <1>2, <1>6, <2>1
<1> QED
  BY ListedType, <1>4, <1>7 DEF AlivePromise, DeadPromise, Grows

\* The write happens: from here on its value is what is read back.
LEMMA PromiseWrite ==
    ASSUME DriverInv, PromiseInv, ProgramAddr,
           routine = "EE_WriteVariable" \/ varIdx = 0
    PROVE  AlivePromise' /\ DeadPromise'
<1>1. /\ AtRecord /\ ~flashError /\ TypeOK /\ RecordInv /\ WriteInv /\ StageInv
      /\ Writing /\ CallContent
  BY ContentProgramAddr
  DEF ProgramAddr, FlashOp, At, AtRecord, DriverInv, PlaceInv
<1>2. PICK p \in Page, n \in Slot :
               /\ p = dst.page /\ n = dst.slot
               /\ hdr' = hdr /\ slot'[1 - p] = slot[1 - p]
               /\ \A a \in Listed : Find(slot'[p], a) =
                     IF a = cur.addr THEN cur.data ELSE Find(slot[p], a)
  BY ListedType, AddrEffect
<1>3. 1 - p \in Page /\ 1 - (1 - p) = p
  BY OtherPage
<1>4. /\ promised \in [Addr -> SUBSET (Data \cup {NotFound})]
      /\ VersionAddr \in Addr /\ call.addr \in Addr /\ NotFound # Version
  BY <1>1, TableType, VersionAssumption, AddrAssumption DEF TypeOK
<1>5. CASE routine = "EE_WriteVariable"
  <2>1. /\ hdr[p] = VALID_PAGE /\ hdr[1 - p] = ERASED /\ cur = call
        /\ stage = "Running" => HasVersion(p)
    BY <1>1, <1>2, <1>5 DEF RecordInv, DirectRecord
  <2>2. \A a : Recovered(a) = Find(slot[p], a)
    BY <2>1, SightOne, RecoveredIsSight, Statuses
  <2>3. \A a : Recovered(a)' = Find(slot'[p], a)
    <3>1. hdr'[p] = VALID_PAGE /\ hdr'[1 - p] = ERASED
      BY <1>2, <2>1
    <3> QED
      BY <3>1, SightOne, RecoveredIsSight, Statuses
  <2>4. stage \in {"WriteVersion", "Running"} /\ Return(TRUE)
    BY <1>1, <1>5 DEF StageInv, Writing, ProgramAddr
  <2>5. promised' = [promised EXCEPT ![call.addr] = {call.data}]
    BY <1>1, <2>4, ReturnPromise
  <2>6. \A a \in Listed : a # call.addr => Recovered(a) \in promised[a]
    <3>1. CASE stage = "Running"
      BY <2>1, <2>2, <2>4, <3>1
      DEF HasVersion, Alive, PromiseInv, AlivePromise
    <3>2. CASE stage = "WriteVersion"
      <4>1. \A a \in Listed : Recovered(a) = NotFound
        BY <1>1, <3>2 DEF PromiseInv, NewPromise
      <4>2. ~Alive
        BY ListedType, <1>4, <4>1 DEF Alive
      <4> QED
        BY <1>1, <4>1, <4>2 DEF PromiseInv, DeadPromise
    <3> QED
      BY <2>4, <3>1, <3>2
  <2>7. Alive'
    <3>1. CASE stage = "Running"
      BY ListedType, <1>1, <1>4, <2>1, <2>2, <3>1
      DEF HasVersion, Alive, CallContent, StageInv
    <3>2. CASE stage = "WriteVersion"
      BY ListedType, <1>1, <1>4, <1>5, <3>2
      DEF Alive, CallContent, StageInv, NoCall
    <3> QED
      BY <2>4, <3>1, <3>2
  <2>8. \A a \in Listed : Recovered(a)' \in promised'[a]
    BY <1>1, <1>4, <2>5, <2>6 DEF CallContent
  <2>9. \A q \in Page : hdr'[q] = VALID_PAGE => q = p
    BY <1>2, <1>3, <2>1, OtherPage, Statuses
  <2> QED
    BY <2>3, <2>7, <2>8, <2>9 DEF AlivePromise, DeadPromise
<1>6. CASE routine # "EE_WriteVariable" /\ varIdx = 0
  <2>1. hdr[p] = RECEIVE_DATA /\ routine = "EE_PageTransfer"
    BY <1>1, <1>2, <1>6 DEF RecordInv, TransferRecord, Filling
  <2>2. promised' = promised
    BY <1>6 DEF ProgramAddr, Goto
  <2>3. call.addr # VersionAddr
    BY <1>1, <2>1 DEF WriteInv, StageInv, Writing
  <2>4. Alive' = Alive
    BY ListedType, <1>1, <1>4, <2>3 DEF CallContent, Alive
  <2>5. \A q \in Page : hdr'[q] = VALID_PAGE => q = 1 - p /\ hdr[q] = VALID_PAGE
    BY <1>2, <2>1, OtherPage, Statuses
  <2>6. \A a \in Listed : Alive => Recovered(a)' \in promised[a]
    BY <1>1 DEF CallContent, PromiseInv, AlivePromise, CallPromise
  <2> QED
    BY <1>1, <1>2, <2>2, <2>4, <2>5, <2>6
    DEF PromiseInv, AlivePromise, DeadPromise
<1> QED
  BY <1>5, <1>6

\* Records copied, pages erased or made to receive: what is valid stays as it is.
LEMMA PromiseCopy ==
    ASSUME DriverInv, PromiseInv, Grows,
           \/ MarkReceive \/ ProgramData \/ EraseOld
           \/ ProgramAddr /\ routine # "EE_WriteVariable" /\ varIdx # 0
    PROVE  AlivePromise' /\ DeadPromise'
<1>1. ~flashError /\ TypeOK
  BY DEF MarkReceive, ProgramData, EraseOld, ProgramAddr, FlashOp, DriverInv
<1>2. PICK n \in Page : n = new
  BY <1>1, Pages
<1>3. 1 - n \in Page /\ \A q \in Page : q = n \/ q = 1 - n
  BY OtherPage
<1>4. CASE MarkReceive
  <2>1. hdr'[n] = RECEIVE_DATA /\ slot' = slot /\ hdr'[1 - n] = hdr[1 - n]
    BY <1>1, <1>2, <1>4, FlashInvMarkReceive, HeaderFacts DEF MarkReceive
  <2> QED
    BY <1>1, <1>3, <1>4, <2>1, ContentMarkReceive, PromiseGrows, Statuses
<1>5. CASE ProgramData
  <2>1. hdr' = hdr
    BY <1>5 DEF ProgramData
  <2> QED
    BY <1>1, <1>5, <2>1, ListedType, ContentProgramData, FlashInvProgramData,
       PromiseGrows
<1>6. CASE EraseOld
  <2>1. hdr'[1 - n] = ERASED /\ hdr'[n] = hdr[n] /\ slot'[n] = slot[n]
    BY <1>1, <1>2, <1>3, <1>6, OtherPage, EraseFacts DEF EraseOld
  <2> QED
    BY <1>1, <1>3, <1>6, <2>1, ContentEraseOld, PromiseGrows, Statuses
<1>7. CASE ProgramAddr /\ routine # "EE_WriteVariable" /\ varIdx # 0
  <2>1. PICK p \in Page :
           p = dst.page /\ hdr' = hdr /\ slot'[1 - p] = slot[1 - p]
    BY <1>7, AddrEffect
  <2>2. hdr[p] = RECEIVE_DATA
    BY <1>1, <1>7, <2>1
    DEF ProgramAddr, At, FlashOp, DriverInv, PlaceInv, RecordInv, AtRecord,
        TransferRecord, Filling
  <2>3. \A q \in Page : hdr'[q] = VALID_PAGE => q = 1 - p
    BY <2>1, <2>2, OtherPage, Statuses
  <2> QED
    BY <1>1, <1>7, <2>1, <2>3, ContentProgramAddr, PromiseGrows
<1> QED
  BY <1>4, <1>5, <1>6, <1>7

\* The new page becomes valid; a transfer acknowledges its write.
LEMMA PromiseMarkValid ==
    ASSUME DriverInv, PromiseInv, MarkValid
    PROVE  AlivePromise' /\ DeadPromise'
<1>1. ~flashError /\ TypeOK /\ FlashInv /\ TransferInv /\ WriteInv /\ StageInv
      /\ pc = "MarkValid"
  BY DEF MarkValid, FlashOp, At, DriverInv, PlaceInv
<1>2. PICK n \in Page : n = new
  BY <1>1, Pages
<1>3. 1 - n \in Page /\ 1 - (1 - n) = n /\ \A q \in Page : q = n \/ q = 1 - n
  BY OtherPage
<1>4. hdr'[n] = VALID_PAGE /\ hdr'[1 - n] = hdr[1 - n] /\ slot' = slot
  BY <1>1, <1>2, <1>3, HeaderFacts DEF MarkValid, Burn
<1>5. CASE Foreign /\ ~Alive /\ ~Alive'
  <2>1. hdr[1 - n] = VALID_PAGE
    BY <1>2, <1>5 DEF Foreign, Page
  <2>2. promised' = promised
    BY <1>2, <2>1, Statuses DEF MarkValid, Goto
  <2> QED
    BY <1>1, <1>5, <2>2 DEF PromiseInv, AlivePromise, DeadPromise
<1>6. CASE SameContent /\ hdr[1 - n] = ERASED
  <2>1. hdr[n] = RECEIVE_DATA /\ HasVersion(n)
    BY <1>1, <1>2, <1>6, Statuses
    DEF TransferInv, Filling, Foreign, FlashInv, PageInv, Page
  <2>2. \A a : Recovered(a) = Find(slot[n], a)
    BY <1>6, <2>1, SightReceive, RecoveredIsSight
  <2>3. Alive /\ Alive'
    BY <1>6, <2>1, <2>2, AliveSame DEF HasVersion, Alive
  <2>4. Return(TRUE) /\ stage # "EE_Format"
    BY <1>1, <1>2, <1>6 DEF MarkValid, StageInv, Writing
  <2>5. \A a \in Listed : Recovered(a) \in promised'[a]
    <3>1. CASE Writing
      <4>1. promised' = [promised EXCEPT ![call.addr] = {call.data}]
        BY <1>1, <2>4, <3>1, ReturnPromise
      <4>2. Recovered(call.addr) = call.data
        BY <1>1, <1>2, <1>6, <2>2, <3>1, Statuses
        DEF TransferInv, Filling, Foreign, StageInv, Writing, Page
      <4> QED
        BY <1>1, <2>3, <4>1, <4>2 DEF TypeOK, PromiseInv, AlivePromise
    <3>2. CASE ~Writing
      BY ListedType, <1>1, <2>3, <2>4, <3>2, ReturnPromise
      DEF Grows, PromiseInv, AlivePromise
    <3> QED
      BY <3>1, <3>2
  <2>6. \A q \in Page : hdr'[q] = VALID_PAGE => q = n
    BY <1>3, <1>4, <1>6, Statuses
  <2> QED
    BY <1>4, <1>6, <2>2, <2>3, <2>5, <2>6
    DEF AlivePromise, DeadPromise, SameContent
<1>7. CASE SameContent /\ hdr[1 - n] # ERASED
  <2>1. promised' = promised /\ pc' = "EraseOld" /\ new' = new
    BY <1>2, <1>7 DEF MarkValid, Goto, locals
  <2>2. hdr[1 - n] = VALID_PAGE
    BY <1>1, <1>2, <1>7 DEF TransferInv, Filling, Foreign, Page
  <2>3. \A a : Recovered(a)' = Find(slot[n], a)
    BY <1>2, <1>3, <1>4, <2>1, <2>2, SightTwo, RecoveredIsSight DEF Two
  <2>4. Alive' = Alive
    BY <1>7, AliveSame
  <2>5. ASSUME Alive, NEW a \in Listed, NEW q \in Page
        PROVE  Find(slot'[q], a) \in promised[a]
    <3>1. Find(slot[n], a) \in promised[a]
      BY <1>7, <2>3, <2>5 DEF SameContent, PromiseInv, AlivePromise
    <3>2. Find(slot[1 - n], a) \in promised[a]
      BY <1>3, <2>2, <2>5 DEF PromiseInv, AlivePromise
    <3> QED
      BY <1>3, <1>4, <3>1, <3>2
  <2> QED
    BY <1>1, <1>7, <2>1, <2>4, <2>5
    DEF SameContent, PromiseInv, AlivePromise, DeadPromise
<1> QED
  BY <1>5, <1>6, <1>7, ContentMarkValid

\* The version is written after a format, and after nothing else.
LEMMA NewStage ==
    ASSUME DriverInv, [Next]_vars, stage # "WriteVersion",
           stage' = "WriteVersion"
    PROVE  FormatErase1 \/ FlashFails
<1> TypeOK /\ StageInv
  BY DEF DriverInv
<1>1. ASSUME NEW ok, Return(ok) PROVE stage = "EE_Format"
  BY <1>1 DEF Return
<1>2. ASSUME PowerOn \/ PowerLoss \/ CheckVersion \/ UNCHANGED vars
      PROVE  FALSE
  BY <1>2 DEF PowerOn, PowerLoss, CheckVersion, vars, control
<1>3. ASSUME NEW p \in Page, InitErase(p) \/ InitCopy(p)
      PROVE  FALSE
  BY <1>3 DEF InitErase, InitCopy, Goto
<1>4. ASSUME NEW i \in 0..(NB_OF_VAR - 1), CopyVariable(i)
      PROVE  FALSE
  BY <1>4 DEF CopyVariable, StartRecord, Goto
<1>5. ASSUME NEW a \in Addr, NEW d \in Data, EE_WriteVariable(a, d)
      PROVE  FALSE
  BY <1>5 DEF EE_WriteVariable
<1>6. ASSUME InitFormat \/ FormatErase0 \/ FormatValid0 \/ WriteRecord
      PROVE  FALSE
  BY <1>6
  DEF InitFormat, FormatErase0, FormatValid0, WriteRecord, StartRecord, Goto
<1>7. ASSUME StartTransfer \/ MarkReceive \/ ProgramData \/ CopyDone
      PROVE  FALSE
  BY <1>7 DEF StartTransfer, MarkReceive, ProgramData, CopyDone, Goto
<1>8. ASSUME WriteFails \/ CopyFails PROVE FALSE
  BY <1>1, <1>8 DEF WriteFails, CopyFails, At, StageInv, Writing
<1>9. ASSUME EraseOld \/ MarkValid \/ ProgramAddr PROVE FALSE
  BY <1>1, <1>9
  DEF EraseOld, MarkValid, ProgramAddr, Goto, FlashOp, At, StageInv, Writing
<1> QED
  BY <1>2, <1>3, <1>4, <1>5, <1>6, <1>7, <1>8, <1>9
  DEF Next, Driver, EE_Init, EE_Format, EE_VerifyPageFullWriteVariable,
      EE_PageTransfer

\* A format leaves no variable behind.
LEMMA StepNew ==
    ASSUME DriverInv, NewPromise, [Next]_vars
    PROVE  NewPromise'
<1> SUFFICES ASSUME stage' = "WriteVersion", ~flashError', NEW a \in Listed
             PROVE  Recovered(a)' = NotFound
  BY DEF NewPromise
<1> TypeOK /\ StageInv
  BY DEF DriverInv
<1>1. ~PowerLoss /\ ~PowerOn /\ ~FlashFails
  BY DEF PowerLoss, PowerOn, FlashFails
<1>2. ~flashError
  BY <1>1, ErrorStays
<1>3. CASE stage = "WriteVersion"
  <2>1. Recovered(a) = NotFound
    BY <1>2, <1>3 DEF NewPromise
  <2>2. CASE ProgramAddr /\ Writing /\ CallContent
    <3>1. CASE routine = "EE_WriteVariable"
      BY <1>3, <2>2, <3>1 DEF ProgramAddr, Return
    <3>2. CASE routine = "EE_PageTransfer"
      BY <1>2, <1>3, <3>2 DEF DriverInv, PlaceInv, WriteInv
    <3> QED
      BY <2>2, <3>1, <3>2 DEF Writing
  <2>3. ASSUME MarkValid, ~SameContent PROVE FALSE
    <3>1. routine = "EE_PageTransfer"
      BY <1>3, <2>3 DEF MarkValid, FlashOp, At, StageInv
    <3> QED
      BY <1>2, <1>3, <3>1 DEF DriverInv, PlaceInv, WriteInv
  <2>4. ASSUME FormatErase0 \/ FormatValid0 \/ FormatErase1 PROVE FALSE
    BY <1>3, <2>4
    DEF FormatErase0, FormatValid0, FormatErase1, FlashOp, At, StageInv
  <2>5. CASE SameContent
    BY <2>1, <2>5 DEF SameContent
  <2> QED
    BY <1>1, <2>2, <2>3, <2>4, <2>5, ContentStep
<1>4. CASE stage # "WriteVersion"
  <2>1. FormatErase1
    BY <1>1, <1>4, NewStage
  <2>2. /\ hdr'[1] = ERASED /\ hdr'[0] = hdr[0] /\ slot'[0] = slot[0]
        /\ hdr[0] = VALID_PAGE /\ BlankPage(slot[0])
    BY <2>1, EraseFacts
    DEF FormatErase1, FlashOp, At, DriverInv, PlaceInv, FormatInv, Page
  <2>3. 0 \in Page /\ 1 - 0 = 1
    BY DEF Page
  <2>4. Recovered(a)' = Find(slot'[0], a)
    <3>1. hdr'[0] = VALID_PAGE /\ hdr'[1 - 0] = ERASED
      BY <2>2, <2>3
    <3> QED
      BY <2>3, <3>1, SightOne, RecoveredIsSight, Statuses
  <2> QED
    BY ListedType, <2>2, <2>4, FindBlank
<1> QED
  BY <1>3, <1>4

LEMMA StepPromise ==
    ASSUME DriverInv, WholeInv, PromiseInv, [Next]_vars, ~Torn'
    PROVE  PromiseInv'
<1>1. CallPromise' /\ NewPromise'
  BY PromisedStep, StepNew DEF PromiseInv
<1>2. Grows \/ ((ProgramAddr \/ MarkValid) /\ Writing)
  BY PromisedStep DEF PromiseInv
<1>3. CASE ProgramAddr
  <2>1. CASE routine = "EE_WriteVariable" \/ varIdx = 0
    BY <1>1, <1>3, <2>1, PromiseWrite DEF PromiseInv
  <2>2. CASE routine # "EE_WriteVariable" /\ varIdx # 0
    <3>1. Grows
      BY <1>3, <2>2 DEF ProgramAddr, Goto, Grows
    <3> QED
      BY <1>1, <1>3, <2>2, <3>1, PromiseCopy DEF PromiseInv
  <2> QED
    BY <2>1, <2>2
<1>4. CASE MarkValid
  BY <1>1, <1>4, PromiseMarkValid DEF PromiseInv
<1>5. CASE ~ProgramAddr /\ ~MarkValid
  <2>1. Grows
    BY <1>2, <1>5
  <2>2. CASE FormatErase0 \/ FormatValid0 \/ FormatErase1
    BY <1>1, <2>1, <2>2, PromiseFormat DEF PromiseInv
  <2>3. CASE (PowerLoss \/ FlashFails) /\ TwoValidPages /\ pc = "EraseOld"
    BY <1>1, <2>1, <2>3, PromiseTwo DEF PromiseInv
  <2>4. CASE MarkReceive \/ ProgramData \/ EraseOld
    BY <1>1, <2>1, <2>4, PromiseCopy DEF PromiseInv
  <2>5. CASE SameContent /\ SameFlash
    <3>1. flashError => flashError' \/ pc' = "Off"
      BY ErrorStays DEF DriverInv, PowerLoss
    <3> QED
      BY <1>1, <2>1, <2>5, <3>1, PromiseSame DEF PromiseInv
  <2> QED
    BY <1>5, <2>2, <2>3, <2>4, <2>5, ContentStep, StepFlash
<1> QED
  BY <1>3, <1>4, <1>5

\* No page comes with the version.
LEMMA InitDead ==
    ASSUME Init, NEW q \in Page
    PROVE  ~HasVersion(q)
<1>1. VersionAddr \in Addr /\ VersionAddr # Blank /\ NotFound # Version
      /\ OldVersion # Version
  BY TableType, VersionAssumption, AddrAssumption
<1>2. ASSUME \A s \in Slot : slot[q][s].addr # VersionAddr
      PROVE  ~HasVersion(q)
  BY <1>1, <1>2, FindNone DEF HasVersion
<1>3. ASSUME NEW w \in [data : Data, addr : Addr \ {VersionAddr}],
             slot = [p \in Page |->
                       IF hdr[p] = Other THEN [Fresh EXCEPT ![1] = w]
                       ELSE Fresh]
      PROVE  ~HasVersion(q)
  <2>1. \A s \in Slot : slot[q][s] = BlankWord \/ slot[q][s].addr = w.addr
    BY <1>3 DEF Fresh
  <2> QED
    BY <1>1, <1>2, <2>1 DEF BlankWord
<1>4. ASSUME NEW p \in Page, NEW a \in Addr \ {VersionAddr}, NEW d \in Data,
             Slots > 1,
             slot = [r \in Page |->
                       IF r = p
                       THEN [Fresh EXCEPT
                               ![1] = [addr |-> VersionAddr,
                                       data |-> OldVersion],
                               ![2] = [addr |-> a, data |-> d]]
                       ELSE Fresh]
      PROVE  ~HasVersion(q)
  <2>1. CASE q # p
    <3>1. \A s \in Slot : slot[q][s] = BlankWord
      BY <1>4, <2>1 DEF Fresh
    <3> QED
      BY <1>1, <1>2, <3>1 DEF BlankWord
  <2>2. CASE q = p
    <3>1. 1 \in Slot /\ 2 \in Slot
      BY <1>4, SizeAssumption DEF Slot
    <3>2. /\ slot[q][1] = [addr |-> VersionAddr, data |-> OldVersion]
          /\ slot[q][2].addr = a
          /\ \A s \in Slot : s # 1 /\ s # 2 => slot[q][s] = BlankWord
      BY <1>4, <2>2, <3>1 DEF Fresh
    <3>3. LastOf(slot[q], VersionAddr, 1)
      BY <1>1, <3>1, <3>2, SizeAssumption DEF LastOf, BlankWord, Slot
    <3> QED
      BY <1>1, <3>2, <3>3, FindLast DEF HasVersion
  <2> QED
    BY <2>1, <2>2
<1> QED
  BY <1>3, <1>4 DEF Init

LEMMA InitPromise == Init => WholeInv /\ LossInv /\ PromiseInv
<1> SUFFICES ASSUME Init PROVE WholeInv /\ LossInv /\ PromiseInv
  OBVIOUS
<1>1. /\ pc = "Off" /\ stage = "Off" /\ routine = "None"
      /\ promised = [a \in Addr |-> {NotFound}]
  BY DEF Init
<1>2. DriverInv
  BY InitDriver
<1>3. \A p \in Page : hdr[p] # RECEIVE_DATA
  BY Statuses DEF Init
<1>4. \A p \in Page : ~HasVersion(p)
  BY InitDead
<1>5. ~Alive
  BY <1>2, <1>4, NoVersion DEF DriverInv
<1> QED
  BY ListedType, <1>1, <1>3, <1>4, <1>5
  DEF WholeInv, LossInv, PromiseInv, AlivePromise, DeadPromise, CallPromise,
      NewPromise, Writing

\* A page that serves the firmware has content.
LEMMA ServingAlive ==
    ASSUME TypeOK, FlashInv, NEW p \in Page, Serving(p), HasVersion(p)
    PROVE  Alive
<1>1. 1 - p \in Page /\ 1 - (1 - p) = p /\ hdr[p] = VALID_PAGE
  BY OtherPage DEF Serving
<1>2. CASE hdr[1 - p] = ERASED
  BY <1>1, <1>2, SightOne, RecoveredIsSight, Statuses DEF Alive, HasVersion
<1>3. CASE hdr[1 - p] = RECEIVE_DATA
  <2>1. Copied(slot[1 - p], slot[p])
    BY <1>1, <1>3, Statuses DEF FlashInv, PageInv
  <2>2. Recovered(VersionAddr) =
           IF slot[1 - p][1].addr = VersionAddr THEN slot[1 - p][1].data
           ELSE Find(slot[p], VersionAddr)
    BY <1>1, <1>3, SightCopy, RecoveredIsSight
  <2> QED
    BY <2>1, <2>2 DEF Copied, Alive, HasVersion
<1> QED
  BY <1>2, <1>3 DEF Serving

\* AckedReadable of the variables that the table lists.
ListedReadable ==
    pc = "Idle" =>
        \A a \in Listed : NotFound \notin promised[a] =>
            \/ EE_ReadVariable(a) \in promised[a]
            \/ flashError /\ EE_ReadVariable(a) = NO_VALID_PAGE

\* NothingInvented of the variables that the table lists.
ListedNotInvented ==
    pc = "Idle" /\ ~flashError =>
        \A a \in Listed : EE_ReadVariable(a) \in promised[a]

LEMMA PromisesKept ==
    ASSUME DriverInv, PromiseInv
    PROVE  ListedReadable /\ ListedNotInvented
<1>1. \A a : EE_ReadVariable(a) = IF ReadPage = NO_VALID_PAGE THEN NO_VALID_PAGE
                                 ELSE Find(slot[ReadPage], a)
  BY LookupIsFind DEF EE_ReadVariable
<1>2. \/ ReadPage = NO_VALID_PAGE
      \/ ReadPage \in Page /\ hdr[ReadPage] = VALID_PAGE
  BY DEF ReadPage, Page
<1>3. (\E p \in Page : hdr[p] = VALID_PAGE) => ReadPage # NO_VALID_PAGE
  BY PageType DEF ReadPage, Page
<1>4. ASSUME pc = "Idle", ~flashError
      PROVE  Alive /\ ReadPage # NO_VALID_PAGE
  <2>1. PICK p \in Page : Serving(p) /\ HasVersion(p)
    BY <1>4 DEF DriverInv, PlaceInv, ServeInv, AtService
  <2> QED
    BY <1>3, <2>1, ServingAlive DEF DriverInv, Serving
<1>5. ASSUME Alive, ReadPage # NO_VALID_PAGE, NEW a \in Listed
      PROVE  EE_ReadVariable(a) \in promised[a]
  BY <1>1, <1>2, <1>5 DEF PromiseInv, AlivePromise
<1>6. ListedReadable
  <2>1. SUFFICES ASSUME pc = "Idle", NEW a \in Listed, NotFound \notin promised[a]
                 PROVE  \/ EE_ReadVariable(a) \in promised[a]
                        \/ flashError /\ EE_ReadVariable(a) = NO_VALID_PAGE
    BY DEF ListedReadable
  <2>2. CASE Alive
    BY <1>1, <1>4, <1>5, <2>1, <2>2
  <2>3. CASE ~Alive
    <3>1. /\ flashError /\ TwoValidPages
          /\ \A p \in Page : Find(slot[p], a) \in promised[a]
      BY <2>1, <2>3 DEF PromiseInv, DeadPromise
    <3>2. ReadPage \in Page /\ ReadPage # NO_VALID_PAGE
      BY <1>2, <1>3, <3>1 DEF TwoValidPages, Page
    <3> QED
      BY <1>1, <3>1, <3>2
  <2> QED
    BY <2>2, <2>3
<1>7. ListedNotInvented
  BY <1>4, <1>5 DEF ListedNotInvented
<1> QED
  BY <1>6, <1>7

\* An acknowledged write of a variable that the table lists is what is read
\* back, across any number of power losses at any place but one: between marking
\* the new page valid and erasing the old one in EE_Init.
THEOREM ListedReadableUnlessTorn ==
    ASSUME NoLuckyGarbage
    PROVE  Spec /\ []~Torn => []ListedReadable
<1>1. DriverInv /\ WholeInv /\ PromiseInv /\ [Next]_vars /\ ~Torn'
         => DriverInv' /\ WholeInv' /\ PromiseInv'
  BY StepDriver, StepWhole, StepPromise
<1>2. DriverInv /\ PromiseInv => ListedReadable
  BY PromisesKept
<1> QED
  BY <1>1, <1>2, InitDriver, InitPromise, PTL DEF Spec

\* Nothing is read back that nobody wrote, under the same condition.
THEOREM ListedNotInventedUnlessTorn ==
    ASSUME NoLuckyGarbage
    PROVE  Spec /\ []~Torn => []ListedNotInvented
<1>1. DriverInv /\ WholeInv /\ PromiseInv /\ [Next]_vars /\ ~Torn'
         => DriverInv' /\ WholeInv' /\ PromiseInv'
  BY StepDriver, StepWhole, StepPromise
<1>2. DriverInv /\ PromiseInv => ListedNotInvented
  BY PromisesKept
<1> QED
  BY <1>1, <1>2, InitDriver, InitPromise, PTL DEF Spec

\* One power loss, at whatever instant, never leaves the pages torn.
THEOREM NeverTornByOneLoss ==
    ASSUME NoLuckyGarbage, MaxPowerLosses <= 1
    PROVE  Spec => []~Torn
<1>1. DriverInv /\ WholeInv /\ LossInv /\ [Next]_vars
         => DriverInv' /\ WholeInv' /\ LossInv' /\ ~Torn'
  BY StepDriver, StepWhole, StepLoss
<1>2. Init => ~Torn
  BY InitDriver, InitPromise DEF Torn, WholeInv, DriverInv, StageInv
<1> QED
  BY <1>1, <1>2, InitDriver, InitPromise, PTL DEF Spec

\* With a table that lists all variables in use, every acknowledged write is
\* what is read back, under the same condition.
THEOREM AckedReadableUnlessTorn ==
    ASSUME CompleteTable, NoLuckyGarbage
    PROVE  Spec /\ []~Torn => []AckedReadable
<1>1. ListedReadable => AckedReadable
  BY DEF ListedReadable, AckedReadable, CompleteTable
<1> QED
  BY <1>1, ListedReadableUnlessTorn, PTL

\* And it survives a power loss at any instant.
THEOREM AckedReadableAlways ==
    ASSUME CompleteTable, NoLuckyGarbage, MaxPowerLosses <= 1
    PROVE  Spec => []AckedReadable
  BY AckedReadableUnlessTorn, NeverTornByOneLoss, PTL

\* Nothing appears that nobody wrote, whatever the sectors held at first and
\* wherever power is lost.
THEOREM NothingInventedAlways ==
    ASSUME CompleteTable, NoLuckyGarbage, MaxPowerLosses <= 1
    PROVE  Spec => []NothingInvented
<1>1. ListedNotInvented => NothingInvented
  BY DEF ListedNotInvented, NothingInvented, CompleteTable
<1> QED
  BY <1>1, ListedNotInventedUnlessTorn, NeverTornByOneLoss, PTL

-----------------------------------------------------------------------------
(* The driver implements the atomic store.                                 *)

\* What stands under an address was programmed as data.
Written == \A p \in Page, s \in Slot :
    slot[p][s].addr # Blank => slot[p][s].data \in Data

LEMMA FindWritten ==
    ASSUME Written, NEW p \in Page, NEW a \in Addr
    PROVE  Find(slot[p], a) \in Data \cup {NotFound}
<1>1. CASE \E r \in Slot : slot[p][r].addr = a
  <2>1. PICK s \in Slot :
             LastOf(slot[p], a, s) /\ Find(slot[p], a) = slot[p][s].data
    BY <1>1, HasLast
  <2> QED
    BY <2>1, AddrAssumption DEF LastOf, Written
<1>2. CASE \A r \in Slot : slot[p][r].addr # a
  BY <1>2, FindNone
<1> QED
  BY <1>1, <1>2

LEMMA ContentType ==
    ASSUME TypeOK, Written
    PROVE  Content \in [Addr -> Data \cup {NotFound}]
<1> SUFFICES ASSUME NEW a \in Addr
             PROVE  Recovered(a) \in Data \cup {NotFound}
  BY DEF Content
<1>1. \A p \in Page : Find(slot[p], a) \in Data \cup {NotFound}
  BY FindWritten
<1>2. \A p \in Page : slot[p][1].addr = a => slot[p][1].data \in Data
  BY AddrAssumption, SizeAssumption DEF Written, Slot
<1>3. Two(pc, new, slot, a) \in Data \cup {NotFound}
  BY <1>1 DEF Two, TypeOK
<1> QED
  BY <1>1, <1>2, <1>3, RecoveredIsSight DEF Sight, Page

LEMMA StepWritten ==
    ASSUME DriverInv, Written, [Next]_vars
    PROVE  Written'
<1> DEFINE Kept(p) == \A s \in Slot :
              slot'[p][s].addr # Blank => slot'[p][s].data \in Data
<1>0. TypeOK
  BY DEF DriverInv
<1>1. ASSUME NEW p \in Page, slot'[p] = slot[p] \/ BlankPage(slot'[p])
      PROVE  Kept(p)
  BY <1>1 DEF Written, BlankPage, BlankWord
<1>2. CASE slot' = slot
  BY <1>1, <1>2 DEF Written
<1>3. CASE FormatErase0 \/ FormatErase1
  <2>1. ASSUME NEW p \in Page, FLASH_EraseSector(p), NEW q \in Page
        PROVE  slot'[q] = slot[q] \/ BlankPage(slot'[q])
    BY <1>0, <2>1, EraseFacts, OtherPage
  <2>2. 0 \in Page /\ 1 \in Page
    BY DEF Page
  <2>3. \A q \in Page : slot'[q] = slot[q] \/ BlankPage(slot'[q])
    BY <1>3, <2>1, <2>2 DEF FormatErase0, FormatErase1
  <2> QED
    BY <1>1, <2>3 DEF Written
<1>4. CASE EraseOld
  <2>1. PICK n \in Page : n = new
    BY <1>0, Pages
  <2>2. slot'[n] = slot[n] /\ BlankPage(slot'[1 - n])
    BY <1>0, <1>4, <2>1, OtherPage, EraseFacts DEF EraseOld
  <2> QED
    BY <1>1, <2>2, OtherPage DEF Written
<1>5. CASE ProgramData
  <2>1. PICK p \in Page, n \in Slot :
           p = dst.page /\ n = dst.slot /\ slot[p][n].addr = Blank
    BY <1>5, RecordFacts DEF ProgramData, FlashOp, At, AtRecord
  <2>2. /\ slot'[1 - p] = slot[1 - p]
        /\ \A t \in Slot : t # n => slot'[p][t] = slot[p][t]
        /\ slot'[p][n].addr = Blank
    BY <1>0, <1>5, <2>1, DataFacts DEF OneWord
  <2> QED
    BY <1>1, <2>1, <2>2, OtherPage DEF Written
<1>6. CASE ProgramAddr
  <2>1. PICK p \in Page, n \in Slot :
               /\ p = dst.page /\ n = dst.slot
               /\ slot'[1 - p] = slot[1 - p]
               /\ slot'[p][n] = [data |-> cur.data, addr |-> cur.addr]
               /\ \A t \in Slot : t # n => slot'[p][t] = slot[p][t]
    BY <1>6, AddrEffect
  <2>2. call.data \in Data /\ varIdx \in Nat /\ cur.addr \in Addr
    BY <1>0, SizeAssumption DEF TypeOK
  <2>3. \/ cur = call
        \/ /\ cur.data = Find(slot[1 - new], cur.addr)
           /\ cur.data # NotFound
    BY <1>6, <2>2
    DEF ProgramAddr, FlashOp, At, DriverInv, PlaceInv, RecordInv, AtRecord,
        DirectRecord, TransferRecord
  <2>4. cur.data \in Data
    <3>1. 1 - new \in Page
      BY <1>0, Pages, OtherPage
    <3> QED
      BY <2>2, <2>3, <3>1, FindWritten
  <2> QED
    BY <1>1, <2>1, <2>4, OtherPage DEF Written
<1> QED
  BY <1>2, <1>3, <1>4, <1>5, <1>6, StepFlash
  DEF SameFlash, FormatValid0, MarkReceive, MarkValid, ProgramHeader

\* Two valid pages with content, and EE_Init is not about to erase one.
Split == TwoValidPages /\ (\E p \in Page : HasVersion(p)) /\ pc # "EraseOld"

\* What the store knows of the call that is under way.
Asked == IF Writing
         THEN [addr |-> call.addr, data |-> call.data, done |-> Recorded]
         ELSE NotFound

LEMMA RecordedType == Recorded \in BOOLEAN /\ Recorded' \in BOOLEAN
  BY DEF Recorded

\* The kinds of steps of the driver, and the step of the store each one is.
LEMMA StoreStutter ==
    ASSUME CompleteTable, SameContent, Writing' <=> Writing, status' = status,
           Writing => call' = call /\ (Recorded' <=> Recorded)
    PROVE  UNCHANGED Store!vars
<1>1. Content' = Content
  BY DEF SameContent, Content, CompleteTable
<1>2. Writing => Recorded' = Recorded
  BY RecordedType
<1>3. Asked' = Asked
  BY <1>2 DEF Asked
<1> QED
  BY <1>1, <1>3 DEF Store!vars, Asked

LEMMA StoreAbandon ==
    ASSUME CompleteTable, SameContent, ~Writing', ~status', status' \in BOOLEAN
    PROVE  Store!Abandon
<1>1. Content' = Content
  BY DEF SameContent, Content, CompleteTable
<1> QED
  BY <1>1 DEF Store!Abandon

LEMMA StoreDiscard ==
    ASSUME ~Alive, ~Alive', ~Writing, ~Writing', status' = status,
           Content' \in [Addr -> Data \cup {NotFound}]
    PROVE  Store!Discard
<1>1. VersionAddr \in Addr
  BY TableType
<1>2. Content[VersionAddr] # Version /\ Content'[VersionAddr] # Version
  BY <1>1 DEF Content, Alive
<1> QED
  BY <1>2 DEF Store!Discard

LEMMA StoreCall ==
    ASSUME CompleteTable, SameContent, ~Writing, Writing', ~Recorded',
           status' = status, call' \in [addr : Addr, data : Data]
    PROVE  \E a \in Addr, d \in Data : Store!Call(a, d)
<1>1. Content' = Content
  BY DEF SameContent, Content, CompleteTable
<1>2. Recorded' = FALSE
  BY RecordedType
<1>3. Asked' = [addr |-> call'.addr, data |-> call'.data, done |-> FALSE]
  BY <1>2 DEF Asked
<1> QED
  BY <1>1, <1>3 DEF Store!Call, Asked

LEMMA SetDone ==
    ASSUME NEW a, NEW d, NEW b, NEW r, r = [addr |-> a, data |-> d, done |-> b],
           NEW c
    PROVE  [r EXCEPT !.done = c] = [addr |-> a, data |-> d, done |-> c]
  OBVIOUS

LEMMA StoreEffect ==
    ASSUME CompleteTable, CallContent, Writing, ~Recorded, Writing', Recorded',
           call' = call, status' = status, call \in [addr : Addr, data : Data]
    PROVE  Store!TakeEffect
<1>1. Content' = [Content EXCEPT ![call.addr] = call.data]
  BY DEF CallContent, Content, CompleteTable
<1>2. Recorded \in BOOLEAN /\ Recorded' = TRUE
  BY RecordedType
<1>3. Asked = [addr |-> call.addr, data |-> call.data, done |-> Recorded]
  BY DEF Asked
<1>4. Asked' = [addr |-> call.addr, data |-> call.data, done |-> TRUE]
  BY <1>2 DEF Asked
<1>5. Asked # NotFound /\ ~Asked.done
  BY <1>2, <1>3, RequestAssumption
<1>6. Asked.addr = call.addr /\ Asked.data = call.data
  BY <1>3
<1>7. Asked' = [Asked EXCEPT !.done = TRUE]
  <2>1. PICK c : c = TRUE
    OBVIOUS
  <2>2. [Asked EXCEPT !.done = c] =
           [addr |-> call.addr, data |-> call.data, done |-> c]
    BY <1>3, SetDone
  <2>3. Asked' = [Asked EXCEPT !.done = c]
    BY <1>4, <2>1, <2>2
  <2> QED
    BY <2>1, <2>3
<1>8. Store!TakeEffect <=>
        /\ Asked # NotFound
        /\ ~Asked.done
        /\ Content' = [Content EXCEPT ![Asked.addr] = Asked.data]
        /\ Asked' = [Asked EXCEPT !.done = TRUE]
        /\ UNCHANGED status
  BY DEF Store!TakeEffect, Asked
<1> QED
  BY <1>1, <1>5, <1>6, <1>7, <1>8

LEMMA StoreAck ==
    ASSUME CompleteTable, Writing, ~Writing', status' = TRUE,
           call \in [addr : Addr, data : Data],
           IF Recorded THEN SameContent ELSE CallContent
    PROVE  Store!Acknowledge
<1>1. /\ Recorded => Content' = Content
      /\ ~Recorded => Content' = [Content EXCEPT ![call.addr] = call.data]
  BY DEF SameContent, CallContent, Content, CompleteTable
<1>2. Recorded \in BOOLEAN
  BY RecordedType
<1>3. Asked = [addr |-> call.addr, data |-> call.data, done |-> Recorded]
  BY DEF Asked
<1>4. Asked # NotFound
  BY <1>2, <1>3, RequestAssumption
<1> QED
  BY <1>1, <1>2, <1>3, <1>4 DEF Store!Acknowledge, Asked

\* EE_Format starts the new content with nothing in it, before and after page 1
\* is erased.
LEMMA ContentFormatErase1 ==
    ASSUME DriverInv, FormatErase1
    PROVE  SameContent
<1>1. PICK p \in Page : p = 0 /\ 1 - p = 1 /\ 1 - p \in Page /\ 1 - (1 - p) = p
  BY DEF Page
<1>2. /\ TypeOK /\ ~flashError /\ pc = "FormatErase1"
      /\ hdr[p] = VALID_PAGE /\ hdr[1 - p] # RECEIVE_DATA /\ BlankPage(slot[p])
  BY <1>1
  DEF DriverInv, PlaceInv, FormatInv, AtFormat, FormatErase1, FlashOp, At
<1>3. hdr'[1 - p] = ERASED /\ hdr'[p] = hdr[p] /\ slot'[p] = slot[p]
  BY <1>1, <1>2, EraseFacts DEF FormatErase1
<1>4. \A a \in Addr : Find(slot[p], a) = NotFound
  BY <1>2, FindBlank
<1>5. \A a : Recovered(a)' = Find(slot[p], a)
  BY <1>1, <1>2, <1>3, SightOne, RecoveredIsSight, Statuses
<1>6. CASE hdr[1 - p] = VALID_PAGE
  <2>1. \A q \in Page : hdr[q] = VALID_PAGE
    BY <1>2, <1>6, OtherPage
  <2>2. \A a : Recovered(a) = Two(pc, new, slot, a)
    BY <2>1, SightTwo, RecoveredIsSight
  <2> QED
    BY ListedType, <1>2, <1>4, <1>5, <2>2 DEF Two, SameContent
<1>7. CASE hdr[1 - p] # VALID_PAGE
  <2>1. \A a : Recovered(a) = Find(slot[p], a)
    BY <1>1, <1>2, <1>7, SightOne, RecoveredIsSight
  <2> QED
    BY <1>5, <2>1 DEF SameContent
<1> QED
  BY <1>6, <1>7

\* The same of the next state.
LEMMA NoVersionNext ==
    TypeOK' /\ FlashInv' /\ (\A p \in Page : ~HasVersion(p))' => ~Alive'
<1>1. TypeOK /\ FlashInv /\ (\A p \in Page : ~HasVersion(p)) => ~Alive
  BY NoVersion
<1> QED
  BY <1>1, PTL

LEMMA ContentTypeNext ==
    TypeOK' /\ Written' => (Content \in [Addr -> Data \cup {NotFound}])'
<1>1. TypeOK /\ Written => Content \in [Addr -> Data \cup {NotFound}]
  BY ContentType
<1> QED
  BY <1>1, PTL

StoreStep == Store!Next \/ UNCHANGED Store!vars

\* Every step of the driver is a step of the store or none, but for those that
\* leave two valid pages with content to a format.
LEMMA StepStore ==
    ASSUME CompleteTable,
           DriverInv, WholeInv, Written, DriverInv', WholeInv', Written',
           ~Split', [Next]_vars
    PROVE  StoreStep
<1> TypeOK /\ StageInv /\ call \in [addr : Addr, data : Data]
  BY DEF DriverInv, TypeOK
<1>t. TypeOK' /\ FlashInv' /\ call' \in [addr : Addr, data : Data]
  BY DEF DriverInv, TypeOK
<1>1. ASSUME SameFlash, pc # "EraseOld", pc' # "EraseOld"
      PROVE  SameContent
  BY <1>1, SightSameFlash
<1>2. ASSUME SameContent, Writing' <=> Writing, status' = status,
             Writing => call' = call /\ (Recorded' <=> Recorded)
      PROVE  StoreStep
  BY <1>2, StoreStutter DEF StoreStep
<1>3. ASSUME SameContent, ~Writing', ~status', status' \in BOOLEAN
      PROVE  StoreStep
  BY <1>3, StoreAbandon DEF StoreStep, Store!Next
<1>4. ASSUME ~Alive, (\A p \in Page : ~HasVersion(p))', ~Writing, ~Writing',
             status' = status
      PROVE  StoreStep
  <2>1. ~Alive' /\ Content' \in [Addr -> Data \cup {NotFound}]
    BY <1>t, <1>4, NoVersionNext, ContentTypeNext
  <2> QED
    BY <1>4, <2>1, StoreDiscard DEF StoreStep, Store!Next
<1>5. ASSUME SameContent, ~Writing, Writing', ~Recorded', status' = status
      PROVE  StoreStep
  BY <1>t, <1>5, StoreCall DEF StoreStep, Store!Next
<1>6. ASSUME CallContent, Writing, ~Recorded, Writing', Recorded', call' = call,
             status' = status
      PROVE  StoreStep
  BY <1>6, StoreEffect DEF StoreStep, Store!Next
<1>7. ASSUME Writing, ~Writing', status' = TRUE,
             IF Recorded THEN SameContent ELSE CallContent
      PROVE  StoreStep
  BY <1>7, StoreAck DEF StoreStep, Store!Next
<1>10. CASE PowerOn
  <2>1. /\ SameFlash /\ pc # "EraseOld" /\ pc' # "EraseOld"
        /\ ~Writing /\ ~Writing' /\ status' = status
    BY <1>10 DEF PowerOn, StageInv, Writing, SameFlash, flash
  <2> QED
    BY <1>1, <1>2, <2>1
<1>11. CASE PowerLoss \/ FlashFails
  <2>1. SameFlash /\ pc' # "EraseOld"
    BY <1>11 DEF PowerLoss, FlashFails, Return, SameFlash, flash
  <2>2. CASE FlashFails /\ stage = "EE_Format"
    <3>1. /\ pc # "EraseOld" /\ ~Writing /\ Writing'
          /\ ~Recorded' /\ status' = status
      BY <2>2 DEF FlashFails, Return, StageInv, Writing, Recorded
    <3> QED
      BY <1>1, <1>5, <2>1, <3>1
  <2>3. CASE PowerLoss \/ stage # "EE_Format"
    <3>1. ~Writing' /\ ~status' /\ status' \in BOOLEAN
      <4>1. CASE PowerLoss
        BY <4>1 DEF PowerLoss, Writing
      <4>2. CASE FlashFails /\ stage # "EE_Format"
        <5>1. ~Writing => stage # "Running"
          BY <4>2 DEF FlashFails, FlashOps, StageInv, Writing
        <5> QED
          BY <4>2, <5>1 DEF FlashFails, Return, StageInv, Writing, TypeOK
      <4> QED
        BY <1>11, <2>3, <4>1, <4>2
    <3>2. CASE pc # "EraseOld"
      BY <1>1, <1>3, <2>1, <3>1, <3>2
    <3>3. CASE pc = "EraseOld" /\ ~TwoValidPages
      <4>1. SameContent
        BY <2>1, <3>3, SightSameFlash
      <4> QED
        BY <1>3, <3>1, <4>1
    <3>4. CASE pc = "EraseOld" /\ TwoValidPages
      <4>1. ~Writing /\ status' = status
        <5>1. routine = "EE_Init"
          BY <3>4, Pages, Statuses
          DEF DriverInv, StageInv, PlaceInv, TransferInv, Filling, TwoValidPages
        <5> QED
          BY <1>11, <3>1, <5>1
          DEF PowerLoss, FlashFails, Return, StageInv, Writing, TypeOK
      <4>2. (\A p \in Page : ~HasVersion(p))'
        BY <2>1, <3>4 DEF Split, SameFlash, TwoValidPages
      <4>3. ~Alive
        <5>1. \A p \in Page : ~HasVersion(p)
          BY <2>1, <4>2 DEF SameFlash, HasVersion
        <5> QED
          BY <5>1, NoVersion DEF DriverInv
      <4> QED
        BY <1>4, <3>1, <4>1, <4>2, <4>3
    <3> QED
      BY <3>2, <3>3, <3>4
  <2> QED
    BY <1>11, <2>2, <2>3
<1>12. ASSUME NEW p \in Page, InitErase(p) \/ InitCopy(p)
       PROVE  StoreStep
  <2>1. /\ SameFlash /\ pc = "Init" /\ ~Writing /\ ~Writing' /\ status' = status
        /\ ~TwoValidPages \/ pc' # "EraseOld"
    <3>1. CASE InitErase(p)
      BY <3>1, OtherPage, Statuses
      DEF InitErase, RepairByErase, At, Goto, StageInv, Writing, SameFlash, flash,
          TwoValidPages
    <3>2. CASE InitCopy(p)
      BY <3>2 DEF InitCopy, At, Goto, StageInv, Writing, SameFlash, flash
    <3> QED
      BY <1>12, <3>1, <3>2
  <2>2. SameContent
    BY <2>1, SightSameFlash
  <2> QED
    BY <1>2, <2>1, <2>2
<1>13. CASE InitFormat \/ CheckVersion
  <2>1. /\ SameFlash /\ pc # "EraseOld" /\ pc' # "EraseOld"
        /\ ~Writing /\ ~Writing' /\ status' = status
    BY <1>13
    DEF InitFormat, CheckVersion, At, Goto, StageInv, Writing, SameFlash, flash
  <2> QED
    BY <1>1, <1>2, <2>1
<1>14. CASE FormatErase0 \/ FormatValid0
  <2>1. /\ AtFormat /\ AtFormat' /\ ~flashError /\ ~flashError'
        /\ routine' = routine /\ status' = status
    BY <1>14 DEF FormatErase0, FormatValid0, FlashOp, At, Goto, AtFormat
  <2>2. ~Writing /\ ~Writing'
    BY <2>1 DEF AtFormat, StageInv, Writing
  <2>3. \A p \in Page : ~HasVersion(p)
    BY <2>1 DEF WholeInv
  <2>4. (\A p \in Page : ~HasVersion(p))'
    BY <2>1 DEF WholeInv
  <2>5. ~Alive
    BY <2>3, NoVersion DEF DriverInv
  <2> QED
    BY <1>4, <2>1, <2>2, <2>4, <2>5
<1>15. CASE FormatErase1
  <2>1. SameContent /\ ~Writing /\ status' = status
    BY <1>15, ContentFormatErase1
    DEF FormatErase1, FlashOp, At, Return, StageInv, Writing
  <2>2. Writing' => ~Recorded'
    BY <1>15 DEF FormatErase1, Return, Writing, Recorded
  <2> QED
    BY <1>2, <1>5, <2>1, <2>2
<1>16. ASSUME NEW a \in Addr, NEW d \in Data, EE_WriteVariable(a, d)
       PROVE  StoreStep
  <2>1. /\ SameFlash /\ pc # "EraseOld" /\ pc' # "EraseOld"
        /\ ~Writing /\ Writing' /\ ~Recorded' /\ status' = status
    BY <1>16
    DEF EE_WriteVariable, At, StageInv, Writing, Recorded, SameFlash, flash
  <2> QED
    BY <1>1, <1>5, <2>1
<1>17. CASE WriteRecord \/ StartTransfer
  <2>1. /\ SameFlash /\ pc # "EraseOld" /\ pc' # "EraseOld"
        /\ (Writing' <=> Writing) /\ status' = status /\ call' = call
        /\ ~Recorded
    BY <1>17
    DEF WriteRecord, StartRecord, StartTransfer, At, Goto, Writing, Recorded,
        SameFlash, flash
  <2>2. ~Recorded'
    BY <1>17
    DEF WriteRecord, StartRecord, StartTransfer, At, Goto, Recorded, StageInv
  <2> QED
    BY <1>1, <1>2, <2>1, <2>2
<1>18. CASE WriteFails \/ CopyFails
  <2>1. SameFlash /\ pc \in {"Write", "Copy"} /\ Return(FALSE)
    BY <1>18 DEF WriteFails, CopyFails, At, SameFlash, flash
  <2>2. pc' # "EraseOld"
    BY <2>1 DEF Return
  <2>3. Writing \/ stage = "EE_Init"
    BY <2>1 DEF StageInv, Writing
  <2>4. ~Writing' /\ ~status' /\ status' \in BOOLEAN
    BY <2>1, <2>3 DEF Return, StageInv, Writing, TypeOK
  <2> QED
    BY <1>1, <1>3, <2>1, <2>2, <2>4
<1>19. CASE MarkReceive
  <2>1. /\ SameContent /\ (Writing' <=> Writing) /\ status' = status
        /\ call' = call /\ ~Recorded /\ ~Recorded'
    BY <1>19, ContentMarkReceive
    DEF MarkReceive, FlashOp, At, Goto, locals, Writing, Recorded
  <2> QED
    BY <1>2, <2>1
<1>20. CASE ProgramData
  <2>1. /\ SameContent /\ (Writing' <=> Writing) /\ status' = status
        /\ call' = call /\ (Recorded' <=> Recorded)
    BY <1>20, ContentProgramData
    DEF ProgramData, FlashOp, At, Goto, locals, Writing, Recorded
  <2> QED
    BY <1>2, <2>1
<1>21. CASE ProgramAddr
  <2>0. varIdx \in Nat
    BY SizeAssumption DEF TypeOK
  <2>1. CASE routine = "EE_WriteVariable"
    <3>1. CallContent /\ Writing /\ ~Recorded
      BY <1>21, <2>1, ContentProgramAddr DEF Writing, Recorded
    <3>2. Return(TRUE)
      BY <1>21, <2>1 DEF ProgramAddr
    <3>3. ~Writing' /\ status' = TRUE
      BY <3>1, <3>2 DEF Return, StageInv, Writing
    <3> QED
      BY <1>7, <3>1, <3>3
  <2>2. CASE routine # "EE_WriteVariable"
    <3>1. /\ pc = "ProgramAddr" /\ pc' = "Copy" /\ routine' = routine
          /\ status' = status /\ call' = call
      BY <1>21, <2>2 DEF ProgramAddr, FlashOp, At, Goto, locals
    <3>2. CASE varIdx = 0
      <4>1. CallContent /\ Writing
        BY <1>21, <3>2, ContentProgramAddr
      <4>2. Writing' /\ ~Recorded /\ Recorded'
        BY <2>2, <3>1, <3>2, <4>1 DEF Writing, Recorded
      <4> QED
        BY <1>6, <3>1, <4>1, <4>2
    <3>3. CASE varIdx # 0
      <4>1. SameContent
        BY <1>21, <2>2, <3>3, ContentProgramAddr
      <4>2. (Writing' <=> Writing) /\ (Recorded' <=> Recorded)
        BY <2>0, <3>1, <3>3 DEF Writing, Recorded
      <4> QED
        BY <1>2, <3>1, <4>1, <4>2
    <3> QED
      BY <3>2, <3>3
  <2> QED
    BY <2>1, <2>2
<1>22. ASSUME NEW i \in 0..(NB_OF_VAR - 1), CopyVariable(i)
       PROVE  StoreStep
  <2>1. /\ SameFlash /\ pc = "Copy" /\ pc' = "ProgramData" /\ routine' = routine
        /\ status' = status /\ call' = call /\ varIdx' = i + 1
    BY <1>22 DEF CopyVariable, StartRecord, At, Goto, SameFlash, flash
  <2>2. (Writing' <=> Writing) /\ (Recorded' <=> Recorded)
    BY <2>1, SizeAssumption DEF Writing, Recorded
  <2> QED
    BY <1>1, <1>2, <2>1, <2>2
<1>23. CASE CopyDone
  <2>1. /\ SameFlash /\ pc = "Copy" /\ pc' \in {"EraseOld", "MarkValid"}
        /\ routine' = routine /\ status' = status /\ call' = call
        /\ ~flashError
    BY <1>23 DEF CopyDone, At, Goto, locals, SameFlash, flash, StageInv
  <2>2. (Writing' <=> Writing) /\ (Recorded' <=> Recorded)
    BY <2>1 DEF Writing, Recorded
  <2>3. ~TwoValidPages
    BY <2>1, Pages, Statuses
    DEF DriverInv, PlaceInv, TransferInv, Filling, Foreign, TwoValidPages, Page
  <2>4. SameContent
    BY <2>1, <2>3, SightSameFlash
  <2> QED
    BY <1>2, <2>1, <2>2, <2>4
<1>24. CASE EraseOld
  <2>1. SameContent /\ pc = "EraseOld" /\ ~flashError
    BY <1>24, ContentEraseOld DEF EraseOld, FlashOp, At
  <2>2. CASE hdr[new] = VALID_PAGE /\ Return(TRUE)
    <3>1. routine = "EE_Init"
      BY <2>1, <2>2, Statuses DEF DriverInv, PlaceInv, TransferInv, Filling
    <3>2. ~Writing /\ ~Writing' /\ status' = status
      BY <2>2, <3>1 DEF Return, StageInv, Writing
    <3> QED
      BY <1>2, <2>1, <3>2
  <2>3. CASE Goto("MarkValid") /\ UNCHANGED locals
    <3>1. /\ (Writing' <=> Writing) /\ (Recorded' <=> Recorded)
          /\ status' = status /\ call' = call
      BY <2>1, <2>3 DEF Goto, locals, Writing, Recorded
    <3> QED
      BY <1>2, <2>1, <3>1
  <2> QED
    BY <1>24, <2>2, <2>3 DEF EraseOld
<1>25. CASE MarkValid
  <2>1. pc = "MarkValid" /\ ~flashError /\ TransferInv
    BY <1>25 DEF MarkValid, FlashOp, At, DriverInv, PlaceInv
  <2>2. CASE hdr[1 - new] = ERASED /\ Return(TRUE)
    <3>1. SameContent
      BY <1>25, <2>2, ContentMarkValid, Statuses DEF Foreign
    <3>2. CASE routine = "EE_PageTransfer"
      <4>1. Writing /\ Recorded /\ ~Writing' /\ status' = TRUE
        BY <2>1, <2>2, <3>2 DEF Return, StageInv, Writing, Recorded
      <4> QED
        BY <1>7, <3>1, <4>1
    <3>3. CASE routine = "EE_Init"
      <4>1. ~Writing /\ ~Writing' /\ status' = status
        BY <2>2, <3>3 DEF Return, StageInv, Writing
      <4> QED
        BY <1>2, <3>1, <4>1
    <3> QED
      BY <2>1, <3>2, <3>3 DEF StageInv
  <2>3. CASE hdr[1 - new] # ERASED /\ Goto("EraseOld") /\ UNCHANGED locals
    <3>1. /\ (Writing' <=> Writing) /\ (Recorded' <=> Recorded)
          /\ status' = status /\ call' = call
      BY <2>1, <2>3 DEF Goto, locals, Writing, Recorded
    <3>2. CASE SameContent
      BY <1>2, <3>1, <3>2
    <3>3. CASE Foreign /\ ~Alive /\ (\A p \in Page : ~HasVersion(p))'
      <4>1. ~Writing
        BY <2>1, <3>3, Statuses
        DEF TransferInv, Filling, Foreign, StageInv, Writing
      <4> QED
        BY <1>4, <3>1, <3>3, <4>1
    <3> QED
      BY <1>25, <3>2, <3>3, ContentMarkValid
  <2> QED
    BY <1>25, <2>2, <2>3 DEF MarkValid
<1>26. CASE UNCHANGED vars
  <2>1. SameFlash /\ pc' = pc /\ new' = new
    BY <1>26 DEF vars, flash, control, locals, SameFlash
  <2>2. /\ (Writing' <=> Writing) /\ (Recorded' <=> Recorded)
        /\ status' = status /\ call' = call
    BY <1>26 DEF vars, control, locals, Writing, Recorded
  <2>3. SameContent
    BY <2>1, SightSameFlash
  <2> QED
    BY <1>2, <2>2, <2>3
<1> QED
  BY <1>10, <1>11, <1>12, <1>13, <1>14, <1>15, <1>16, <1>17, <1>18, <1>19,
     <1>20, <1>21, <1>22, <1>23, <1>24, <1>25, <1>26
  DEF Next, Driver, EE_Init, EE_Format, EE_VerifyPageFullWriteVariable,
      EE_PageTransfer

LEMMA InitStore == Init => Written /\ Store!Init
<1> SUFFICES ASSUME Init PROVE Written /\ Store!Init
  OBVIOUS
<1>1. TypeOK
  BY InitType
<1>2. ~Writing /\ status = FALSE
  BY DEF Init, Writing
<1>3. Written
  <2>1. CASE \E w \in [data : Data, addr : Addr \ {VersionAddr}] :
                slot = [p \in Page |->
                          IF hdr[p] = Other THEN [Fresh EXCEPT ![1] = w]
                          ELSE Fresh]
    BY <2>1, SizeAssumption DEF Written, Fresh, BlankWord, Slot
  <2>2. CASE \E p \in Page, a \in Addr \ {VersionAddr}, d \in Data :
             slot = [q \in Page |->
                          IF q = p
                          THEN [Fresh EXCEPT
                                  ![1] = [addr |-> VersionAddr,
                                          data |-> OldVersion],
                                  ![2] = [addr |-> a, data |-> d]]
                          ELSE Fresh]
    BY <2>2, SizeAssumption, VersionAssumption DEF Written, Fresh, BlankWord, Slot
  <2> QED
    BY <2>1, <2>2 DEF Init
<1>4. Content \in [Addr -> Data \cup {NotFound}]
  BY <1>1, <1>3, ContentType
<1> QED
  BY <1>2, <1>3, <1>4 DEF Store!Init

\* The driver is the atomic store, as long as two valid pages with content are
\* never left to a format.
THEOREM ImplementsStoreUnlessSplit ==
    ASSUME CompleteTable, NoLuckyGarbage
    PROVE  Spec /\ []~Split => ImplementsStore
<1>1. ~Split => ~Torn
  BY DEF Split, Torn
<1>2. DriverInv /\ WholeInv /\ Written /\ [Next]_vars /\ ~Torn'
         => DriverInv' /\ WholeInv' /\ Written'
  BY StepDriver, StepWhole, StepWritten
<1>3. DriverInv /\ WholeInv /\ Written /\ [Next]_vars /\
      DriverInv' /\ WholeInv' /\ Written' /\ ~Split'
         => [Store!Next]_(Store!vars)
  <2> SUFFICES ASSUME DriverInv, WholeInv, Written, [Next]_vars,
                      DriverInv', WholeInv', Written', ~Split'
               PROVE  [Store!Next]_(Store!vars)
    OBVIOUS
  <2>1. StoreStep
    BY StepStore
  <2> QED
    BY <2>1 DEF StoreStep
<1>4. Init => DriverInv /\ WholeInv /\ Written /\ Store!Init
  BY InitDriver, InitPromise, InitStore
<1> QED
  BY <1>1, <1>2, <1>3, <1>4, PTL DEF Spec, ImplementsStore, Store!Spec

\* Without a faulty flash no error flag is ever set.
LEMMA NoError ==
    ASSUME FaultsPossible = FALSE, ~flashError, [Next]_vars
    PROVE  ~flashError'
<1> DEFINE Kept == flashError' = flashError
<1>1. ASSUME NEW op, FlashOp(op) \/ At(op) PROVE Kept
  BY <1>1 DEF FlashOp, At
<1>2. CASE PowerOn \/ PowerLoss \/ FlashFails
  BY <1>2 DEF PowerOn, PowerLoss, FlashFails
<1>3. CASE EE_Init \/ EE_Format \/ CheckVersion
  <2>1. Kept
    BY <1>1, <1>3
    DEF EE_Init, InitErase, InitCopy, InitFormat, EE_Format, FormatErase0,
        FormatValid0, FormatErase1, CheckVersion
  <2> QED
    BY <2>1
<1>4. CASE EE_VerifyPageFullWriteVariable \/ EE_PageTransfer
  <2>1. Kept
    BY <1>1, <1>4
    DEF EE_VerifyPageFullWriteVariable, WriteRecord, ProgramData, ProgramAddr,
        WriteFails, EE_PageTransfer, StartTransfer, MarkReceive, CopyVariable,
        CopyFails, CopyDone, EraseOld, MarkValid
  <2> QED
    BY <2>1
<1>5. ASSUME NEW a \in Addr, NEW d \in Data, EE_WriteVariable(a, d) PROVE Kept
  BY <1>1, <1>5 DEF EE_WriteVariable
<1>6. CASE UNCHANGED vars
  BY <1>6 DEF vars
<1> QED
  BY <1>2, <1>3, <1>4, <1>5, <1>6 DEF Next, Driver

\* With a flash that works and one power loss, at whatever instant, the driver
\* is the atomic store.
THEOREM ImplementsStoreAlways ==
    ASSUME CompleteTable, NoLuckyGarbage, MaxPowerLosses <= 1,
           FaultsPossible = FALSE
    PROVE  Spec => ImplementsStore
<1>1. DriverInv /\ WholeInv /\ LossInv /\ [Next]_vars
         => DriverInv' /\ WholeInv' /\ LossInv'
  BY StepDriver, StepWhole, StepLoss
<1>2. ~flashError /\ [Next]_vars => ~flashError'
  BY NoError
<1>3. WholeInv /\ ~flashError => ~Split
  BY DEF WholeInv, Split
<1>4. Init => ~flashError
  BY DEF Init
<1>5. Spec => []~Split
  BY <1>1, <1>2, <1>3, <1>4, InitDriver, InitPromise, PTL DEF Spec
<1> QED
  BY <1>5, ImplementsStoreUnlessSplit, PTL
=============================================================================
