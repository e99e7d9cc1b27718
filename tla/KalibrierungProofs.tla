------------------------- MODULE KalibrierungProofs -------------------------
(***************************************************************************)
(* What is proved about module Kalibrierung for every set of channels,     *)
(* every set of pulse widths, every order of the table, and any number of  *)
(* calibrations and power losses.                                          *)
(***************************************************************************)
EXTENDS Kalibrierung, TLAPS

\* All values of the table, the flag aside, have an index below FlagIdx.
LEMMA TableComplete ==
    /\ FlagIdx \in Nat
    /\ \A i \in 0..(FlagIdx - 1) : Table[i] \in Key
    /\ \A k \in Key : \E i \in 0..(FlagIdx - 1) : Table[i] = k
BY KalibrierungAssumption

\* An entry is never taken for a variable that was not found.
LEMMA EntryFound == NotFound \notin Entry /\ Zero \in Entry
<1>1. ASSUME NotFound \in Entry PROVE FALSE
  <2>1. PICK w \in Width \cup {0}, n \in Nat :
            NotFound = [width |-> w, visit |-> n]
    BY <1>1 DEF Entry
  <2>2. w \in Nat
    BY KalibrierungAssumption
  <2>3. NotFound \in [width : Nat, visit : Nat]
    BY <2>1, <2>2
  <2> QED
    BY <2>3, KalibrierungAssumption
<1>2. Zero \in Entry
  BY DEF Zero, Entry
<1> QED
  BY <1>1, <1>2

\* What a store loop writes: one value of the table, or the flag.
LEMMA StoreTyped ==
    ASSUME TypeOK, NEW i \in 0..FlagIdx, EE_WriteVariable(i)
    PROVE  /\ stored' \in [Key -> Entry \cup {NotFound}]
           /\ storedReady' \in BOOLEAN
<1>1. CASE i < FlagIdx
  <2>1. Table[i] \in Key
    BY <1>1, TableComplete
  <2> QED
    BY <1>1, <2>1 DEF TypeOK, EE_WriteVariable
<1>2. CASE ~(i < FlagIdx)
  BY <1>2 DEF TypeOK, EE_WriteVariable
<1> QED
  BY <1>1, <1>2

\* One pulse keeps the entries of the table typed.
LEMMA PulseTyped ==
    ASSUME TypeOK, NEW c \in Channel, NEW w \in Width,
           FirstVisit(c, w) \/ Revisit(c, w)
    PROVE  /\ cal_val' \in [Key -> Entry]
           /\ first_visit' \in [Channel -> BOOLEAN]
           /\ visits' \in [Channel -> Nat]
<1>1. CASE FirstVisit(c, w)
  <2>1. [width |-> w, visit |-> visits[c] + 1] \in Entry
    BY DEF TypeOK, Entry
  <2> QED
    BY <1>1, <2>1 DEF TypeOK, FirstVisit
<1>2. CASE Revisit(c, w)
  <2>1. \A k \in Key : Widened(k, w) \in Entry
    BY DEF TypeOK, Widened, Entry
  <2> QED
    BY <1>2, <2>1 DEF TypeOK, Revisit
<1> QED
  BY <1>1, <1>2

LEMMA TypeInit == Init => TypeOK
<1> SUFFICES ASSUME Init PROVE TypeOK
  OBVIOUS
<1>1. 0 \in 0..FlagIdx /\ 0 \in 0..MaxStarts /\ 0 \in 0..MaxPowerLosses
  BY TableComplete, KalibrierungAssumption
<1>2. cal_val \in [Key -> Entry] /\ stored \in [Key -> Entry \cup {NotFound}]
  BY EntryFound DEF Init
<1>3. first_visit \in [Channel -> BOOLEAN] /\ visits \in [Channel -> Nat]
  BY DEF Init
<1> QED
  BY <1>1, <1>2, <1>3 DEF Init, TypeOK

LEMMA TypeStep == TypeOK /\ [Next]_vars => TypeOK'
<1> SUFFICES ASSUME TypeOK, [Next]_vars PROVE TypeOK'
  OBVIOUS
<1> USE TableComplete
<1>1. CASE setup_Fernsteuerung
  BY <1>1 DEF setup_Fernsteuerung, TypeOK, table, button, thread, eeprom,
      history
<1>2. CASE Load
  <2> USE <1>2 DEF Load, button, thread, eeprom, history
  <2>1. CASE loadIdx < FlagIdx
    <3>1. Table[loadIdx] \in Key
      BY <2>1 DEF TypeOK
    <3>2. cal_val' \in [Key -> Entry]
      BY <2>1, <3>1 DEF TypeOK
    <3> QED
      BY <2>1, <3>2 DEF TypeOK
  <2>2. CASE ~(loadIdx < FlagIdx)
    BY <2>2 DEF TypeOK
  <2> QED
    BY <2>1, <2>2
<1>3. CASE PowerLoss
  <2> USE <1>3 DEF PowerLoss, ResetRam, eeprom
  <2>1. powerLosses' \in 0..MaxPowerLosses
    BY KalibrierungAssumption DEF TypeOK
  <2>2. cal_val' \in [Key -> Entry] /\ first_visit' \in [Channel -> BOOLEAN]
    BY EntryFound
  <2>3. 0 \in 0..FlagIdx
    OBVIOUS
  <2> QED
    BY <2>1, <2>2, <2>3 DEF TypeOK
<1>4. ASSUME NEW c \in Channel, NEW w \in Width, rx_channel_interrupt(c, w)
      PROVE  TypeOK'
  BY <1>4, PulseTyped
  DEF rx_channel_interrupt, TypeOK, boot, button, thread, eeprom
<1>5. CASE start_calib
  <2>1. starts' \in 0..MaxStarts
    BY <1>5, KalibrierungAssumption DEF start_calib, TypeOK
  <2> QED
    BY <1>5, <2>1 DEF start_calib, TypeOK, boot, table, button, eeprom
<1>6. ASSUME NEW c \in Channel, SetFirstVisit(c) PROVE TypeOK'
  BY <1>6 DEF SetFirstVisit, TypeOK, boot, button, eeprom, history
<1>7. CASE stop_calib
  BY <1>7 DEF stop_calib, TypeOK, boot, table, button, eeprom, history
<1>8. CASE EndCalibration
  BY <1>8 DEF EndCalibration, TypeOK, boot, button, eeprom, history
<1>9. CASE RadioStore
  <2> USE <1>9 DEF RadioStore, boot, table, button, history
  <2>1. radioIdx \in 0..FlagIdx /\ EE_WriteVariable(radioIdx)
    BY DEF TypeOK
  <2>2. stored' \in [Key -> Entry \cup {NotFound}] /\ storedReady' \in BOOLEAN
    BY <2>1, StoreTyped
  <2>3. radioIdx' \in 0..FlagIdx /\ radio' \in {"idle", "store"}
    BY <2>1 DEF TypeOK
  <2> QED
    BY <2>2, <2>3 DEF TypeOK
<1>10. CASE ButtonStarts
  <2>1. starts' \in 0..MaxStarts
    BY <1>10, KalibrierungAssumption DEF ButtonStarts, TypeOK
  <2>2. first_visit' \in [Channel -> BOOLEAN]
    BY <1>10 DEF ButtonStarts
  <2> QED
    BY <1>10, <2>1, <2>2 DEF ButtonStarts, TypeOK, boot, thread, eeprom
<1>11. CASE ButtonEnds
  BY <1>11 DEF ButtonEnds, TypeOK, boot, thread, eeprom, history
<1>12. CASE IsrStore
  <2> USE <1>12 DEF IsrStore, boot, table, thread, history
  <2>1. isrIdx \in 0..FlagIdx /\ EE_WriteVariable(isrIdx)
    BY DEF TypeOK
  <2>2. stored' \in [Key -> Entry \cup {NotFound}] /\ storedReady' \in BOOLEAN
    BY <2>1, StoreTyped
  <2>3. /\ isrIdx' \in 0..FlagIdx /\ isr' \in BOOLEAN
        /\ on_off' \in BOOLEAN /\ timer_finish' \in BOOLEAN
    <3>1. CASE isrIdx = FlagIdx
      <4>1. isr' = FALSE /\ on_off' = FALSE /\ timer_finish' = FALSE
        BY <3>1
      <4>2. isrIdx' = 0
        BY <3>1
      <4>3. isrIdx' \in 0..FlagIdx
        BY <4>2
      <4> QED
        BY <4>1, <4>3
    <3>2. CASE isrIdx # FlagIdx
      BY <2>1, <3>2 DEF TypeOK
    <3> QED
      BY <3>1, <3>2
  <2> QED
    BY <2>2, <2>3 DEF TypeOK
<1>13. CASE timer_handler
  BY <1>13 DEF timer_handler, TypeOK, boot, table, thread, eeprom, history
<1>14. CASE UNCHANGED vars
  BY <1>14 DEF vars, TypeOK, boot, table, button, thread, eeprom, history
<1> QED
  BY <1>1, <1>2, <1>3, <1>4, <1>5, <1>6, <1>7, <1>8, <1>9, <1>10, <1>11,
     <1>12, <1>13, <1>14 DEF Next

\* Every variable keeps its type; in particular no loop counter of stop_calib,
\* calib_interrupt or setup_Fernsteuerung leaves cal_val.
THEOREM TypeCorrect == Spec => []TypeOK
BY TypeInit, TypeStep, PTL DEF Spec

-----------------------------------------------------------------------------
(* Storing.                                                                *)

\* The first n values of the table are in the EEPROM as they are in memory,
\* or in some version.
Equal(n) == \A j \in 0..(n - 1) : stored[Table[j]] = cal_val[Table[j]]
Found(n) == \A j \in 0..(n - 1) : stored[Table[j]] # NotFound

Saved == storedReady /\ stored = cal_val

\* How far each loop has come.  Only a calibration that is on changes the
\* table, and every end of one is followed by a loop that stores it anew.
StoreInv ==
    /\ isr => ~calibration_active /\ ready /\ Equal(isrIdx)
    /\ radio = "store" => ready /\ Found(radioIdx)
    /\ radio = "store" /\ ~isr /\ ~calibration_active => Equal(radioIdx)
    /\ radio # "store" /\ ~isr /\ ~calibration_active /\ ready => Saved
    /\ phase = "load" => storedReady
    /\ phase = "load" /\ ~ready /\ ~calibration_active => Equal(loadIdx)
    /\ FlagCommits

LEMMA EqualAll == TypeOK /\ Equal(FlagIdx) => stored = cal_val
<1> SUFFICES ASSUME TypeOK, Equal(FlagIdx) PROVE stored = cal_val
  OBVIOUS
<1>1. \A k \in Key : stored[k] = cal_val[k]
  BY TableComplete DEF Equal
<1> QED
  BY <1>1 DEF TypeOK

LEMMA FoundAll == Found(FlagIdx) => \A k \in Key : stored[k] # NotFound
BY TableComplete DEF Found

\* One turn of a store loop.
LEMMA StoreTurn ==
    ASSUME TypeOK, NEW i \in 0..FlagIdx, EE_WriteVariable(i),
           UNCHANGED cal_val
    PROVE  /\ i < FlagIdx => UNCHANGED storedReady
           /\ i = FlagIdx => UNCHANGED stored /\ storedReady' = ready
           /\ i < FlagIdx /\ Equal(i) => Equal(i + 1)'
           /\ i < FlagIdx /\ Found(i) => Found(i + 1)'
           /\ \A n \in 0..FlagIdx : Equal(n) => Equal(n)'
           /\ \A n \in 0..FlagIdx : Found(n) => Found(n)'
           /\ \A k \in Key : stored[k] # NotFound => stored'[k] # NotFound
<1>1. CASE i < FlagIdx
  <2>1. Table[i] \in Key /\ cal_val[Table[i]] \in Entry
    BY <1>1, TableComplete DEF TypeOK
  <2>2. cal_val[Table[i]] # NotFound
    BY <2>1, EntryFound
  <2>3. /\ stored' = [stored EXCEPT ![Table[i]] = cal_val[Table[i]]]
        /\ UNCHANGED storedReady
    BY <1>1 DEF EE_WriteVariable
  <2>4. /\ stored'[Table[i]] = cal_val[Table[i]]
        /\ \A k \in Key : stored'[k] = stored[k] \/ stored'[k] = cal_val[k]
        /\ \A k \in Key : k # Table[i] => stored'[k] = stored[k]
        /\ \A k \in Key : stored'[k] = stored[k] \/ stored'[k] # NotFound
    BY <2>1, <2>2, <2>3 DEF TypeOK
  <2>5. \A j \in 0..(FlagIdx - 1) : Table[j] \in Key
    BY TableComplete
  <2>6. \A n \in 0..FlagIdx : Equal(n) => Equal(n)'
    BY <2>4, <2>5, TableComplete DEF Equal
  <2>7. \A n \in 0..FlagIdx : Found(n) => Found(n)'
    BY <2>4, <2>5, TableComplete DEF Found
  <2>8. Equal(i) => Equal(i + 1)'
    BY <1>1, <2>4, <2>5, TableComplete DEF Equal
  <2>9. Found(i) => Found(i + 1)'
    BY <1>1, <2>2, <2>4, <2>5, TableComplete DEF Found
  <2>10. \A k \in Key : stored[k] # NotFound => stored'[k] # NotFound
    BY <2>4
  <2>11. i # FlagIdx
    BY <1>1, TableComplete
  <2> QED
    BY <2>3, <2>6, <2>7, <2>8, <2>9, <2>10, <2>11
<1>2. CASE i = FlagIdx
  <2>1. UNCHANGED stored /\ storedReady' = ready
    BY <1>2, TableComplete DEF EE_WriteVariable
  <2>2. ~(i < FlagIdx)
    BY <1>2, TableComplete
  <2> QED
    BY <2>1, <2>2, <1>2 DEF Equal, Found
<1> QED
  BY <1>1, <1>2, TableComplete

LEMMA StoreInit == Init => StoreInv
BY DEF Init, StoreInv, FlagCommits

\* The steps that store.
LEMMA RadioStoreStep ==
    ASSUME TypeOK, StoreInv, RadioStore PROVE StoreInv'
<1>1. /\ ~isr /\ radio = "store" /\ ready /\ Found(radioIdx)
      /\ ~calibration_active => Equal(radioIdx)
      /\ EE_WriteVariable(radioIdx)
  BY DEF StoreInv, RadioStore, Running
<1>2. UNCHANGED <<phase, loadIdx, cal_val, ready, calibration_active, isr>>
  BY DEF RadioStore, boot, table, button
<1>3. radioIdx \in 0..FlagIdx
  BY DEF TypeOK
<1>4. PICK i \in 0..FlagIdx : i = radioIdx
  BY <1>3
<1>5. /\ i < FlagIdx => UNCHANGED storedReady
      /\ i = FlagIdx => UNCHANGED stored /\ storedReady' = ready
      /\ i < FlagIdx /\ Equal(i) => Equal(i + 1)'
      /\ i < FlagIdx /\ Found(i) => Found(i + 1)'
      /\ \A k \in Key : stored[k] # NotFound => stored'[k] # NotFound
  <2>1. UNCHANGED cal_val /\ EE_WriteVariable(i)
    BY <1>1, <1>2, <1>4
  <2> QED
    BY <2>1, StoreTurn
<1>6. phase' = "load" /\ ~ready' /\ ~calibration_active' => Equal(loadIdx)'
  BY <1>1, <1>2
<1>7. CASE radioIdx = FlagIdx
  <2>1. radio' = "idle"
    BY <1>7 DEF RadioStore
  <2>2. UNCHANGED stored /\ storedReady' = ready
    BY <1>4, <1>5, <1>7
  <2>3. \A k \in Key : stored[k] # NotFound
    BY <1>1, <1>7, FoundAll
  <2>4. FlagCommits'
    BY <2>2, <2>3 DEF FlagCommits
  <2>5. ~calibration_active => stored = cal_val
    BY <1>1, <1>7, EqualAll
  <2>6. ~calibration_active' => Saved'
    BY <1>1, <1>2, <2>2, <2>5 DEF Saved
  <2>7. storedReady'
    BY <1>1, <2>2
  <2> QED
    BY <1>1, <1>2, <1>6, <2>1, <2>4, <2>6, <2>7 DEF StoreInv
<1>8. CASE radioIdx # FlagIdx
  <2>1. radio' = "store" /\ radioIdx' = radioIdx + 1
    BY <1>1, <1>8 DEF RadioStore
  <2>2. radioIdx < FlagIdx
    BY <1>3, <1>8, TableComplete
  <2>3. UNCHANGED storedReady
    BY <1>4, <1>5, <2>2
  <2>4. FlagCommits'
    BY <1>5, <2>3 DEF StoreInv, FlagCommits
  <2>5. Found(radioIdx)'
    <3>1. Found(i + 1)'
      BY <1>1, <1>4, <1>5, <2>2
    <3> QED
      BY <1>4, <2>1, <3>1 DEF Found
  <2>6. ~calibration_active' => Equal(radioIdx)'
    <3>1. ~calibration_active' => Equal(i + 1)'
      BY <1>1, <1>2, <1>4, <1>5, <2>2
    <3> QED
      BY <1>4, <2>1, <3>1 DEF Equal
  <2>7. phase' = "load" => storedReady'
    BY <1>2, <2>3 DEF StoreInv
  <2>8. ready' /\ ~isr'
    BY <1>1, <1>2
  <2> QED
    BY <1>6, <2>1, <2>4, <2>5, <2>6, <2>7, <2>8 DEF StoreInv
<1> QED
  BY <1>7, <1>8

LEMMA IsrStoreStep ==
    ASSUME TypeOK, StoreInv, IsrStore PROVE StoreInv'
<1>1. /\ isr /\ ~calibration_active /\ ready /\ Equal(isrIdx)
      /\ radio = "store" => Found(radioIdx)
      /\ EE_WriteVariable(isrIdx)
  BY DEF StoreInv, IsrStore
<1>2. UNCHANGED <<phase, loadIdx, cal_val, ready, calibration_active, radio,
                  radioIdx>>
  BY DEF IsrStore, boot, table, thread
<1>3. /\ isrIdx \in 0..FlagIdx /\ loadIdx \in 0..FlagIdx
      /\ radioIdx \in 0..FlagIdx
  BY DEF TypeOK
<1>4. PICK i \in 0..FlagIdx : i = isrIdx
  BY <1>3
<1>5. PICK r \in 0..FlagIdx : r = radioIdx
  BY <1>3
<1>6. /\ i < FlagIdx => UNCHANGED storedReady
      /\ i = FlagIdx => UNCHANGED stored /\ storedReady' = ready
      /\ i < FlagIdx /\ Equal(i) => Equal(i + 1)'
      /\ Found(r) => Found(r)'
      /\ \A k \in Key : stored[k] # NotFound => stored'[k] # NotFound
  <2>1. UNCHANGED cal_val /\ EE_WriteVariable(i)
    BY <1>1, <1>2, <1>4
  <2> QED
    BY <2>1, StoreTurn
<1>7. radio' = "store" => ready' /\ Found(radioIdx)'
  <2>1. radio' = "store" => ready' /\ Found(r)'
    BY <1>1, <1>2, <1>5, <1>6
  <2>2. radioIdx' = r
    BY <1>2, <1>5
  <2> QED
    BY <2>1, <2>2 DEF Found
<1>8. CASE isrIdx = FlagIdx
  <2>1. isr' = FALSE
    BY <1>8 DEF IsrStore
  <2>2. UNCHANGED stored /\ storedReady' = ready
    BY <1>4, <1>6, <1>8
  <2>3. stored = cal_val
    BY <1>1, <1>8, EqualAll
  <2>4. Saved'
    BY <1>1, <1>2, <2>2, <2>3 DEF Saved
  <2>5. \A k \in Key : stored[k] # NotFound
    BY <2>3, EntryFound DEF TypeOK
  <2>6. FlagCommits'
    BY <2>2, <2>5 DEF FlagCommits
  <2>7. Equal(radioIdx)'
    BY <2>4 DEF Saved, Equal
  <2>8. ready' /\ storedReady'
    BY <1>1, <1>2, <2>2
  <2> QED
    BY <1>7, <2>1, <2>4, <2>6, <2>7, <2>8 DEF StoreInv
<1>9. CASE isrIdx # FlagIdx
  <2>1. isr' /\ isrIdx' = isrIdx + 1
    BY <1>1, <1>9 DEF IsrStore
  <2>2. isrIdx < FlagIdx
    BY <1>3, <1>9, TableComplete
  <2>3. UNCHANGED storedReady
    BY <1>4, <1>6, <2>2
  <2>4. FlagCommits'
    BY <1>6, <2>3 DEF StoreInv, FlagCommits
  <2>5. Equal(isrIdx)'
    <3>1. Equal(i + 1)'
      BY <1>1, <1>4, <1>6, <2>2
    <3> QED
      BY <1>4, <2>1, <3>1 DEF Equal
  <2>6. phase' = "load" => storedReady'
    BY <1>2, <2>3 DEF StoreInv
  <2>7. ready' /\ ~calibration_active'
    BY <1>1, <1>2
  <2> QED
    BY <1>7, <2>1, <2>4, <2>5, <2>6, <2>7 DEF StoreInv
<1> QED
  BY <1>8, <1>9

\* The steps that load.
LEMMA LoadStep ==
    ASSUME TypeOK, StoreInv, Load PROVE StoreInv'
<1>1. /\ ~isr /\ phase = "load" /\ loadIdx \in 0..FlagIdx /\ storedReady
      /\ UNCHANGED <<calibration_active, isr, radio, radioIdx, stored,
                     storedReady>>
  BY DEF Load, Running, TypeOK, StoreInv, button, thread, eeprom
<1>2. FlagCommits' /\ \A k \in Key : stored[k] # NotFound
  BY <1>1 DEF FlagCommits, StoreInv
<1>3. radio' = "store" => Found(radioIdx)'
  BY <1>1 DEF StoreInv, Found
<1>4. CASE loadIdx < FlagIdx
  <2>1. Table[loadIdx] \in Key /\ stored[Table[loadIdx]] # NotFound
    BY <1>1, <1>2, <1>4, TableComplete
  <2>2. /\ cal_val' = [cal_val EXCEPT ![Table[loadIdx]] =
                         stored[Table[loadIdx]]]
        /\ loadIdx' = loadIdx + 1
        /\ UNCHANGED <<phase, ready>>
    BY <1>4, <2>1 DEF Load
  <2>3. \A k \in Key : stored[k] = cal_val[k] => stored'[k] = cal_val'[k]
    BY <1>1, <2>1, <2>2 DEF TypeOK
  <2>4. stored'[Table[loadIdx]] = cal_val'[Table[loadIdx]]
    BY <1>1, <2>1, <2>2 DEF TypeOK
  <2>5. ~ready' /\ ~calibration_active' => Equal(loadIdx)'
    <3>1. SUFFICES ASSUME ~ready', ~calibration_active',
                          NEW j \in 0..(loadIdx' - 1)
                   PROVE  stored'[Table[j]] = cal_val'[Table[j]]
      BY DEF Equal
    <3>2. Equal(loadIdx)
      BY <1>1, <2>2, <3>1 DEF StoreInv
    <3>3. j \in 0..(loadIdx - 1) \/ j = loadIdx
      BY <1>1, <2>2
    <3>4. CASE j \in 0..(loadIdx - 1)
      BY <1>1, <1>4, <2>3, <3>2, <3>4, TableComplete DEF Equal
    <3>5. CASE j = loadIdx
      BY <2>4, <3>5
    <3> QED
      BY <3>3, <3>4, <3>5
  <2>6. radio' = "store" /\ ~calibration_active' /\ ~isr'
        => Equal(radioIdx)'
    <3>1. radioIdx' = radioIdx /\ radioIdx \in 0..FlagIdx
      BY <1>1 DEF TypeOK
    <3>2. Equal(radioIdx) => Equal(radioIdx)'
      BY <2>3, <3>1, TableComplete DEF Equal
    <3> QED
      BY <1>1, <3>2 DEF StoreInv
  <2>7. radio' # "store" /\ ~calibration_active' /\ ready' /\ ~isr' => Saved'
    <3>1. Saved => Saved'
      BY <1>1, <2>1, <2>2 DEF Saved, TypeOK
    <3> QED
      BY <1>1, <2>2, <3>1 DEF StoreInv
  <2>8. radio' = "store" => ready'
    BY <1>1, <2>2 DEF StoreInv
  <2> QED
    BY <1>1, <1>2, <1>3, <2>2, <2>5, <2>6, <2>7, <2>8 DEF StoreInv
<1>5. CASE ~(loadIdx < FlagIdx)
  <2>1. loadIdx = FlagIdx
    BY <1>1, <1>5, TableComplete
  <2>2. ready' /\ phase' = "on" /\ UNCHANGED cal_val
    BY <1>1, <1>5 DEF Load
  <2>3. ~calibration_active /\ ~ready => stored = cal_val
    BY <1>1, <2>1, EqualAll DEF StoreInv
  <2>4. radio' # "store" /\ ~calibration_active' => Saved'
    <3>1. CASE ready
      BY <1>1, <2>2, <3>1 DEF StoreInv, Saved
    <3>2. CASE ~ready
      BY <1>1, <2>2, <2>3, <3>2 DEF Saved
    <3> QED
      BY <3>1, <3>2
  <2>5. radio' = "store" /\ ~calibration_active' => Equal(radioIdx)'
    BY <1>1, <2>2 DEF StoreInv, Equal
  <2> QED
    BY <1>1, <1>2, <1>3, <2>2, <2>4, <2>5 DEF StoreInv
<1> QED
  BY <1>4, <1>5

\* A loop starts with the first value.
CountersReset ==
    /\ phase # "load" => loadIdx = 0
    /\ radio # "store" => radioIdx = 0
    /\ ~isr => isrIdx = 0

LEMMA CountersInit == Init => CountersReset
BY DEF Init, CountersReset

LEMMA CountersStep ==
    ASSUME CountersReset, [Next]_vars PROVE CountersReset'
<1> USE DEF CountersReset, Running
<1>1. CASE setup_Fernsteuerung
  BY <1>1 DEF setup_Fernsteuerung, thread, button
<1>2. CASE Load
  BY <1>2 DEF Load, thread, button
<1>3. CASE PowerLoss
  <2>1. loadIdx' = 0 /\ radioIdx' = 0 /\ isrIdx' = 0
    BY <1>3 DEF PowerLoss, ResetRam
  <2> QED
    BY <2>1
<1>4. ASSUME NEW c \in Channel, NEW w \in Width, rx_channel_interrupt(c, w)
      PROVE  CountersReset'
  BY <1>4 DEF rx_channel_interrupt, boot, thread, button
<1>5. CASE start_calib
  BY <1>5 DEF start_calib, boot, button
<1>6. ASSUME NEW c \in Channel, SetFirstVisit(c) PROVE CountersReset'
  BY <1>6 DEF SetFirstVisit, boot, button
<1>7. CASE stop_calib
  BY <1>7 DEF stop_calib, boot, button
<1>8. CASE EndCalibration
  BY <1>8 DEF EndCalibration, boot, button
<1>9. CASE RadioStore
  BY <1>9 DEF RadioStore, boot, button
<1>10. CASE ButtonStarts
  BY <1>10 DEF ButtonStarts, boot, thread
<1>11. CASE ButtonEnds
  BY <1>11 DEF ButtonEnds, boot, thread
<1>12. CASE IsrStore
  BY <1>12 DEF IsrStore, boot, thread
<1>13. CASE timer_handler
  BY <1>13 DEF timer_handler, boot, thread
<1>14. CASE UNCHANGED vars
  BY <1>14 DEF vars, boot, thread, button
<1> QED
  BY <1>1, <1>2, <1>3, <1>4, <1>5, <1>6, <1>7, <1>8, <1>9, <1>10, <1>11,
     <1>12, <1>13, <1>14 DEF Next

LEMMA StoreStep ==
    ASSUME TypeOK, CountersReset, StoreInv, [Next]_vars PROVE StoreInv'
<1>1. CASE setup_Fernsteuerung
  <2>1. /\ UNCHANGED <<loadIdx, cal_val, ready, calibration_active, radio,
                       radioIdx, isr, isrIdx, stored, storedReady>>
        /\ loadIdx = 0
        /\ phase' = "load" => storedReady
    BY <1>1 DEF setup_Fernsteuerung, CountersReset, table, button, thread,
                eeprom
  <2>2. Equal(loadIdx)'
    BY <2>1 DEF Equal
  <2> QED
    BY <2>1, <2>2 DEF StoreInv, Equal, Found, Saved, FlagCommits
<1>2. CASE Load
  BY <1>2, LoadStep
<1>3. CASE PowerLoss
  BY <1>3 DEF PowerLoss, ResetRam, eeprom, StoreInv, FlagCommits
<1>4. ASSUME NEW c \in Channel, NEW w \in Width, rx_channel_interrupt(c, w)
      PROVE  StoreInv'
  BY <1>4 DEF rx_channel_interrupt, Running, boot, button, thread, eeprom,
              StoreInv, Found, FlagCommits
<1>5. CASE start_calib
  BY <1>5 DEF start_calib, Running, boot, table, button, eeprom, StoreInv,
              FlagCommits
<1>6. ASSUME NEW c \in Channel, SetFirstVisit(c) PROVE StoreInv'
  BY <1>6 DEF SetFirstVisit, Running, boot, button, eeprom, StoreInv, Saved,
              Equal, FlagCommits
<1>7. CASE stop_calib
  BY <1>7 DEF stop_calib, Running, boot, table, button, eeprom, StoreInv,
              Equal, FlagCommits
<1>8. CASE EndCalibration
  BY <1>8 DEF EndCalibration, Running, CountersReset, boot, button, eeprom,
              StoreInv, Equal, Found, FlagCommits
<1>9. CASE RadioStore
  BY <1>9, RadioStoreStep
<1>10. CASE ButtonStarts
  BY <1>10 DEF ButtonStarts, Running, boot, thread, eeprom, StoreInv, Found,
               FlagCommits
<1>11. CASE ButtonEnds
  BY <1>11 DEF ButtonEnds, Running, CountersReset, boot, thread, eeprom,
               StoreInv, Equal, Found, FlagCommits
<1>12. CASE IsrStore
  BY <1>12, IsrStoreStep
<1>13. CASE timer_handler
  BY <1>13 DEF timer_handler, Running, boot, table, thread, eeprom, StoreInv,
               Equal, Found, Saved, FlagCommits
<1>14. CASE UNCHANGED vars
  BY <1>14 DEF vars, boot, table, button, thread, eeprom, StoreInv, Equal,
               Found, Saved, FlagCommits
<1> QED
  BY <1>1, <1>2, <1>3, <1>4, <1>5, <1>6, <1>7, <1>8, <1>9, <1>10, <1>11,
     <1>12, <1>13, <1>14 DEF Next

LEMMA StoreAlways == Spec => [](TypeOK /\ CountersReset /\ StoreInv)
<1>1. Init => TypeOK /\ CountersReset /\ StoreInv
  BY TypeInit, CountersInit, StoreInit
<1>2. TypeOK /\ CountersReset /\ StoreInv /\ [Next]_vars
      => (TypeOK /\ CountersReset /\ StoreInv)'
  BY TypeStep, CountersStep, StoreStep
<1> QED
  BY <1>1, <1>2, PTL DEF Spec

\* The flag in the EEPROM is a commit mark, whatever stop_calib and
\* calib_interrupt preempt and wherever power is lost.
THEOREM FlagCommitsAlways == Spec => []FlagCommits
<1>1. StoreInv => FlagCommits
  BY DEF StoreInv
<1> QED
  BY <1>1, StoreAlways, PTL

\* Outside a calibration and the loops, a table in use is the stored one.
THEOREM SavedAlways == Spec => []SavedWhenQuiet
<1>1. StoreInv => SavedWhenQuiet
  BY DEF StoreInv, SavedWhenQuiet, Quiet, Saved
<1> QED
  BY <1>1, StoreAlways, PTL

-----------------------------------------------------------------------------
(* Ranges.                                                                 *)

\* The entries there are for a value, in memory and in the EEPROM.
Held(k) == {cal_val[k], stored[k]} \ {NotFound}

\* Entries of one channel collected since the same first visit are in order,
\* in whichever combination of memory and EEPROM they are found.  No entry
\* bears the number of a visit to come; entries from before any visit start
\* from 0, which only a maximum leaves.
RangeInv ==
    /\ \A k \in Key : \A e \in Held(k) :
           /\ e.visit <= visits[k[1]]
           /\ e.visit = 0 /\ k[2] # "max" => e.width = 0
    /\ \A c \in Channel :
           \A e \in Held(<<c, "null">>), f \in Held(<<c, "max">>) :
               e.visit = f.visit => e.width <= f.width
    /\ \A c \in Bipolar :
           \A e \in Held(<<c, "null">>), f \in Held(<<c, "min">>) :
               e.visit = f.visit => f.width <= e.width

LEMMA EntryTyped == \A e \in Entry : e.width \in Nat /\ e.visit \in Nat
<1>1. Width \cup {0} \subseteq Nat
  BY KalibrierungAssumption
<1>2. TAKE e \in Entry
<1>3. e.width \in Width \cup {0} /\ e.visit \in Nat
  BY DEF Entry
<1> QED
  BY <1>1, <1>3

LEMMA HeldTyped ==
    ASSUME TypeOK, NEW k \in Key, NEW e \in Held(k)
    PROVE  e \in Entry /\ e.width \in Nat /\ e.visit \in Nat
<1>1. cal_val[k] \in Entry /\ stored[k] \in Entry \cup {NotFound}
  BY DEF TypeOK
<1>2. e \in Entry
  BY <1>1 DEF Held
<1> QED
  BY <1>2, EntryTyped

LEMMA KeysOf ==
    /\ \A c \in Channel : <<c, "null">> \in Key /\ <<c, "max">> \in Key
    /\ \A c \in Bipolar : c \in Channel /\ <<c, "min">> \in Key
BY DEF Channel, Key

\* An entry that only widens the range it was part of.
Wider(k, d, e) ==
    /\ d.visit = e.visit
    /\ k[2] = "max" => d.width <= e.width
    /\ k[2] = "min" => e.width <= d.width
    /\ k[2] = "null" => e.width <= d.width
    /\ k[2] = "null" /\ k[1] \in Bipolar => e.width = d.width

\* A step after which every entry was there before, or is Zero, or widens a
\* range, keeps the order.
LEMMA RangeKept ==
    ASSUME TypeOK, TypeOK', RangeInv, UNCHANGED visits,
           \A k \in Key : \A e \in Held(k)' :
               e = Zero \/ \E d \in Held(k) : Wider(k, d, e)
    PROVE  RangeInv'
<1> DEFINE Old(k, e) == e = Zero \/ \E d \in Held(k) : Wider(k, d, e)
<1>1. \A k \in Key : \A e \in Held(k)' :
          e.width \in Nat /\ e.visit \in Nat /\ Old(k, e)
  <2>1. ASSUME NEW k \in Key, NEW e \in Held(k)'
        PROVE  e.width \in Nat /\ e.visit \in Nat
    <3>1. cal_val'[k] \in Entry /\ stored'[k] \in Entry \cup {NotFound}
      BY DEF TypeOK
    <3>2. e \in Entry
      BY <2>1, <3>1 DEF Held
    <3> QED
      BY <3>2, EntryTyped
  <2> QED
    BY <2>1
<1>2. ASSUME NEW k \in Key, NEW e \in Held(k)'
      PROVE  /\ e.visit <= visits'[k[1]]
             /\ e.visit = 0 /\ k[2] # "max" => e.width = 0
  <2>1. k[1] \in Channel /\ k[2] \in {"max", "min", "null"}
    BY DEF Key, Channel
  <2>2. CASE e = Zero
    BY <2>1, <2>2 DEF Zero, TypeOK
  <2>3. ASSUME NEW d \in Held(k), Wider(k, d, e)
        PROVE  /\ e.visit <= visits'[k[1]]
               /\ e.visit = 0 /\ k[2] # "max" => e.width = 0
    <3>1. /\ d.visit <= visits[k[1]]
          /\ d.visit = 0 /\ k[2] # "max" => d.width = 0
      BY DEF RangeInv
    <3> QED
      BY <1>1, <2>1, <2>3, <3>1, HeldTyped DEF Wider
  <2> QED
    BY <1>1, <2>2, <2>3
<1>3. ASSUME NEW c \in Channel,
             NEW e \in Held(<<c, "null">>)', NEW f \in Held(<<c, "max">>)',
             e.visit = f.visit
      PROVE  e.width <= f.width
  <2>1. <<c, "null">> \in Key /\ <<c, "max">> \in Key
    BY KeysOf
  <2>2. /\ e.width \in Nat /\ Old(<<c, "null">>, e)
        /\ f.width \in Nat /\ Old(<<c, "max">>, f)
        /\ e.visit = 0 => e.width = 0
    BY <1>1, <1>2, <2>1
  <2>3. CASE e = Zero
    BY <2>2, <2>3 DEF Zero
  <2>4. CASE f = Zero
    BY <1>3, <2>2, <2>4 DEF Zero
  <2>5. ASSUME NEW d \in Held(<<c, "null">>), Wider(<<c, "null">>, d, e),
               NEW g \in Held(<<c, "max">>), Wider(<<c, "max">>, g, f)
        PROVE  e.width <= f.width
    <3>1. d.visit = g.visit => d.width <= g.width
      BY DEF RangeInv
    <3>2. d.width \in Nat /\ g.width \in Nat
      BY <2>1, HeldTyped
    <3> QED
      BY <1>3, <2>2, <2>5, <3>1, <3>2 DEF Wider
  <2> QED
    BY <2>2, <2>3, <2>4, <2>5
<1>4. ASSUME NEW c \in Bipolar,
             NEW e \in Held(<<c, "null">>)', NEW f \in Held(<<c, "min">>)',
             e.visit = f.visit
      PROVE  f.width <= e.width
  <2>1. <<c, "null">> \in Key /\ <<c, "min">> \in Key
    BY KeysOf
  <2>2. /\ e.width \in Nat /\ Old(<<c, "null">>, e)
        /\ f.width \in Nat /\ Old(<<c, "min">>, f)
        /\ f.visit = 0 => f.width = 0
    BY <1>1, <1>2, <2>1
  <2>3. CASE e = Zero
    BY <1>4, <2>2, <2>3 DEF Zero
  <2>4. CASE f = Zero
    BY <2>2, <2>4 DEF Zero
  <2>5. ASSUME NEW d \in Held(<<c, "null">>), Wider(<<c, "null">>, d, e),
               NEW g \in Held(<<c, "min">>), Wider(<<c, "min">>, g, f)
        PROVE  f.width <= e.width
    <3>1. d.visit = g.visit => g.width <= d.width
      BY DEF RangeInv
    <3>2. d.width \in Nat /\ g.width \in Nat
      BY <2>1, HeldTyped
    <3> QED
      BY <1>4, <2>2, <2>5, <3>1, <3>2 DEF Wider
  <2> QED
    BY <2>2, <2>3, <2>4, <2>5
<1> QED
  BY <1>2, <1>3, <1>4 DEF RangeInv

\* Storing, loading and forgetting make no new entries.
LEMMA RangeMoved ==
    ASSUME TypeOK, TypeOK', RangeInv, UNCHANGED visits,
           \A k \in Key : /\ cal_val'[k] \in {cal_val[k], stored[k], Zero}
                          /\ stored'[k] \in {cal_val[k], stored[k]}
    PROVE  RangeInv'
<1>1. ASSUME NEW k \in Key, NEW e \in Held(k)'
      PROVE  e = Zero \/ \E d \in Held(k) : Wider(k, d, e)
  <2>1. e = Zero \/ e \in Held(k)
    BY DEF Held
  <2>2. ASSUME e \in Held(k) PROVE Wider(k, e, e)
    <3>1. e.width \in Nat
      BY <2>2, HeldTyped
    <3> QED
      BY <3>1 DEF Wider
  <2> QED
    BY <2>1, <2>2
<1> QED
  BY <1>1, RangeKept

LEMMA WriteMoves ==
    ASSUME TypeOK, NEW i \in 0..FlagIdx, EE_WriteVariable(i)
    PROVE  \A k \in Key : stored'[k] \in {cal_val[k], stored[k]}
<1>1. CASE i < FlagIdx
  <2>1. Table[i] \in Key
    BY <1>1, TableComplete
  <2>2. stored' = [stored EXCEPT ![Table[i]] = cal_val[Table[i]]]
    BY <1>1 DEF EE_WriteVariable
  <2> QED
    BY <2>1, <2>2 DEF TypeOK
<1>2. CASE ~(i < FlagIdx)
  BY <1>2 DEF EE_WriteVariable
<1> QED
  BY <1>1, <1>2

LEMMA LoadMoves ==
    ASSUME TypeOK, Load
    PROVE  \A k \in Key : cal_val'[k] \in {cal_val[k], stored[k]}
<1>1. CASE loadIdx < FlagIdx
  <2>1. Table[loadIdx] \in Key
    BY <1>1, TableComplete DEF TypeOK
  <2>2. cal_val' = cal_val
        \/ cal_val' = [cal_val EXCEPT ![Table[loadIdx]] =
                                        stored[Table[loadIdx]]]
    BY <1>1 DEF Load
  <2> QED
    BY <2>1, <2>2 DEF TypeOK
<1>2. CASE ~(loadIdx < FlagIdx)
  BY <1>2 DEF Load
<1> QED
  BY <1>1, <1>2

LEMMA RevisitKeeps ==
    ASSUME TypeOK, TypeOK', RangeInv, NEW c \in Channel, NEW w \in Width,
           Revisit(c, w), UNCHANGED stored
    PROVE  RangeInv'
<1>1. w \in Nat
  BY KalibrierungAssumption
<1>2. ASSUME NEW k \in Key PROVE Wider(k, cal_val[k], Widened(k, w))
  <2>1. cal_val[k] \in Entry
    BY DEF TypeOK
  <2>2. /\ cal_val[k].width \in Nat
        /\ cal_val[k] = [width |-> cal_val[k].width, visit |-> cal_val[k].visit]
    BY <2>1, EntryTyped DEF Entry
  <2>3. k[1] \in Bipolar => k[1] \notin Unipolar
    BY KalibrierungAssumption
  <2>4. Widened(k, w).visit = cal_val[k].visit
    BY <2>2 DEF Widened
  <2>5. Widened(k, w).width =
          IF k[2] = "max"
          THEN IF w > cal_val[k].width THEN w ELSE cal_val[k].width
          ELSE IF k[2] = "min" \/ k[1] \in Unipolar
               THEN IF w < cal_val[k].width THEN w ELSE cal_val[k].width
               ELSE cal_val[k].width
    BY <2>2 DEF Widened
  <2> QED
    BY <1>1, <2>2, <2>3, <2>4, <2>5 DEF Wider
<1>3. ASSUME NEW k \in Key, NEW e \in Held(k)'
      PROVE  \E d \in Held(k) : Wider(k, d, e)
  <2>1. cal_val'[k] \in {cal_val[k], Widened(k, w)}
    BY DEF Revisit
  <2>2. cal_val[k] \in Held(k)
    BY EntryFound DEF TypeOK, Held
  <2>3. e \in Held(k) \/ e = Widened(k, w)
    BY <2>1 DEF Held
  <2>4. ASSUME e \in Held(k) PROVE Wider(k, e, e)
    <3>1. e.width \in Nat
      BY <2>4, HeldTyped
    <3> QED
      BY <3>1 DEF Wider
  <2> QED
    BY <1>2, <2>2, <2>3, <2>4
<1>4. UNCHANGED visits
  BY DEF Revisit
<1> QED
  BY <1>3, <1>4, RangeKept

LEMMA FirstVisitKeeps ==
    ASSUME TypeOK, RangeInv, NEW c \in Channel, NEW w \in Width,
           FirstVisit(c, w), UNCHANGED stored
    PROVE  RangeInv'
<1> DEFINE new == [width |-> w, visit |-> visits[c] + 1]
<1>1. /\ w \in Nat
      /\ visits[c] \in Nat
      /\ \A d \in Channel : visits[d] \in Nat /\ visits'[d] \in Nat
      /\ visits'[c] = visits[c] + 1
      /\ \A d \in Channel : d # c => visits'[d] = visits[d]
  BY KalibrierungAssumption DEF FirstVisit, TypeOK
<1>2. ASSUME NEW k \in Key
      PROVE  cal_val'[k] = IF k[1] = c THEN new ELSE cal_val[k]
  BY DEF FirstVisit
<1>3. ASSUME NEW k \in Key, NEW e \in Held(k)'
      PROVE  e \in Held(k) \/ (k[1] = c /\ e = new)
  BY <1>2 DEF Held
<1>4. ASSUME NEW k \in Key, NEW e \in Held(k)
      PROVE  /\ e.width \in Nat /\ e.visit \in Nat
             /\ e.visit <= visits[k[1]]
             /\ k[1] = c => e.visit # new.visit
  <2>1. e.visit <= visits[k[1]]
    BY DEF RangeInv
  <2>2. e.visit \in Nat /\ e.width \in Nat
    BY HeldTyped
  <2> QED
    BY <1>1, <2>1, <2>2
<1>5. ASSUME NEW k \in Key, NEW e \in Held(k)'
      PROVE  /\ e.visit <= visits'[k[1]]
             /\ e.visit = 0 /\ k[2] # "max" => e.width = 0
  <2>1. k[1] \in Channel
    BY DEF Key, Channel
  <2>2. CASE e \in Held(k)
    <3>1. e.visit = 0 /\ k[2] # "max" => e.width = 0
      BY <2>2 DEF RangeInv
    <3> QED
      BY <1>1, <1>4, <2>1, <2>2, <3>1
  <2>3. CASE k[1] = c /\ e = new
    BY <1>1, <2>3
  <2> QED
    BY <1>3, <2>2, <2>3
<1>6. ASSUME NEW d \in Channel,
             NEW e \in Held(<<d, "null">>)', NEW f \in Held(<<d, "max">>)',
             e.visit = f.visit
      PROVE  e.width <= f.width
  <2>1. <<d, "null">> \in Key /\ <<d, "max">> \in Key
    BY KeysOf
  <2>2. CASE e \in Held(<<d, "null">>) /\ f \in Held(<<d, "max">>)
    BY <1>6, <2>2 DEF RangeInv
  <2>3. CASE d = c /\ e = new /\ f = new
    BY <1>1, <2>3
  <2> QED
    BY <1>3, <1>4, <1>6, <2>1, <2>2, <2>3
<1>7. ASSUME NEW d \in Bipolar,
             NEW e \in Held(<<d, "null">>)', NEW f \in Held(<<d, "min">>)',
             e.visit = f.visit
      PROVE  f.width <= e.width
  <2>1. <<d, "null">> \in Key /\ <<d, "min">> \in Key
    BY KeysOf
  <2>2. CASE e \in Held(<<d, "null">>) /\ f \in Held(<<d, "min">>)
    BY <1>7, <2>2 DEF RangeInv
  <2>3. CASE d = c /\ e = new /\ f = new
    BY <1>1, <2>3
  <2> QED
    BY <1>3, <1>4, <1>7, <2>1, <2>2, <2>3
<1> QED
  BY <1>5, <1>6, <1>7 DEF RangeInv

LEMMA RangeInit == Init => RangeInv
<1> SUFFICES ASSUME Init PROVE RangeInv
  OBVIOUS
<1>1. \A k \in Key : \A e \in Held(k) : e = Zero
  BY DEF Init, Held
<1>2. \A k \in Key : visits[k[1]] = 0
  <2>1. \A k \in Key : k[1] \in Channel
    BY DEF Key, Channel
  <2> QED
    BY <2>1 DEF Init
<1>3. Zero.width = 0 /\ Zero.visit = 0
  BY DEF Zero
<1>4. \A k \in Key : \A e \in Held(k) : e.width = 0 /\ e.visit = 0
  BY <1>1, <1>3
<1>5. \A k \in Key : \A e \in Held(k) :
          /\ e.visit <= visits[k[1]]
          /\ e.visit = 0 /\ k[2] # "max" => e.width = 0
  BY <1>2, <1>4
<1>6. \A c \in Channel :
          \A e \in Held(<<c, "null">>), f \in Held(<<c, "max">>) :
              e.width <= f.width
  BY <1>4, KeysOf
<1>7. \A c \in Bipolar :
          \A e \in Held(<<c, "null">>), f \in Held(<<c, "min">>) :
              f.width <= e.width
  <2>1. \A c \in Bipolar : <<c, "null">> \in Key /\ <<c, "min">> \in Key
    BY KeysOf
  <2>2. ASSUME NEW c \in Bipolar,
               NEW e \in Held(<<c, "null">>), NEW f \in Held(<<c, "min">>)
        PROVE  e.width = 0 /\ f.width = 0
    BY <1>4, <2>1
  <2>3. 0 <= 0
    OBVIOUS
  <2> QED
    BY <2>2, <2>3
<1> QED
  BY <1>5, <1>6, <1>7 DEF RangeInv

LEMMA RangeStep ==
    ASSUME TypeOK, TypeOK', RangeInv, [Next]_vars PROVE RangeInv'
<1>1. CASE UNCHANGED <<cal_val, stored, visits>>
  BY <1>1 DEF RangeInv, Held
<1>2. CASE Load
  <2>1. UNCHANGED <<stored, visits>>
    BY <1>2 DEF Load, eeprom, history
  <2> QED
    BY <1>2, <2>1, LoadMoves, RangeMoved
<1>3. CASE PowerLoss
  <2>1. UNCHANGED <<stored, visits>> /\ \A k \in Key : cal_val'[k] = Zero
    BY <1>3 DEF PowerLoss, ResetRam, eeprom
  <2> QED
    BY <2>1, RangeMoved
<1>4. ASSUME NEW c \in Channel, NEW w \in Width, rx_channel_interrupt(c, w)
      PROVE  RangeInv'
  <2>1. UNCHANGED stored
    BY <1>4 DEF rx_channel_interrupt, eeprom
  <2> QED
    BY <1>4, <2>1, FirstVisitKeeps, RevisitKeeps DEF rx_channel_interrupt
<1>5. CASE RadioStore
  <2>1. UNCHANGED <<cal_val, visits>>
    BY <1>5 DEF RadioStore, table, history
  <2>2. \A k \in Key : stored'[k] \in {cal_val[k], stored[k]}
    BY <1>5, WriteMoves DEF RadioStore, TypeOK
  <2> QED
    BY <2>1, <2>2, RangeMoved
<1>6. CASE IsrStore
  <2>1. UNCHANGED <<cal_val, visits>>
    BY <1>6 DEF IsrStore, table, history
  <2>2. \A k \in Key : stored'[k] \in {cal_val[k], stored[k]}
    BY <1>6, WriteMoves DEF IsrStore, TypeOK
  <2> QED
    BY <2>1, <2>2, RangeMoved
<1>7. CASE \/ setup_Fernsteuerung \/ start_calib \/ stop_calib
           \/ EndCalibration \/ ButtonStarts \/ ButtonEnds \/ timer_handler
           \/ UNCHANGED vars \/ \E c \in Channel : SetFirstVisit(c)
  <2>1. UNCHANGED <<cal_val, stored, visits>>
    BY <1>7 DEF setup_Fernsteuerung, start_calib, stop_calib, EndCalibration,
                ButtonStarts, ButtonEnds, timer_handler, SetFirstVisit, vars,
                table, eeprom, history
  <2> QED
    BY <1>1, <2>1
<1> QED
  BY <1>2, <1>3, <1>4, <1>5, <1>6, <1>7 DEF Next

\* The range of a channel contains its neutral position, in memory and in the
\* EEPROM, unless its values stem from two calibrations.
THEOREM RangesInOrderAlways == Spec => []RangesInOrder
<1>1. Init => TypeOK /\ RangeInv
  BY TypeInit, RangeInit
<1>2. TypeOK /\ RangeInv /\ [Next]_vars => (TypeOK /\ RangeInv)'
  BY TypeStep, RangeStep
<1>3. TypeOK /\ RangeInv => RangesInOrder
  <2> SUFFICES ASSUME TypeOK, RangeInv, NEW c \in Channel
               PROVE  /\ OneCalibration(cal_val, c) => InOrder(cal_val, c)
                      /\ OneCalibration(stored, c) => InOrder(stored, c)
    BY DEF RangesInOrder
  <2>1. ASSUME NEW f, OneCalibration(f, c),
               \A k \in Key : f[k] # NotFound => f[k] \in Held(k)
        PROVE  InOrder(f, c)
    <3>1. <<c, "null">> \in Keys(c) /\ <<c, "max">> \in Keys(c)
      BY KeysOf DEF Keys
    <3>2. c \in Bipolar => <<c, "min">> \in Keys(c)
      BY KeysOf DEF Keys
    <3>3. \A k \in Keys(c) : f[k] \in Held(k)
                             /\ f[k].visit = f[<<c, "null">>].visit
      BY <2>1 DEF OneCalibration, Keys
    <3> QED
      BY <3>1, <3>2, <3>3 DEF RangeInv, InOrder
  <2>2. \A k \in Key : /\ cal_val[k] # NotFound => cal_val[k] \in Held(k)
                       /\ stored[k] # NotFound => stored[k] \in Held(k)
    BY DEF Held
  <2> QED
    BY <2>1, <2>2
<1> QED
  BY <1>1, <1>2, <1>3, PTL DEF Spec

=============================================================================
