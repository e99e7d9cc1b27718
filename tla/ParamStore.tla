----------------------------- MODULE ParamStore -----------------------------
(***************************************************************************)
(* The parameters in the EEPROM: write_param_to_eeprom and                 *)
(* read_param_from_eeprom of GCS.cpp, which keep each float in two         *)
(* half-words, and EE_write_Float and EE_read_Float of eeprom.cpp.         *)
(*                                                                         *)
(* They run on the atomic store that the EEPROM emulation implements       *)
(* (EepromStore, see ImplementsStore in Eeprom), which presupposes that    *)
(* the addresses of both halves are in the driver's table.  ThreadRadio    *)
(* saves, loads and sets parameters, one after the other; power may be     *)
(* lost at any moment, and the flash may begin to report errors.           *)
(*                                                                         *)
(* Definitions named Bad... are plausible mistakes in the definition that  *)
(* follows them; no behaviour uses them.                                   *)
(***************************************************************************)
EXTENDS Naturals, FiniteSets

CONSTANTS
    ParamCount,     \* number_flash_parameter
    Half,           \* half-words
    Default,        \* the float every parameter has after a reset
    NotFound, NoRequest,
    MaxBreaks,      \* bound on losses of power and flash errors
    MaxSets         \* bound on the parameters set

Index == 0..(ParamCount - 1)
Float == [lo : Half, hi : Half]
None == [lo |-> NotFound, hi |-> NotFound]

\* VirtAddVarTab has every second address from 14 on for the parameters; 0 is
\* the address of the structure version.
BadAddrOf(i, half) == 14 + (IF half = "lo" THEN i ELSE i + 1)
AddrOf(i, half) == 14 + 2 * i + (IF half = "lo" THEN 0 ELSE 1)
VersionAddr == 0
Version == 3
Addr == {VersionAddr} \cup 14..(13 + 2 * ParamCount)

ASSUME ParamStoreAssumption ==
    /\ ParamCount \in Nat \ {0}
    /\ Default \in Float
    /\ NotFound \notin Half
    /\ NoRequest \notin [addr : Addr, data : Half \cup {Version}, done : BOOLEAN]
    /\ MaxBreaks \in Nat /\ MaxSets \in Nat

VARIABLES
    store, request, status,     \* the EEPROM, see EepromStore
    param,          \* global_data.param
    at,             \* what ThreadRadio is doing
    index,          \* i in the loops
    half,           \* which half EE_write_Float is writing
    broken,         \* the flash reports errors, until the next reset
    breaks,         \* losses of power and beginnings of errors
    sets,           \* parameters set, up to the bound
    inUse,          \* all values each parameter has had
    old, new,       \* the stored and the new floats when the save began
    saved           \* the last save wrote everything

eeprom == <<store, request, status>>
bounds == <<breaks, sets>>
history == <<old, new, saved>>
vars == <<eeprom, param, at, index, half, broken, bounds, inUse, history>>

Store == INSTANCE EepromStore WITH Data <- Half \cup {Version}

Stored(i) == [lo |-> store[AddrOf(i, "lo")], hi |-> store[AddrOf(i, "hi")]]

\* An EEPROM that has been formatted by setup_FLASH.
Init ==
    /\ store = [a \in Addr |-> IF a = VersionAddr THEN Version ELSE NotFound]
    /\ request = NoRequest
    /\ status = FALSE
    /\ param = [i \in Index |-> Default]
    /\ at = "idle"
    /\ index = 0
    /\ half = "lo"
    /\ broken = FALSE
    /\ breaks = 0
    /\ sets = 0
    /\ inUse = [i \in Index |-> {Default}]
    /\ old = [i \in Index |-> None]
    /\ new = [i \in Index |-> None]
    /\ saved = FALSE

-----------------------------------------------------------------------------
\* PARAM_SET
SetParam(i, f) ==
    /\ at = "idle" /\ sets < MaxSets
    /\ param' = [param EXCEPT ![i] = f]
    /\ inUse' = [inUse EXCEPT ![i] = @ \cup {f}]
    /\ sets' = sets + 1
    /\ UNCHANGED <<eeprom, at, index, half, broken, breaks, history>>

-----------------------------------------------------------------------------
(* write_param_to_eeprom                                                   *)

StartSave ==
    /\ at = "idle"
    /\ at' = "save"
    /\ index' = 0 /\ half' = "lo"
    /\ old' = [i \in Index |-> Stored(i)]
    /\ new' = param
    /\ saved' = FALSE
    /\ UNCHANGED <<eeprom, param, broken, bounds, inUse>>

\* EE_write_Float calls EE_WriteVariable for one half, then for the other.
WriteHalf ==
    /\ at = "save"
    /\ Store!Call(AddrOf(index, half), param[index][half])
    /\ UNCHANGED <<param, at, index, half, broken, bounds, inUse, history>>

HalfStored ==
    /\ ~broken
    /\ Store!TakeEffect
    /\ UNCHANGED <<param, at, index, half, broken, bounds, inUse, history>>

BadMore == index < ParamCount
More == index + 1 < ParamCount

\* The other half, the next parameter, or the end.
Advance ==
    \/ /\ half = "lo"
       /\ half' = "hi"
       /\ UNCHANGED <<at, index, saved>>
    \/ /\ half = "hi" /\ More
       /\ half' = "lo" /\ index' = index + 1
       /\ UNCHANGED <<at, saved>>
    \/ /\ half = "hi" /\ ~More
       /\ at' = "idle"
       /\ saved' = ~broken'
       /\ UNCHANGED <<half, index>>

WriteReturns ==
    /\ at = "save" /\ ~broken
    /\ Store!Acknowledge
    /\ UNCHANGED <<param, broken, bounds, inUse, old, new>>
    /\ Advance

\* An error, of which write_param_to_eeprom takes no notice; from the first
\* one on no operation is begun.
WriteFails ==
    /\ at = "save" /\ request # NoRequest
    /\ Store!Abandon
    /\ broken \/ breaks < MaxBreaks
    /\ broken' = TRUE
    /\ breaks' = IF broken THEN breaks ELSE breaks + 1
    /\ Advance
    /\ UNCHANGED <<param, sets, inUse, old, new>>

-----------------------------------------------------------------------------
(* read_param_from_eeprom                                                  *)

StartLoad ==
    /\ at = "idle"
    /\ at' = "load"
    /\ index' = 0
    /\ UNCHANGED <<eeprom, param, half, broken, bounds, inUse, history>>

\* What EE_read_Float has in Data_L or Data_H: a half that is not found leaves
\* what was on the stack.
Read(i, h) ==
    IF store[AddrOf(i, h)] = NotFound THEN Half ELSE {store[AddrOf(i, h)]}

LoadParam ==
    /\ at = "load"
    /\ \E l \in Read(index, "lo"), h \in Read(index, "hi") :
          /\ param' = [param EXCEPT ![index] = [lo |-> l, hi |-> h]]
          /\ inUse' = [inUse EXCEPT ![index] = @ \cup {[lo |-> l, hi |-> h]}]
    /\ IF More
       THEN index' = index + 1 /\ UNCHANGED at
       ELSE at' = "idle" /\ UNCHANGED index
    /\ UNCHANGED <<eeprom, half, broken, bounds, history>>

-----------------------------------------------------------------------------
\* Power is lost; after the reset, global_data_reset_param_defaults.
PowerLoss ==
    /\ breaks < MaxBreaks
    /\ Store!Abandon
    /\ breaks' = breaks + 1
    /\ at' = "idle"
    /\ broken' = FALSE
    /\ param' = [i \in Index |-> Default]
    /\ UNCHANGED <<index, half, sets, inUse, history>>

Next ==
    \/ \E i \in Index, f \in Float : SetParam(i, f)
    \/ StartSave \/ WriteHalf \/ HalfStored \/ WriteReturns \/ WriteFails
    \/ StartLoad \/ LoadParam
    \/ PowerLoss

Spec == Init /\ [][Next]_vars

-----------------------------------------------------------------------------
(* Properties.                                                             *)

TypeOK ==
    /\ Store!TypeOK
    /\ param \in [Index -> Float]
    /\ at \in {"idle", "save", "load"}
    /\ index \in Index
    /\ half \in {"lo", "hi"}
    /\ broken \in BOOLEAN
    /\ breaks \in 0..MaxBreaks
    /\ sets \in 0..MaxSets
    /\ inUse \in [Index -> SUBSET Float]
    /\ old \in [Index -> [lo : Half \cup {NotFound}, hi : Half \cup {NotFound}]]
    /\ new \in [Index -> Float \cup {None}]
    /\ saved \in BOOLEAN

\* A save that was not disturbed is read back unchanged, whatever happens
\* until the next one, losses of power included.
SavedIsKept == saved => \A i \in Index : Stored(i) = new[i]

\* Wherever a save is broken off, and although its errors are ignored, the
\* parameters before some place are the new ones and those behind it the old
\* ones; at this place the float may have its low half from the new value and
\* its high half from the old one, and in no other way is it mixed.
SplitAt(k) ==
    /\ \A i \in Index : i < k => Stored(i) = new[i]
    /\ \A i \in Index : i > k => Stored(i) = old[i]
    /\ k \in Index => Stored(k) \in {old[k], new[k],
                                     [lo |-> new[k].lo, hi |-> old[k].hi]}
OldThenNew == \E k \in 0..ParamCount : SplitAt(k)

\* A float in the EEPROM that its parameter never had, or of which a half is
\* missing.
Mixed == {i \in Index : Stored(i) \notin inUse[i] \cup {None}}

\* Each break of a save leaves at most one such float, besides the one a save
\* is about to write, also when saves, loads of such floats and breaks follow
\* upon each other.
OneMixedPerBreak ==
    Cardinality(Mixed \ (IF at = "save" THEN {index} ELSE {})) <= breaks
=============================================================================
