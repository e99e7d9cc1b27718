---------------------------- MODULE EepromStore ----------------------------
(***************************************************************************)
(* What the EEPROM emulation promises to its callers: a map from virtual   *)
(* addresses to half-words in which a value changes only because somebody  *)
(* asked EE_WriteVariable to write it, in which a write takes effect at    *)
(* one instant, and in which an acknowledged write has taken effect.  A    *)
(* power loss may drop the write that is under way, before or after that   *)
(* instant, and nothing else.                                              *)
(***************************************************************************)
CONSTANTS
    Addr,           \* virtual addresses
    Data,           \* half-words a variable may hold
    NotFound,       \* EE_ReadVariable returned 1
    NoRequest,      \* no call of EE_WriteVariable is under way
    VersionAddr,    \* the address of the structure version
    Version         \* the structure version of this firmware

VARIABLES
    store,          \* what a caller reads back, per address
    request,        \* the write under way: [addr, data, done]
    status          \* what the last call returned: TRUE for FLASH_COMPLETE

vars == <<store, request, status>>

Requests == [addr : Addr, data : Data, done : BOOLEAN]

TypeOK ==
    /\ store \in [Addr -> Data \cup {NotFound}]
    /\ request \in Requests \cup {NoRequest}
    /\ status \in BOOLEAN

Init ==
    /\ store \in [Addr -> Data \cup {NotFound}]
    /\ request = NoRequest
    /\ status = FALSE

\* Content of another structure version, or of none, is not kept: the only way
\* a value disappears.
Discard ==
    /\ store[VersionAddr] # Version
    /\ store' \in [Addr -> Data \cup {NotFound}]
    /\ store'[VersionAddr] # Version
    /\ UNCHANGED <<request, status>>

Call(a, d) ==
    /\ request = NoRequest
    /\ request' = [addr |-> a, data |-> d, done |-> FALSE]
    /\ UNCHANGED <<store, status>>

TakeEffect ==
    /\ request # NoRequest
    /\ ~request.done
    /\ store' = [store EXCEPT ![request.addr] = request.data]
    /\ request' = [request EXCEPT !.done = TRUE]
    /\ UNCHANGED status

\* FLASH_COMPLETE: the write has taken effect, at the latest now.
Acknowledge ==
    /\ request # NoRequest
    /\ store' = IF request.done THEN store
                ELSE [store EXCEPT ![request.addr] = request.data]
    /\ request' = NoRequest
    /\ status' = TRUE

\* Power is lost, or the flash reports an error: a write under way gets no
\* acknowledgement, and it has happened or not.
Abandon ==
    /\ request' = NoRequest
    /\ status' = FALSE
    /\ UNCHANGED store

Next ==
    \/ Discard
    \/ \E a \in Addr, d \in Data : Call(a, d)
    \/ TakeEffect
    \/ Acknowledge
    \/ Abandon

Spec == Init /\ [][Next]_vars
=============================================================================
