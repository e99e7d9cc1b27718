---------------------------- MODULE ParamsProofs ----------------------------
(***************************************************************************)
(* Theorems about Params for any number of parameters, values and messages.*)
(***************************************************************************)
EXTENDS Params, TLAPS

\* What keeps the number to be listed next in range: the list thread has
\* checked it, and ThreadRadio can only set it back to 0 in the meantime.
Checked == listAt \in {"write", "load"} => m_parameter_i \in Index
Typed == TypeOK /\ Checked

LEMMA TypedStep == Typed /\ [Next]_vars => Typed'
<1> SUFFICES ASSUME Typed, [Next]_vars
             PROVE  Typed'
  OBVIOUS
<1> USE ParamsAssumption
<1>0. ONBOARD_PARAM_COUNT \in Nat /\ 0 \in Index
      /\ \A i \in Index : i \in 0..ONBOARD_PARAM_COUNT
                          /\ i + 1 \in 0..ONBOARD_PARAM_COUNT
  BY DEF Index
<1>1. CASE PackNext
  <2>1. m_parameter_i \in Index
    BY <1>1 DEF PackNext, More, Typed, TypeOK, Index
  <2>2. listFrame' \in Frame
    BY <1>0, <1>1, <2>1 DEF PackNext, Typed, TypeOK, Frame
  <2> QED
    BY <1>1, <2>1, <2>2 DEF PackNext, Typed, TypeOK, Checked, radio, ground, told
<1>2. CASE WriteNext
  <2>1. listFrame.name \in Index /\ listFrame.value \in Value
    BY DEF Typed, TypeOK, Frame
  <2> QED
    BY <1>2, <2>1 DEF WriteNext, Announce, Typed, TypeOK, Checked, radio
<1>3. CASE LoadIndex
  BY <1>3 DEF LoadIndex, Typed, TypeOK, Checked, radio, ground, told
<1>4. CASE StoreIndex
  <2>1. m_parameter_i' \in 0..ONBOARD_PARAM_COUNT
    BY <1>0, <1>4 DEF StoreIndex, Typed, TypeOK
  <2> QED
    BY <1>4, <2>1 DEF StoreIndex, Typed, TypeOK, Checked, radio, ground, told
<1>5. CASE RequestList
  BY <1>0, <1>5
  DEF RequestList, Receive, Typed, TypeOK, Checked, list, radio, told
<1>6. CASE WriteAck
  <2>1. ackFrame.name \in Index /\ ackFrame.value \in Value
    BY DEF Typed, TypeOK, Frame
  <2> QED
    BY <1>6, <2>1 DEF WriteAck, Announce, Typed, TypeOK, Checked, list
<1>7. ASSUME NEW k \in Index, NEW v \in Value, SetParam(k, v)
      PROVE  Typed'
  <2>1. param' \in [Index -> Value]
    BY <1>7 DEF SetParam, Typed, TypeOK
  <2>2. ackFrame' \in Frame
    BY <1>7, <2>1 DEF SetParam, Ack, Typed, TypeOK, Frame
  <2> QED
    BY <1>7, <2>1, <2>2
    DEF SetParam, Receive, Typed, TypeOK, Checked, list, ground, told
<1>8. CASE read_param_from_eeprom
  BY <1>8
  DEF read_param_from_eeprom, Receive, Typed, TypeOK, Checked, list, radio, ground, told
<1>9. CASE write_param_to_eeprom
  BY <1>9
  DEF write_param_to_eeprom, Receive, Typed, TypeOK, Checked, list, radio, ground, told
<1>10. CASE UNCHANGED vars
  BY <1>10 DEF vars, Typed, TypeOK, Checked, list, radio, ground, told
<1> QED
  BY <1>1, <1>2, <1>3, <1>4, <1>5, <1>6, <1>7, <1>8, <1>9, <1>10 DEF Next

LEMMA TypedInit == Init => Typed
<1> SUFFICES ASSUME Init
             PROVE  Typed
  OBVIOUS
<1>1. 0 \in Index /\ 0 \in 0..ONBOARD_PARAM_COUNT /\ 0 \in 0..MaxMessages
  BY ParamsAssumption DEF Index
<1>2. listFrame \in Frame
  BY <1>1 DEF Init, Frame
<1> QED
  BY <1>1, <1>2 DEF Init, Typed, TypeOK, Checked

\* Every variable keeps its type; m_parameter_i never passes the count, so
\* that no name and no value is read behind the end of its array, whenever
\* ThreadRadio resets it.
THEOREM TypeCorrect == Spec => []TypeOK
<1>1. Typed => TypeOK
  BY DEF Typed
<1> QED
  BY <1>1, TypedInit, TypedStep, PTL DEF Spec

-----------------------------------------------------------------------------
(* What a patient ground station knows.                                    *)

\* A frame on its way holds the value of the parameter it names, and only the
\* answer to PARAM_SET is on its way to correct what the ground was told.
ViewInv ==
    ~hasty =>
        /\ radioAt = "write" => Quiet /\ ackFrame.value = param[ackFrame.name]
        /\ listAt = "write" => listFrame.value = param[listFrame.name]
        /\ \A k \in Index \ reloaded :
              \/ view[k] \in {param[k], Unknown}
              \/ radioAt = "write" /\ ackFrame.name = k

LEMMA ViewStep ==
    ASSUME Typed, ViewInv, [Next]_vars
    PROVE  ViewInv'
<1> SUFFICES ASSUME ~hasty'
             PROVE  ViewInv'
  BY DEF ViewInv
<1> USE DEF ViewInv
<1>1. CASE PackNext
  <2>1. radioAt = "wait" /\ ~hasty
    BY <1>1 DEF PackNext, Quiet, Typed, TypeOK, ground
  <2>2. listFrame'.value = param[listFrame'.name]
    BY <1>1 DEF PackNext
  <2> QED
    BY <1>1, <2>1, <2>2 DEF PackNext, radio, ground, told
<1>2. CASE WriteNext
  <2>1. radioAt = "wait" /\ ~hasty
    BY <1>2 DEF WriteNext, Announce, Quiet, Typed, TypeOK
  <2>2. listFrame.value = param[listFrame.name]
    BY <1>2, <2>1 DEF WriteNext
  <2>3. \A k \in Index :
            view'[k] = IF k = listFrame.name THEN param[k] ELSE view[k]
    BY <1>2, <2>2 DEF WriteNext, Announce, Typed, TypeOK
  <2>4. reloaded' = reloaded \ {listFrame.name}
    BY <1>2 DEF WriteNext, Announce
  <2>5. \A k \in Index \ reloaded' : view'[k] \in {param[k], Unknown}
    BY <2>1, <2>3, <2>4
  <2> QED
    BY <1>2, <2>1, <2>5 DEF WriteNext, radio
<1>3. CASE LoadIndex
  <2>1. radioAt = "wait" /\ ~hasty
    BY <1>3 DEF LoadIndex, Quiet, Typed, TypeOK, ground
  <2> QED
    BY <1>3, <2>1 DEF LoadIndex, radio, ground, told
<1>4. CASE StoreIndex
  <2>1. radioAt = "wait" /\ ~hasty
    BY <1>4 DEF StoreIndex, Quiet, Typed, TypeOK, ground
  <2> QED
    BY <1>4, <2>1 DEF StoreIndex, radio, ground, told
<1>5. CASE RequestList
  <2>1. radioAt = "wait" /\ listAt = "asleep" /\ ~hasty
    BY <1>5 DEF RequestList, Receive, Quiet
  <2> QED
    BY <1>5, <2>1 DEF RequestList, list, radio
<1>6. CASE WriteAck
  <2>1. /\ radioAt = "write" /\ radioAt' = "wait" /\ ackFrame' = ackFrame
        /\ ~hasty /\ reloaded' = reloaded \ {ackFrame.name}
        /\ UNCHANGED <<param, list>>
    BY <1>6 DEF WriteAck, Announce
  <2>2. \A k \in Index :
            view'[k] = IF k = ackFrame.name THEN param[k] ELSE view[k]
    BY <1>6, <2>1 DEF WriteAck, Announce, Typed, TypeOK
  <2>3. \A k \in Index \ reloaded' : view'[k] \in {param[k], Unknown}
    BY <2>1, <2>2
  <2> QED
    BY <2>1, <2>3 DEF list
<1>7. ASSUME NEW k \in Index, NEW v \in Value, SetParam(k, v)
      PROVE  ViewInv'
  <2>1. /\ Quiet /\ ~hasty /\ radioAt = "wait" /\ radioAt' = "write"
        /\ param' = [param EXCEPT ![k] = v]
        /\ ackFrame'.name = k /\ ackFrame'.value = param'[k]
        /\ UNCHANGED <<m_parameter_i, list, view, reloaded>>
    BY <1>7 DEF SetParam, Receive, Ack, told
  <2>2. Quiet' /\ listAt' = "asleep"
    BY <2>1 DEF Quiet, More, list
  <2>3. \A j \in Index : j # k => param'[j] = param[j]
    BY <2>1 DEF Typed, TypeOK
  <2>4. \A j \in Index \ reloaded' :
            view'[j] \in {param'[j], Unknown} \/ j = k
    BY <2>1, <2>3
  <2> QED
    BY <2>1, <2>2, <2>4
<1>8. CASE read_param_from_eeprom
  <2>1. radioAt' = "wait" /\ listAt' = "asleep" /\ reloaded' = Index
    BY <1>8 DEF read_param_from_eeprom, Receive, Quiet, list, radio
  <2> QED
    BY <2>1
<1>9. CASE write_param_to_eeprom
  <2>1. radioAt = "wait" /\ listAt = "asleep" /\ ~hasty
    BY <1>9 DEF write_param_to_eeprom, Receive, Quiet
  <2> QED
    BY <1>9, <2>1 DEF write_param_to_eeprom, list, radio, told
<1>10. CASE UNCHANGED vars
  BY <1>10 DEF vars, Quiet, More, list, radio, ground, told
<1> QED
  BY <1>1, <1>2, <1>3, <1>4, <1>5, <1>6, <1>7, <1>8, <1>9, <1>10 DEF Next

\* A ground station that waits for the list or the answer under way before it
\* sends the next message always ends up with the values in use, except of
\* parameters it had loaded from the EEPROM and was not told of since.
THEOREM ViewCurrentAlways == Spec => []ViewCurrent
<1>1. Init => ViewInv
  BY DEF Init, ViewInv
<1>2. Typed /\ ViewInv /\ [Next]_vars => ViewInv'
  BY ViewStep
<1>3. ViewInv => ViewCurrent
  BY DEF ViewInv, ViewCurrent
<1> QED
  BY <1>1, <1>2, <1>3, TypedInit, TypedStep, PTL DEF Spec

=============================================================================
