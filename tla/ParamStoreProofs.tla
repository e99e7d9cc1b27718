-------------------------- MODULE ParamStoreProofs --------------------------
(***************************************************************************)
(* Theorems about ParamStore for any number of parameters, half-words and  *)
(* breaks.                                                                 *)
(***************************************************************************)
EXTENDS ParamStore, FiniteSetTheorems, TLAPS

Which == {"lo", "hi"}

\* No two halves share an address, and none has that of the version.
LEMMA Addresses ==
    ASSUME NEW i \in Index, NEW h \in Which
    PROVE  /\ AddrOf(i, h) \in Addr /\ AddrOf(i, h) # VersionAddr
           /\ \A j \in Index, g \in Which :
                 AddrOf(j, g) = AddrOf(i, h) => j = i /\ g = h
<1>1. \A j \in Index : j \in Nat /\ j < ParamCount
  BY ParamStoreAssumption DEF Index
<1>2. \A j \in Index, g \in Which :
          AddrOf(j, g) = AddrOf(i, h) => j = i /\ g = h
  <2> SUFFICES ASSUME NEW j \in Index, NEW g \in Which,
                      AddrOf(j, g) = AddrOf(i, h)
               PROVE  j = i /\ g = h
    OBVIOUS
  <2>1. CASE g = "lo" /\ h = "lo"
    BY <1>1, <2>1 DEF AddrOf
  <2>2. CASE g = "hi" /\ h = "hi"
    BY <1>1, <2>2 DEF AddrOf
  <2>3. CASE g = "lo" /\ h = "hi"
    BY <1>1, <2>3 DEF AddrOf
  <2>4. CASE g = "hi" /\ h = "lo"
    BY <1>1, <2>4 DEF AddrOf
  <2> QED
    BY <2>1, <2>2, <2>3, <2>4 DEF Which
<1>3. AddrOf(i, h) \in 14..(13 + 2 * ParamCount)
  <2>1. CASE h = "lo"
    BY <1>1, <2>1, ParamStoreAssumption DEF AddrOf
  <2>2. CASE h = "hi"
    BY <1>1, <2>2, ParamStoreAssumption DEF AddrOf
  <2> QED
    BY <2>1, <2>2 DEF Which
<1> QED
  BY <1>2, <1>3, ParamStoreAssumption DEF Addr, VersionAddr

\* What is stored after one half was written.
LEMMA StoredAfter ==
    ASSUME NEW i \in Index, NEW h \in Which, NEW d,
           \A a \in Addr : store'[a] = IF a = AddrOf(i, h) THEN d ELSE store[a]
    PROVE  \A j \in Index :
              Stored(j)' = IF j # i THEN Stored(j)
                           ELSE IF h = "lo" THEN [lo |-> d, hi |-> Stored(i).hi]
                           ELSE [lo |-> Stored(i).lo, hi |-> d]
<1> SUFFICES ASSUME NEW j \in Index
             PROVE  Stored(j)' = IF j # i THEN Stored(j)
                           ELSE IF h = "lo" THEN [lo |-> d, hi |-> Stored(i).hi]
                           ELSE [lo |-> Stored(i).lo, hi |-> d]
  OBVIOUS
<1>1. \A g \in Which : store'[AddrOf(j, g)] =
          IF j = i /\ g = h THEN d ELSE store[AddrOf(j, g)]
  BY Addresses DEF TypeOK, Store!TypeOK
<1>2. Stored(j)' = [lo |-> store'[AddrOf(j, "lo")], hi |-> store'[AddrOf(j, "hi")]]
  BY DEF Stored
<1> QED
  BY <1>1, <1>2 DEF Stored, Which

\* Every float read is made of half-words, or of stack content.
LEMMA ReadHalf ==
    ASSUME TypeOK, NEW i \in Index, NEW h \in Which,
           \A j \in Index, g \in Which :
              store[AddrOf(j, g)] \in Half \cup {NotFound}
    PROVE  Read(i, h) \subseteq Half
  BY DEF Read

\* The parameters' addresses hold no structure version.
HalvesInv ==
    /\ \A j \in Index, g \in Which : store[AddrOf(j, g)] \in Half \cup {NotFound}
    /\ request # NoRequest =>
          /\ at = "save"
          /\ request.addr = AddrOf(index, half)
          /\ request.data = param[index][half]

LEMMA AdvanceType ==
    ASSUME TypeOK, Advance, at = "save", broken' \in BOOLEAN
    PROVE  /\ at' \in {"save", "idle"} /\ half' \in {"lo", "hi"}
           /\ index' \in Index /\ saved' \in BOOLEAN
<1>1. index + 1 < ParamCount => index + 1 \in Index
  BY ParamStoreAssumption DEF TypeOK, Index
<1> QED
  BY <1>1 DEF Advance, More, TypeOK

LEMMA TypedInit == Init => TypeOK /\ HalvesInv
<1> SUFFICES ASSUME Init
             PROVE  TypeOK /\ HalvesInv
  OBVIOUS
<1> USE ParamStoreAssumption DEF Init
<1>1. 0 \in Index /\ 0 \in 0..MaxBreaks /\ 0 \in 0..MaxSets
  BY DEF Index
<1>2. Store!TypeOK
  BY DEF Store!TypeOK
<1>3. None \in [lo : Half \cup {NotFound}, hi : Half \cup {NotFound}]
  BY DEF None
<1>4. TypeOK
  BY <1>1, <1>2, <1>3 DEF TypeOK
<1>5. \A j \in Index, g \in Which : store[AddrOf(j, g)] = NotFound
  BY Addresses
<1> QED
  BY <1>4, <1>5 DEF HalvesInv

LEMMA TypedStep ==
    ASSUME TypeOK, HalvesInv, [Next]_vars
    PROVE  TypeOK' /\ HalvesInv'
<1> USE ParamStoreAssumption
<1>0. index \in Index /\ half \in Which /\ AddrOf(index, half) \in Addr
      /\ param[index] \in Float /\ param[index][half] \in Half
  BY Addresses DEF TypeOK, Which, Float
<1>1. ASSUME NEW i \in Index, NEW f \in Float, SetParam(i, f)
      PROVE  TypeOK' /\ HalvesInv'
  <2>1. /\ param' \in [Index -> Float]
        /\ inUse' \in [Index -> SUBSET Float]
        /\ sets' \in 0..MaxSets
    BY <1>1 DEF SetParam, TypeOK
  <2>2. /\ at = "idle" /\ at' = "idle"
        /\ UNCHANGED <<store, request, status, index, half, broken, breaks, old, new, saved>>
    BY <1>1 DEF SetParam, eeprom, history
  <2>3. TypeOK'
    BY <2>1, <2>2 DEF TypeOK, Store!TypeOK
  <2> QED
    BY <2>2, <2>3 DEF HalvesInv
<1>2. CASE StartSave
  <2>1. \A i \in Index : Stored(i) \in [lo : Half \cup {NotFound},
                                         hi : Half \cup {NotFound}]
    BY DEF Stored, HalvesInv, Which
  <2>2. /\ old' \in [Index -> [lo : Half \cup {NotFound}, hi : Half \cup {NotFound}]]
        /\ new' \in [Index -> Float \cup {None}] /\ saved' = FALSE
        /\ index' \in Index /\ half' = "lo" /\ at = "idle" /\ at' = "save"
        /\ UNCHANGED <<store, request, status, param, broken, breaks, sets, inUse>>
    BY <1>2, <2>1 DEF StartSave, TypeOK, Index, eeprom, bounds
  <2>3. TypeOK'
    BY <2>2 DEF TypeOK, Store!TypeOK
  <2>4. request' = NoRequest
    BY <2>2 DEF HalvesInv
  <2> QED
    BY <2>2, <2>3, <2>4 DEF HalvesInv
<1>3. CASE WriteHalf
  <2>1. /\ at = "save" /\ request = NoRequest
        /\ request' = [addr |-> AddrOf(index, half),
                       data |-> param[index][half], done |-> FALSE]
        /\ UNCHANGED <<store, status>>
    BY <1>3 DEF WriteHalf, Store!Call
  <2>2. UNCHANGED <<param, at, index, half, broken, breaks, sets, inUse, old, new, saved>>
    BY <1>3 DEF WriteHalf, bounds, history
  <2>3. Store!TypeOK'
    BY <1>0, <2>1 DEF TypeOK, Store!TypeOK, Store!Requests
  <2>4. TypeOK'
    BY <2>2, <2>3 DEF TypeOK
  <2> QED
    BY <2>1, <2>2, <2>4 DEF HalvesInv
<1>4. CASE HalfStored
  <2>1. /\ request # NoRequest
        /\ store' = [store EXCEPT ![AddrOf(index, half)] = param[index][half]]
        /\ request' = [request EXCEPT !.done = TRUE] /\ at = "save"
        /\ UNCHANGED status
    BY <1>4 DEF HalfStored, Store!TakeEffect, HalvesInv
  <2>2. UNCHANGED <<param, at, index, half, broken, breaks, sets, inUse, old, new, saved>>
    BY <1>4 DEF HalfStored, bounds, history
  <2>3. request \in Store!Requests
    BY <2>1 DEF TypeOK, Store!TypeOK
  <2>4. request' \in Store!Requests
        /\ request'.addr = request.addr /\ request'.data = request.data
    BY <2>1, <2>3 DEF Store!Requests
  <2>5. Store!TypeOK'
    BY <1>0, <2>1, <2>4 DEF TypeOK, Store!TypeOK
  <2>6. TypeOK'
    BY <2>2, <2>5 DEF TypeOK
  <2>7. \A j \in Index, g \in Which : store'[AddrOf(j, g)] \in Half \cup {NotFound}
    BY <1>0, <2>1, Addresses DEF HalvesInv, TypeOK, Store!TypeOK
  <2> QED
    BY <2>1, <2>2, <2>4, <2>6, <2>7 DEF HalvesInv
<1>5. CASE WriteReturns
  <2>1. /\ request # NoRequest /\ request' = NoRequest /\ status' = TRUE
        /\ at = "save"
        /\ store' \in {store,
                 [store EXCEPT ![AddrOf(index, half)] = param[index][half]]}
    BY <1>5 DEF WriteReturns, Store!Acknowledge, HalvesInv
  <2>2. /\ UNCHANGED <<param, broken, breaks, sets, inUse, old, new>>
        /\ Advance
    BY <1>5 DEF WriteReturns, bounds
  <2>3. Store!TypeOK'
    BY <1>0, <2>1 DEF TypeOK, Store!TypeOK
  <2>4. broken' \in BOOLEAN
    BY <2>2 DEF TypeOK
  <2>5. TypeOK'
    BY <2>1, <2>2, <2>3, <2>4, AdvanceType DEF TypeOK
  <2>6. \A j \in Index, g \in Which : store'[AddrOf(j, g)] \in Half \cup {NotFound}
    BY <1>0, <2>1, Addresses DEF HalvesInv, TypeOK, Store!TypeOK
  <2> QED
    BY <2>1, <2>5, <2>6 DEF HalvesInv
<1>6. CASE WriteFails
  <2>1. /\ request' = NoRequest /\ status' = FALSE /\ store' = store
        /\ at = "save" /\ broken' = TRUE
        /\ breaks' = IF broken THEN breaks ELSE breaks + 1
        /\ broken \/ breaks < MaxBreaks
        /\ UNCHANGED <<param, sets, inUse, old, new>>
        /\ Advance
    BY <1>6 DEF WriteFails, Store!Abandon
  <2>2. breaks' \in 0..MaxBreaks
    BY <2>1 DEF TypeOK
  <2>3. Store!TypeOK'
    BY <2>1 DEF TypeOK, Store!TypeOK
  <2>4. /\ at' \in {"save", "idle"} /\ half' \in {"lo", "hi"}
        /\ index' \in Index /\ saved' \in BOOLEAN
    BY <2>1, AdvanceType
  <2>5. TypeOK'
    BY <2>1, <2>2, <2>3, <2>4 DEF TypeOK
  <2> QED
    BY <2>1, <2>5 DEF HalvesInv
<1>7. CASE StartLoad
  <2>1. /\ at = "idle" /\ at' = "load" /\ index' \in Index
        /\ UNCHANGED <<store, request, status, param, half, broken, breaks, sets, inUse,
                       old, new, saved>>
    BY <1>7 DEF StartLoad, eeprom, bounds, history, Index
  <2>2. TypeOK'
    BY <2>1 DEF TypeOK, Store!TypeOK
  <2> QED
    BY <2>1, <2>2 DEF HalvesInv
<1>8. CASE LoadParam
  <2>1. PICK l \in Read(index, "lo"), h \in Read(index, "hi") :
            /\ param' = [param EXCEPT ![index] = [lo |-> l, hi |-> h]]
            /\ inUse' = [inUse EXCEPT ![index] = @ \cup {[lo |-> l, hi |-> h]}]
    BY <1>8 DEF LoadParam
  <2>2. l \in Half /\ h \in Half
    BY <1>0, <2>1, ReadHalf DEF HalvesInv, Which
  <2>3. param' \in [Index -> Float] /\ inUse' \in [Index -> SUBSET Float]
    BY <2>1, <2>2 DEF TypeOK, Float
  <2>4. /\ at = "load" /\ at' \in {"idle", "load"} /\ index' \in Index
        /\ UNCHANGED <<store, request, status, half, broken, breaks, sets, old, new, saved>>
    BY <1>8 DEF LoadParam, eeprom, bounds, history, More, TypeOK, Index
  <2>5. TypeOK'
    BY <2>3, <2>4 DEF TypeOK, Store!TypeOK
  <2> QED
    BY <2>4, <2>5 DEF HalvesInv
<1>9. CASE PowerLoss
  <2>1. /\ request' = NoRequest /\ status' = FALSE /\ store' = store
        /\ at' = "idle" /\ broken' = FALSE /\ breaks' \in 0..MaxBreaks
        /\ param' = [i \in Index |-> Default]
        /\ UNCHANGED <<index, half, sets, inUse, old, new, saved>>
    BY <1>9 DEF PowerLoss, Store!Abandon, history, TypeOK
  <2>2. TypeOK'
    BY <2>1 DEF TypeOK, Store!TypeOK
  <2> QED
    BY <2>1, <2>2 DEF HalvesInv
<1>10. CASE UNCHANGED vars
  <2>1. UNCHANGED <<store, request, status, param, at, index, half, broken, breaks, sets,
                    inUse, old, new, saved>>
    BY <1>10 DEF vars, eeprom, bounds, history
  <2>2. TypeOK'
    BY <2>1 DEF TypeOK, Store!TypeOK
  <2> QED
    BY <2>1, <2>2 DEF HalvesInv
<1> QED
  BY <1>1, <1>2, <1>3, <1>4, <1>5, <1>6, <1>7, <1>8, <1>9, <1>10 DEF Next

\* Every variable keeps its type; the loops stay within the parameters and what
\* they write is a half-word at an address of the store.
THEOREM TypeCorrect == Spec => []TypeOK
<1> QED
  BY TypedInit, TypedStep, PTL DEF Spec

-----------------------------------------------------------------------------
(* A save that is broken off.                                              *)

\* The write under way has taken effect.
Done == request # NoRequest /\ request.done
Begun(i) == [lo |-> new[i].lo, hi |-> old[i].hi]

\* How far a save has come that no error has stopped.
Progress ==
    /\ \A i \in Index : i < index => Stored(i) = new[i]
    /\ \A i \in Index : i > index => Stored(i) = old[i]
    /\ half = "lo" => Stored(index) = IF Done THEN Begun(index) ELSE old[index]
    /\ half = "hi" => Stored(index) = IF Done THEN new[index] ELSE Begun(index)

SaveInv ==
    /\ at = "save" => param = new /\ ~saved
    /\ at = "save" /\ ~broken => Progress
    /\ broken => ~Done
    /\ OldThenNew
    /\ saved => \A i \in Index : Stored(i) = new[i]

LEMMA IndexNat == \A i \in Index : i \in Nat /\ i < ParamCount /\ i \in 0..ParamCount
  BY ParamStoreAssumption DEF Index

\* The last float is complete: all are.
LEMMA AllSplit ==
    ASSUME \A i \in Index : Stored(i) = new[i]
    PROVE  OldThenNew
<1>1. \A i \in Index : ~(i > ParamCount) /\ i # ParamCount
  BY IndexNat, ParamStoreAssumption
<1>2. SplitAt(ParamCount)
  BY <1>1, ParamStoreAssumption DEF SplitAt
<1> QED
  BY <1>2, ParamStoreAssumption DEF OldThenNew

\* Nothing that SaveInv speaks of while nothing is saved has changed.
LEMMA SaveUntouched ==
    ASSUME SaveInv, UNCHANGED <<store, old, new, saved>>, at' # "save", ~Done'
    PROVE  SaveInv'
  BY DEF SaveInv, OldThenNew, SplitAt, Stored

\* What is stored once the half under way is: k is the parameter.
LEMMA HalfWritten ==
    ASSUME TypeOK, HalvesInv, SaveInv, at = "save", ~broken, ~Done,
           NEW k \in Index, k = index,
           store' = [store EXCEPT ![AddrOf(index, half)] = new[index][half]]
    PROVE  /\ \A i \in Index : i < k => Stored(i)' = new[i]
           /\ \A i \in Index : i > k => Stored(i)' = old[i]
           /\ half = "lo" => Stored(k)' = Begun(k)
           /\ half = "hi" => Stored(k)' = new[k]
<1>1. Progress /\ half \in Which /\ new[k] \in Float
  BY DEF SaveInv, TypeOK, Which
<1>2. PICK f \in Float : f = new[k]
  BY <1>1
<1>3. PICK h \in Which : h = half
  BY <1>1
<1>4. PICK d : d = f[h]
  OBVIOUS
<1>5. store' = [store EXCEPT ![AddrOf(k, h)] = d]
  BY <1>2, <1>3, <1>4
<1>10. \A a \in Addr : store'[a] = IF a = AddrOf(k, h) THEN d ELSE store[a]
  BY <1>5 DEF TypeOK, Store!TypeOK
<1>9. \A j \in Index :
          Stored(j)' = IF j # k THEN Stored(j)
                       ELSE IF h = "lo" THEN [lo |-> d, hi |-> Stored(k).hi]
                       ELSE [lo |-> Stored(k).lo, hi |-> d]
  BY <1>10, StoredAfter
<1>6. \A i \in Index : i < k \/ i > k => i # k
  BY IndexNat
<1>7. ASSUME half = "lo"
      PROVE  Stored(k)' = Begun(k)
  <2>1. Stored(k).hi = old[k].hi
    BY <1>1, <1>7 DEF Progress
  <2> QED
    BY <1>2, <1>3, <1>4, <1>9, <1>7, <2>1 DEF Begun
<1>8. ASSUME half = "hi"
      PROVE  Stored(k)' = new[k]
  <2>1. Stored(k).lo = new[k].lo
    BY <1>1, <1>8 DEF Progress, Begun
  <2>2. Stored(k)' = [lo |-> f.lo, hi |-> f.hi]
    BY <1>2, <1>3, <1>4, <1>9, <1>8, <2>1
  <2>3. f = [lo |-> f.lo, hi |-> f.hi]
    BY DEF Float
  <2> QED
    BY <1>2, <2>2, <2>3
<1> QED
  BY <1>1, <1>9, <1>6, <1>7, <1>8 DEF Progress

LEMMA HalfTakesEffect ==
    ASSUME TypeOK, HalvesInv, SaveInv, HalfStored
    PROVE  SaveInv'
<1>1. /\ request # NoRequest /\ ~request.done /\ ~broken /\ at = "save"
      /\ store' = [store EXCEPT ![AddrOf(index, half)] = new[index][half]]
      /\ request' = [request EXCEPT !.done = TRUE]
      /\ UNCHANGED <<param, at, index, half, broken, old, new, saved>>
  BY DEF HalfStored, Store!TakeEffect, HalvesInv, SaveInv, history
<1>2. ~Done /\ half \in Which /\ param = new /\ ~saved
  BY <1>1 DEF SaveInv, Done, TypeOK, Which
<1>3. PICK k \in Index : k = index
  BY DEF TypeOK
<1>4. Done'
  <2>1. request \in Store!Requests
    BY <1>1 DEF TypeOK, Store!TypeOK
  <2>2. request'.done = TRUE /\ request' \in Store!Requests
    BY <1>1, <2>1 DEF Store!Requests
  <2> QED
    BY <2>2, ParamStoreAssumption DEF Done, Store!Requests
<1>5. /\ \A i \in Index : i < k => Stored(i)' = new[i]
      /\ \A i \in Index : i > k => Stored(i)' = old[i]
      /\ half = "lo" => Stored(k)' = Begun(k)
      /\ half = "hi" => Stored(k)' = new[k]
  BY <1>1, <1>2, <1>3, HalfWritten
<1>6. index' = k /\ new' = new /\ old' = old /\ half' = half
  BY <1>1, <1>3
<1>7. Progress'
  BY <1>4, <1>5, <1>6 DEF Progress, Begun
<1>8. SplitAt(k)'
  BY <1>2, <1>5, <1>6 DEF SplitAt, Begun, Which
<1>9. OldThenNew'
  BY <1>8, IndexNat DEF OldThenNew
<1> QED
  BY <1>1, <1>2, <1>7, <1>9 DEF SaveInv

\* A write that is acknowledged has taken effect, now or before.
LEMMA Written ==
    ASSUME TypeOK, HalvesInv, SaveInv, WriteReturns, NEW k \in Index, k = index
    PROVE  /\ \A i \in Index : i < k => Stored(i)' = new[i]
           /\ \A i \in Index : i > k => Stored(i)' = old[i]
           /\ half = "lo" => Stored(k)' = Begun(k)
           /\ half = "hi" => Stored(k)' = new[k]
<1>1. /\ request # NoRequest /\ ~broken /\ at = "save"
      /\ store' = IF request.done THEN store
                  ELSE [store EXCEPT ![AddrOf(index, half)] = new[index][half]]
  BY DEF WriteReturns, Store!Acknowledge, HalvesInv, SaveInv
<1>2. CASE request.done
  <2>1. Done /\ Progress
    BY <1>1, <1>2 DEF Done, SaveInv
  <2>2. \A i \in Index : Stored(i)' = Stored(i)
    BY <1>1, <1>2 DEF Stored
  <2> QED
    BY <2>1, <2>2 DEF Progress
<1>3. CASE ~request.done
  <2>1. ~Done
    BY <1>3 DEF Done
  <2> QED
    BY <1>1, <1>3, <2>1, HalfWritten
<1> QED
  BY <1>2, <1>3

LEMMA WriteReturnsStep ==
    ASSUME TypeOK, HalvesInv, SaveInv, WriteReturns
    PROVE  SaveInv'
<1>1. /\ at = "save" /\ ~broken /\ ~broken' /\ request' = NoRequest
      /\ param = new /\ ~saved /\ Advance
      /\ UNCHANGED <<param, old, new>>
  BY DEF WriteReturns, Store!Acknowledge, SaveInv
<1>2. ~Done' /\ half \in Which
  BY <1>1 DEF Done, TypeOK, Which
<1>3. PICK k \in Index : k = index
  BY DEF TypeOK
<1>4. /\ \A i \in Index : i < k => Stored(i)' = new'[i]
      /\ \A i \in Index : i > k => Stored(i)' = old'[i]
      /\ half = "lo" => Stored(k)' = Begun(k)'
      /\ half = "hi" => Stored(k)' = new'[k]
  BY <1>1, <1>3, Written DEF Begun
<1>5. k \in Nat /\ \A i \in Index : i \in Nat
  BY IndexNat
<1>6. SplitAt(k)'
  BY <1>2, <1>4 DEF SplitAt, Begun, Which
<1>7. OldThenNew'
  BY <1>6, IndexNat DEF OldThenNew
<1>8. CASE half = "lo"
  <2>1. half' = "hi" /\ index' = k /\ UNCHANGED <<at, saved>>
    BY <1>1, <1>3, <1>8 DEF Advance
  <2>2. Progress'
    BY <1>2, <1>4, <1>8, <2>1 DEF Progress
  <2> QED
    BY <1>1, <1>2, <1>7, <2>1, <2>2 DEF SaveInv
<1>9. CASE half = "hi" /\ More
  <2>1. half' = "lo" /\ index' = k + 1 /\ UNCHANGED <<at, saved>>
    BY <1>1, <1>3, <1>9 DEF Advance
  <2>2. k + 1 \in Index
    BY <1>3, <1>5, <1>9, ParamStoreAssumption DEF More, Index
  <2>3. \A i \in Index : i < k + 1 => i < k \/ i = k
    BY <1>5
  <2>4. \A i \in Index : i > k + 1 \/ i = k + 1 => i > k
    BY <1>5
  <2>5. /\ \A i \in Index : i < k + 1 => Stored(i)' = new'[i]
        /\ \A i \in Index : i > k + 1 => Stored(i)' = old'[i]
        /\ Stored(k + 1)' = old'[k + 1]
    BY <1>4, <1>9, <2>2, <2>3, <2>4
  <2>6. Progress'
    BY <1>2, <2>1, <2>5 DEF Progress
  <2> QED
    BY <1>1, <1>2, <1>7, <2>1, <2>6 DEF SaveInv
<1>10. CASE half = "hi" /\ ~More
  <2>1. at' = "idle"
    BY <1>1, <1>10 DEF Advance
  <2>2. \A i \in Index : i < k \/ i = k
    BY <1>3, <1>5, <1>10, ParamStoreAssumption DEF More, Index
  <2>3. \A i \in Index : Stored(i)' = new'[i]
    BY <1>4, <1>10, <2>2
  <2> QED
    BY <1>1, <1>2, <1>7, <2>1, <2>3 DEF SaveInv
<1> QED
  BY <1>2, <1>8, <1>9, <1>10 DEF Which

\* An error stops the save where it is, whatever the loop goes on to do.
LEMMA WriteFailsStep ==
    ASSUME TypeOK, SaveInv, WriteFails
    PROVE  SaveInv'
<1>1. /\ at = "save" /\ broken' /\ request' = NoRequest /\ store' = store
      /\ param = new /\ ~saved /\ Advance
      /\ UNCHANGED <<param, old, new>>
  BY DEF WriteFails, Store!Abandon, SaveInv
<1>2. ~Done'
  BY <1>1 DEF Done
<1>4. ~saved'
  BY <1>1 DEF Advance
<1>3. OldThenNew'
  BY <1>1 DEF SaveInv, OldThenNew, SplitAt, Stored
<1> QED
  BY <1>1, <1>2, <1>3, <1>4 DEF SaveInv

LEMMA StartSaveStep ==
    ASSUME TypeOK, HalvesInv, SaveInv, StartSave
    PROVE  SaveInv'
<1>1. /\ at' = "save" /\ index' = 0 /\ half' = "lo" /\ saved' = FALSE
      /\ old' = [i \in Index |-> Stored(i)] /\ new' = param
      /\ UNCHANGED <<store, request, param, broken>>
  BY DEF StartSave, eeprom
<1>2. request = NoRequest
  BY DEF HalvesInv, StartSave
<1>3. ~Done'
  BY <1>1, <1>2 DEF Done
<1>4. \A i \in Index : Stored(i)' = old'[i]
  BY <1>1 DEF Stored
<1>5. 0 \in Index /\ \A i \in Index : ~(i < 0)
  BY IndexNat, ParamStoreAssumption DEF Index
<1>6. Progress'
  BY <1>1, <1>3, <1>4, <1>5 DEF Progress
<1>7. SplitAt(0)'
  BY <1>4, <1>5 DEF SplitAt
<1>8. OldThenNew'
  BY <1>5, <1>7, IndexNat DEF OldThenNew
<1> QED
  BY <1>1, <1>3, <1>6, <1>8 DEF SaveInv

LEMMA SaveStep ==
    ASSUME TypeOK, HalvesInv, SaveInv, [Next]_vars
    PROVE  SaveInv'
<1>0. at # "save" => request = NoRequest
  BY DEF HalvesInv
<1>1. ASSUME NEW i \in Index, NEW f \in Float, SetParam(i, f)
      PROVE  SaveInv'
  <2>1. at' # "save" /\ ~Done'
    BY <1>0, <1>1 DEF SetParam, Done, eeprom
  <2>2. UNCHANGED <<store, old, new, saved>>
    BY <1>1 DEF SetParam, eeprom, history
  <2> QED
    BY <2>1, <2>2, SaveUntouched
<1>2. CASE StartSave
  BY <1>2, StartSaveStep
<1>3. CASE WriteHalf
  <2>1. /\ UNCHANGED <<store, param, at, index, half, broken, old, new, saved>>
        /\ at = "save" /\ request = NoRequest /\ request'.done = FALSE
    BY <1>3 DEF WriteHalf, Store!Call, history
  <2>2. ~Done /\ ~Done'
    BY <2>1 DEF Done
  <2>3. \A i : Stored(i)' = Stored(i)
    BY <2>1 DEF Stored
  <2>4. Progress => Progress'
    BY <2>1, <2>2, <2>3 DEF Progress, Begun, Stored
  <2>5. OldThenNew'
    BY <2>1, <2>3 DEF SaveInv, OldThenNew, SplitAt
  <2> QED
    BY <2>1, <2>2, <2>3, <2>4, <2>5 DEF SaveInv
<1>4. CASE HalfStored
  BY <1>4, HalfTakesEffect
<1>5. CASE WriteReturns
  BY <1>5, WriteReturnsStep
<1>6. CASE WriteFails
  BY <1>6, WriteFailsStep
<1>7. CASE StartLoad
  <2>1. at' # "save" /\ ~Done'
    BY <1>0, <1>7 DEF StartLoad, Done, eeprom
  <2>2. UNCHANGED <<store, old, new, saved>>
    BY <1>7 DEF StartLoad, eeprom, history
  <2> QED
    BY <2>1, <2>2, SaveUntouched
<1>8. CASE LoadParam
  <2>1. at' # "save" /\ ~Done'
    BY <1>0, <1>8 DEF LoadParam, Done, eeprom
  <2>2. UNCHANGED <<store, old, new, saved>>
    BY <1>8 DEF LoadParam, eeprom, history
  <2> QED
    BY <2>1, <2>2, SaveUntouched
<1>9. CASE PowerLoss
  <2>1. at' # "save" /\ ~Done'
    BY <1>9 DEF PowerLoss, Store!Abandon, Done
  <2>2. UNCHANGED <<store, old, new, saved>>
    BY <1>9 DEF PowerLoss, Store!Abandon, history
  <2> QED
    BY <2>1, <2>2, SaveUntouched
<1>10. CASE UNCHANGED vars
  <2>1. UNCHANGED <<store, request, param, at, index, half, broken, old, new, saved>>
    BY <1>10 DEF vars, eeprom, history
  <2> QED
    BY <2>1 DEF SaveInv, Progress, Done, Begun, OldThenNew, SplitAt, Stored
<1> QED
  BY <1>1, <1>2, <1>3, <1>4, <1>5, <1>6, <1>7, <1>8, <1>9, <1>10 DEF Next

LEMMA SaveInit == Init => SaveInv
<1> SUFFICES ASSUME Init
             PROVE  SaveInv
  OBVIOUS
<1>1. \A i \in Index : Stored(i) = None /\ new[i] = None
  <2> SUFFICES ASSUME NEW i \in Index
               PROVE  Stored(i) = None /\ new[i] = None
    OBVIOUS
  <2>1. \A g \in Which : store[AddrOf(i, g)] = NotFound
    BY Addresses DEF Init
  <2> QED
    BY <2>1 DEF Init, Stored, None, Which
<1>2. OldThenNew
  BY <1>1, AllSplit
<1> QED
  BY <1>2 DEF Init, SaveInv, Done

\* Whenever and however often saves are broken off, the EEPROM holds new floats
\* up to some parameter, old ones behind it, and at most there a float with the
\* low half of the new value and the high half of the old one.
THEOREM OldThenNewAlways == Spec => []OldThenNew
<1>1. SaveInv => OldThenNew
  BY DEF SaveInv
<1> QED
  BY <1>1, TypedInit, SaveInit, TypedStep, SaveStep, PTL DEF Spec

\* A save that nothing disturbed is kept until the next one.
THEOREM SavedIsKeptAlways == Spec => []SavedIsKept
<1>1. SaveInv => SavedIsKept
  BY DEF SaveInv, SavedIsKept
<1> QED
  BY <1>1, TypedInit, SaveInit, TypedStep, SaveStep, PTL DEF Spec

-----------------------------------------------------------------------------
(* Floats that are mixed.                                                  *)

\* The mixed floats, without the one that a save which no error has stopped is
\* about to write.
Left == IF at = "save" /\ ~broken THEN Mixed \ {index} ELSE Mixed

MixedInv ==
    /\ \A i \in Index : param[i] \in inUse[i] /\ Default \in inUse[i]
    /\ Cardinality(Left) <= breaks

\* Sets of parameters can be counted; one with fewer has no more, and one
\* parameter adds at most one.
LEMMA Counting ==
    ASSUME NEW S \in SUBSET Index, NEW T \in SUBSET Index
    PROVE  /\ Cardinality(S) \in Nat /\ Cardinality(T) \in Nat
           /\ T \subseteq S => Cardinality(T) <= Cardinality(S)
           /\ \A x : T \subseteq S \cup {x} =>
                        Cardinality(T) <= Cardinality(S) + 1
<1>1. IsFiniteSet(Index)
  BY FS_Interval, ParamStoreAssumption DEF Index
<1>2. IsFiniteSet(S) /\ IsFiniteSet(T)
  BY <1>1, FS_Subset
<1>3. Cardinality(S) \in Nat /\ Cardinality(T) \in Nat
  BY <1>2, FS_CardinalityType
<1>4. ASSUME T \subseteq S
      PROVE  Cardinality(T) <= Cardinality(S)
  <2>1. T \in SUBSET S
    BY <1>4
  <2> QED
    BY <2>1, <1>2, FS_Subset
<1>5. ASSUME NEW x, T \subseteq S \cup {x}
      PROVE  Cardinality(T) <= Cardinality(S) + 1
  <2>1. IsFiniteSet(S \cup {x})
        /\ Cardinality(S \cup {x}) <= Cardinality(S) + 1
    <3>1. PICK n \in Nat : n = Cardinality(S)
      BY <1>3
    <3>2. IsFiniteSet(S \cup {x})
          /\ Cardinality(S \cup {x}) = IF x \in S THEN n ELSE n + 1
      BY <1>2, <3>1, FS_AddElement
    <3> QED
      BY <3>1, <3>2
  <2>2. Cardinality(S \cup {x}) \in Nat
    BY <2>1, FS_CardinalityType
  <2>3. T \in SUBSET (S \cup {x})
    BY <1>5
  <2>4. Cardinality(T) <= Cardinality(S \cup {x})
    BY <2>1, <2>3, FS_Subset
  <2> QED
    BY <1>3, <2>1, <2>2, <2>4
<1> QED
  BY <1>3, <1>4, <1>5

LEMMA LeftParameters == Left \in SUBSET Index /\ Mixed \in SUBSET Index
  BY DEF Left, Mixed

\* A step after which no other float is mixed.
LEMMA NoMoreMixed ==
    ASSUME TypeOK, MixedInv, Left' \subseteq Left,
           breaks' = breaks \/ breaks' = breaks + 1,
           \A i \in Index : param'[i] \in inUse'[i] /\ Default \in inUse'[i]
    PROVE  MixedInv'
<1>1. Left \in SUBSET Index /\ Left' \in SUBSET Index
  BY DEF Left, Mixed, Index
<1>2. PICK S \in SUBSET Index : S = Left
  BY <1>1
<1>3. PICK T \in SUBSET Index : T = Left'
  BY <1>1, <1>2
<1>4. Cardinality(T) <= Cardinality(S) /\ Cardinality(S) <= breaks
      /\ Cardinality(S) \in Nat /\ Cardinality(T) \in Nat
  BY <1>2, <1>3, Counting DEF MixedInv
<1>5. Cardinality(T) <= breaks'
  BY <1>4, ParamStoreAssumption DEF TypeOK
<1> QED
  BY <1>3, <1>5 DEF MixedInv

\* Values that are added to those a parameter had mix no float.
LEMMA MixedShrinks ==
    ASSUME store' = store, \A i \in Index : inUse[i] \subseteq inUse'[i]
    PROVE  Mixed' \subseteq Mixed
<1>1. \A i \in Index : Stored(i)' = Stored(i)
  BY DEF Stored
<1> QED
  BY <1>1 DEF Mixed

\* An acknowledged half, or one that has taken effect, leaves the other floats
\* as they were.
LEMMA OthersKept ==
    ASSUME SaveInv, at = "save", ~broken, NEW k \in Index, k = index,
           \A i \in Index : i < k => Stored(i)' = new[i],
           \A i \in Index : i > k => Stored(i)' = old[i]
    PROVE  \A i \in Index : i # k => Stored(i)' = Stored(i)
<1>1. \A i \in Index : i # k => i < k \/ i > k
  BY IndexNat
<1> QED
  BY <1>1 DEF SaveInv, Progress

LEMMA MixedHalfStored ==
    ASSUME TypeOK, HalvesInv, SaveInv, MixedInv, HalfStored
    PROVE  MixedInv'
<1>1. /\ request # NoRequest /\ ~request.done /\ ~broken /\ at = "save"
      /\ store' = [store EXCEPT ![AddrOf(index, half)] = new[index][half]]
      /\ UNCHANGED <<param, at, index, broken, breaks, inUse>>
  BY DEF HalfStored, Store!TakeEffect, HalvesInv, SaveInv, bounds
<1>2. ~Done
  BY <1>1 DEF Done
<1>3. PICK k \in Index : k = index
  BY DEF TypeOK
<1>4. \A i \in Index : i # k => Stored(i)' = Stored(i)
  BY <1>1, <1>2, <1>3, HalfWritten, OthersKept
<1>5. Left' \subseteq Left
  BY <1>1, <1>3, <1>4 DEF Left, Mixed
<1> QED
  BY <1>1, <1>5, NoMoreMixed DEF MixedInv

\* The second half written, the float is the parameter's value.
LEMMA MixedWriteReturns ==
    ASSUME TypeOK, HalvesInv, SaveInv, MixedInv, WriteReturns
    PROVE  MixedInv'
<1>1. /\ at = "save" /\ ~broken /\ Advance /\ param = new
      /\ UNCHANGED <<param, broken, breaks, inUse, new>>
  BY DEF WriteReturns, SaveInv, bounds
<1>2. PICK k \in Index : k = index
  BY DEF TypeOK
<1>3. \A i \in Index : i # k => Stored(i)' = Stored(i)
  BY <1>1, <1>2, Written, OthersKept
<1>4. half = "hi" => Stored(k)' = new[k]
  BY <1>2, Written
<1>5. new[k] \in inUse[k]
  BY <1>1, <1>2 DEF MixedInv
<1>6. half \in Which
  BY DEF TypeOK, Which
<1>7. CASE half = "lo"
  <2>1. at' = "save" /\ index' = k
    BY <1>1, <1>2, <1>7 DEF Advance
  <2>2. Left' \subseteq Left
    BY <1>1, <1>2, <1>3, <2>1 DEF Left, Mixed
  <2> QED
    BY <1>1, <2>2, NoMoreMixed DEF MixedInv
<1>8. CASE half = "hi"
  <2>1. Mixed' \subseteq Mixed \ {k}
    BY <1>1, <1>3, <1>4, <1>5, <1>8 DEF Mixed
  <2>2. Left' \subseteq Left
    BY <1>1, <1>2, <2>1 DEF Left
  <2> QED
    BY <1>1, <2>2, NoMoreMixed DEF MixedInv
<1> QED
  BY <1>6, <1>7, <1>8 DEF Which

\* A break, after which one more float counts.
LEMMA OneMoreMixed ==
    ASSUME TypeOK, MixedInv, NEW x, Left' \subseteq Left \cup {x},
           breaks' = breaks + 1,
           \A i \in Index : param'[i] \in inUse'[i] /\ Default \in inUse'[i]
    PROVE  MixedInv'
<1>1. Left \in SUBSET Index /\ Left' \in SUBSET Index
  BY DEF Left, Mixed, Index
<1>2. PICK S \in SUBSET Index : S = Left
  BY <1>1
<1>3. PICK T \in SUBSET Index : T = Left'
  BY <1>1, <1>2
<1>4. Cardinality(T) <= Cardinality(S) + 1 /\ Cardinality(S) <= breaks
      /\ Cardinality(S) \in Nat /\ Cardinality(T) \in Nat
  BY <1>2, <1>3, Counting DEF MixedInv
<1>5. Cardinality(T) <= breaks'
  BY <1>4, ParamStoreAssumption DEF TypeOK
<1> QED
  BY <1>3, <1>5 DEF MixedInv

\* The first error breaks the save: the float it was about to write counts.
LEMMA MixedWriteFails ==
    ASSUME TypeOK, MixedInv, WriteFails
    PROVE  MixedInv'
<1>1. /\ at = "save" /\ broken' /\ store' = store
      /\ breaks' = IF broken THEN breaks ELSE breaks + 1
      /\ UNCHANGED <<param, inUse>>
  BY DEF WriteFails, Store!Abandon
<1>2. Mixed' \subseteq Mixed
  BY <1>1, MixedShrinks
<1>3. CASE broken
  <2>1. Left' \subseteq Left
    BY <1>1, <1>2, <1>3 DEF Left
  <2> QED
    BY <1>1, <1>3, <2>1, NoMoreMixed DEF MixedInv
<1>4. CASE ~broken
  <2>1. Left' \subseteq Left \cup {index}
    BY <1>1, <1>2, <1>4 DEF Left
  <2>2. breaks' = breaks + 1
    BY <1>1, <1>4
  <2> QED
    BY <1>1, <2>1, <2>2, OneMoreMixed DEF MixedInv
<1> QED
  BY <1>3, <1>4

\* After a reset the float of a save that was under way counts.
LEMMA MixedPowerLoss ==
    ASSUME TypeOK, MixedInv, PowerLoss
    PROVE  MixedInv'
<1>1. /\ at' = "idle" /\ store' = store /\ breaks' = breaks + 1
      /\ param' = [i \in Index |-> Default] /\ inUse' = inUse
  BY DEF PowerLoss, Store!Abandon
<1>2. Mixed' \subseteq Mixed
  BY <1>1, MixedShrinks
<1>3. Left' \subseteq Left \cup {index}
  BY <1>1, <1>2 DEF Left
<1>4. \A i \in Index : param'[i] \in inUse'[i] /\ Default \in inUse'[i]
  BY <1>1 DEF MixedInv
<1> QED
  BY <1>1, <1>3, <1>4, OneMoreMixed

\* A step of the thread outside a save, or one of a save that writes nothing.
LEMMA MixedUntouched ==
    ASSUME TypeOK, MixedInv, UNCHANGED <<store, broken, breaks>>,
           at = "save" => at' = "save" /\ index' = index,
           \A i \in Index : /\ inUse[i] \subseteq inUse'[i]
                            /\ param'[i] \in inUse'[i]
    PROVE  MixedInv'
<1>1. Left' \subseteq Left
  BY MixedShrinks DEF Left
<1>2. \A i \in Index : Default \in inUse'[i]
  BY DEF MixedInv
<1> QED
  BY <1>1, <1>2, NoMoreMixed

LEMMA MixedStep ==
    ASSUME TypeOK, HalvesInv, SaveInv, MixedInv, [Next]_vars
    PROVE  MixedInv'
<1>0. \A i \in Index : param[i] \in inUse[i]
  BY DEF MixedInv
<1>1. ASSUME NEW i \in Index, NEW f \in Float, SetParam(i, f)
      PROVE  MixedInv'
  <2>1. UNCHANGED <<store, broken, breaks>> /\ at = "idle"
    BY <1>1 DEF SetParam, eeprom
  <2>2. \A j \in Index : inUse[j] \subseteq inUse'[j] /\ param'[j] \in inUse'[j]
    BY <1>0, <1>1 DEF SetParam, TypeOK
  <2> QED
    BY <2>1, <2>2, MixedUntouched
<1>2. CASE StartSave
  <2>1. UNCHANGED <<store, broken, breaks, param, inUse>> /\ at = "idle"
    BY <1>2 DEF StartSave, eeprom, bounds
  <2> QED
    BY <1>0, <2>1, MixedUntouched
<1>3. CASE WriteHalf
  <2>1. UNCHANGED <<store, broken, breaks, param, inUse, at, index>>
    BY <1>3 DEF WriteHalf, Store!Call, bounds
  <2> QED
    BY <1>0, <2>1, MixedUntouched
<1>4. CASE HalfStored
  BY <1>4, MixedHalfStored
<1>5. CASE WriteReturns
  BY <1>5, MixedWriteReturns
<1>6. CASE WriteFails
  BY <1>6, MixedWriteFails
<1>7. CASE StartLoad
  <2>1. UNCHANGED <<store, broken, breaks, param, inUse>> /\ at = "idle"
    BY <1>7 DEF StartLoad, eeprom, bounds
  <2> QED
    BY <1>0, <2>1, MixedUntouched
<1>8. CASE LoadParam
  <2>1. UNCHANGED <<store, broken, breaks>> /\ at = "load"
    BY <1>8 DEF LoadParam, eeprom, bounds
  <2>2. PICK f : /\ param' = [param EXCEPT ![index] = f]
                 /\ inUse' = [inUse EXCEPT ![index] = @ \cup {f}]
    BY <1>8 DEF LoadParam
  <2>3. \A j \in Index : inUse[j] \subseteq inUse'[j] /\ param'[j] \in inUse'[j]
    BY <1>0, <2>2 DEF TypeOK
  <2> QED
    BY <2>1, <2>3, MixedUntouched
<1>9. CASE PowerLoss
  BY <1>9, MixedPowerLoss
<1>10. CASE UNCHANGED vars
  <2>1. UNCHANGED <<store, broken, breaks, param, inUse, at, index>>
    BY <1>10 DEF vars, eeprom, bounds
  <2> QED
    BY <1>0, <2>1, MixedUntouched
<1> QED
  BY <1>1, <1>2, <1>3, <1>4, <1>5, <1>6, <1>7, <1>8, <1>9, <1>10 DEF Next

LEMMA MixedInit == Init => MixedInv
<1> SUFFICES ASSUME Init
             PROVE  MixedInv
  OBVIOUS
<1>1. \A i \in Index : Stored(i) = None
  <2> SUFFICES ASSUME NEW i \in Index
               PROVE  Stored(i) = None
    OBVIOUS
  <2>1. \A g \in Which : store[AddrOf(i, g)] = NotFound
    BY Addresses DEF Init
  <2> QED
    BY <2>1 DEF Stored, None, Which
<1>2. Left = {}
  BY <1>1 DEF Left, Mixed
<1>3. Cardinality(Left) = 0
  BY <1>2, FS_EmptySet
<1> QED
  BY <1>3 DEF Init, MixedInv

\* However breaks of saves, loads of floats they mixed, and further saves
\* follow upon each other: there is at most one float for each break that its
\* parameter never had, besides the one a save is about to write.
THEOREM OneMixedPerBreakAlways == Spec => []OneMixedPerBreak
<1>1. TypeOK /\ MixedInv => OneMixedPerBreak
  <2> SUFFICES ASSUME TypeOK, MixedInv
               PROVE  OneMixedPerBreak
    OBVIOUS
  <2>1. PICK S \in SUBSET Index : S = Left
    BY LeftParameters
  <2>2. PICK T \in SUBSET Index :
            T = Mixed \ (IF at = "save" THEN {index} ELSE {})
    BY LeftParameters
  <2>3. T \subseteq S
    BY <2>1, <2>2 DEF Left
  <2>4. Cardinality(T) <= Cardinality(S) /\ Cardinality(S) <= breaks
        /\ Cardinality(S) \in Nat /\ Cardinality(T) \in Nat
    BY <2>1, <2>3, Counting DEF MixedInv
  <2>5. Cardinality(T) <= breaks
    BY <2>4, ParamStoreAssumption DEF TypeOK
  <2> QED
    BY <2>2, <2>5 DEF OneMixedPerBreak
<1> QED
  BY <1>1, TypedInit, SaveInit, MixedInit, TypedStep, SaveStep, MixedStep, PTL
  DEF Spec

-----------------------------------------------------------------------------
(* The store underneath.                                                   *)

LEMMA StoreUsed ==
    ASSUME TypeOK, [Next]_vars
    PROVE  [Store!Next]_(Store!vars)
<1>1. CASE UNCHANGED eeprom
  BY <1>1 DEF eeprom, Store!vars
<1>2. CASE WriteHalf
  <2>1. AddrOf(index, half) \in Addr
    BY Addresses DEF TypeOK, Which
  <2>2. param[index][half] \in Half \cup {Version}
    BY DEF TypeOK, Float
  <2>3. Store!Call(AddrOf(index, half), param[index][half])
    BY <1>2 DEF WriteHalf
  <2> QED
    BY <2>1, <2>2, <2>3 DEF Store!Next
<1>3. CASE HalfStored
  BY <1>3 DEF HalfStored, Store!Next
<1>4. CASE WriteReturns
  BY <1>4 DEF WriteReturns, Store!Next
<1>5. CASE WriteFails
  BY <1>5 DEF WriteFails, Store!Next
<1>6. CASE PowerLoss
  BY <1>6 DEF PowerLoss, Store!Next
<1>7. \/ \E i \in Index, f \in Float : SetParam(i, f)
      \/ StartSave \/ StartLoad \/ LoadParam \/ UNCHANGED vars
      => UNCHANGED eeprom
  BY DEF SetParam, StartSave, StartLoad, LoadParam, vars
<1> QED
  BY <1>1, <1>2, <1>3, <1>4, <1>5, <1>6, <1>7 DEF Next

\* The parameters use the EEPROM in no other way than through the calls of the
\* store that the driver implements (EepromProofs!ImplementsStoreAlways): every
\* step is one of the store, at an address of its own and with a half-word, or
\* leaves it alone.
THEOREM UsesStore == Spec => Store!Spec
<1>1. TypeOK => Store!TypeOK
  BY DEF TypeOK
<1>2. Init => Store!Init
  BY <1>1, TypedInit DEF Init, Store!Init, Store!TypeOK
<1>3. TypeOK /\ [Next]_vars => [Store!Next]_(Store!vars)
  BY StoreUsed
<1> QED
  BY <1>2, <1>3, TypeCorrect, PTL DEF Spec, Store!Spec
=============================================================================
